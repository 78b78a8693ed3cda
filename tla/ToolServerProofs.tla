-------------------------- MODULE ToolServerProofs --------------------------
(* What the order of main's steps guarantees to the requests, for any number *)
(* of requests, tools asked for and calls in a batch.                       *)
EXTENDS ToolServer, TLAPS, FiniteSetTheorems

Before == {"connect db", "connect redis", "register", "start"}
Serving == {"notify", "wait"}
Closing == {"close redis", "close db"}
Places == {"idle", "list", "ping db", "ping redis", "ready", "collect", "answered"}

\* Main waits for the requests, or gives up, before it closes a store; nobody
\* comes in before it serves, or once it shuts down.
Waited ==
    /\ main \in Before \cup Serving \cup Closing \cup {"shutdown", "exited"}
    /\ place \in [Requests -> Places]
    /\ main \in {"register", "start", "shutdown"} \cup Serving => stores = Stores
    /\ main = "connect redis" => stores = {"db"}
    /\ main = "connect db" => stores = {}
    /\ main \in Before => server = "none" /\ drained
    /\ server = "listening" => main \in Serving \cup {"exited"}
    /\ main \in Closing => drained \/ timedOut = TRUE
    /\ main = "exited" => drained \/ timedOut = TRUE \/ stores = Stores

LEMMA WaitedInit == Init => Waited
<1> SUFFICES ASSUME Init PROVE Waited
  OBVIOUS
<1>1. /\ main = "connect db" /\ server = "none" /\ stores = {}
      /\ place = [r \in Requests |-> "idle"]
  BY DEF Init
<1> QED BY <1>1 DEF Waited, Before, Serving, Closing, Places, drained, inService

\* The handlers' steps: a request that has not come in, or was answered, is not
\* served.
LEMMA ServiceOnly ==
    ASSUME place \in [Requests -> Places], NEW r \in Requests, serve(r)
    PROVE  /\ place' \in [Requests -> Places]
           /\ \A q \in Requests : inService(q)' => inService(q)
<1>1. PICK from \in {"list", "ping db", "ping redis", "ready", "collect"}, to \in Places :
          \/ place' = place
          \/ place[r] = from /\ place' = [place EXCEPT ![r] = to]
  <2>1. CASE listTools(r)
    BY <2>1 DEF listTools, respond, atHandler, Places
  <2>2. CASE pingDB(r)
    BY <2>2 DEF pingDB, ping, respond, atHandler, Places
  <2>3. CASE pingRedis(r)
    BY <2>3 DEF pingRedis, ping, respond, atHandler, Places
  <2>4. CASE ready(r)
    BY <2>4 DEF ready, respond, atHandler, Places
  <2>5. CASE \E i \in calls(r) : execute(r, i) \/ inBatch(r, i)
    BY <2>5 DEF execute, inBatch, Places
  <2>6. CASE answerOne(r)
    BY <2>6 DEF answerOne, respond, atHandler, Places
  <2>7. CASE collect(r)
    BY <2>7 DEF collect, receive, answerBatch, respond, atHandler, Places
  <2> QED BY <2>1, <2>2, <2>3, <2>4, <2>5, <2>6, <2>7 DEF serve
<1> QED BY <1>1 DEF inService, Places

LEMMA WaitedMain ==
    ASSUME Waited, mainStep \/ listen \/ interrupt \/ serverError, ~exited,
           UNCHANGED handlers
    PROVE  Waited'
<1>1. place' = place /\ (drained' <=> drained)
  BY DEF handlers, drained, inService
<1>2. CASE connectDB
  BY <1>1, <1>2 DEF Waited, connectDB, connect, mainGoes, Before, Serving, Closing
<1>3. CASE connectRedis
  BY <1>1, <1>3 DEF Waited, connectRedis, connect, mainGoes, Before, Serving, Closing, Stores
<1>4. CASE registerAll
  <2>1. main = "register" /\ main' \in {"register", "start"} /\ UNCHANGED <<server, stores, timedOut>>
    BY <1>4 DEF registerAll
  <2> QED BY <1>1, <2>1 DEF Waited, Before, Serving, Closing
<1>5. CASE start
  BY <1>1, <1>5 DEF Waited, start, mainGoes, Before, Serving, Closing
<1>6. CASE notify
  BY <1>1, <1>6 DEF Waited, notify, mainGoes, Before, Serving, Closing
<1>7. CASE shutdown
  BY <1>1, <1>7 DEF Waited, shutdown, mainGoes, Before, Serving, Closing
<1>8. CASE closeRedis
  BY <1>1, <1>8 DEF Waited, closeRedis, closeStore, mainGoes, Before, Serving, Closing
<1>9. CASE closeDB
  BY <1>1, <1>9 DEF Waited, closeDB, closeStore, mainGoes, Before, Serving, Closing
<1>10. CASE listen
  BY <1>1, <1>10 DEF Waited, listen, Before, Serving, Closing
<1>11. CASE interrupt
  BY <1>1, <1>11 DEF Waited, interrupt, Before, Serving, Closing, exited
<1>12. CASE serverError
  BY <1>1, <1>12 DEF Waited, serverError, Before, Serving, Closing
<1> QED BY <1>2, <1>3, <1>4, <1>5, <1>6, <1>7, <1>8, <1>9, <1>10, <1>11, <1>12 DEF mainStep

LEMMA WaitedRequest ==
    ASSUME Waited, ~exited, NEW r \in Requests,
           badRequest(r) \/ (\E a \in Asks : accept(r, a)) \/ serve(r), UNCHANGED process
    PROVE  Waited'
<1>1. UNCHANGED <<main, server, stores, timedOut>>
  BY DEF process
<1>2. CASE serve(r)
  <2>1. place' \in [Requests -> Places] /\ (drained => drained')
    BY <1>2, ServiceOnly DEF Waited, drained
  <2> QED BY <1>1, <2>1 DEF Waited
<1>3. CASE badRequest(r) \/ \E a \in Asks : accept(r, a)
  <2>1. server = "listening" /\ main \in Serving
    BY <1>3 DEF badRequest, accept, Waited, exited
  <2>2. PICK to \in Places : place' = [place EXCEPT ![r] = to]
    BY <1>3 DEF badRequest, accept, respond, atHandler, entrance, Places
  <2> QED BY <1>1, <2>1, <2>2 DEF Waited, Serving, Before, Closing
<1> QED BY <1>2, <1>3

LEMMA WaitedStep == Waited /\ [Next]_vars => Waited'
<1> SUFFICES ASSUME Waited, [Next]_vars PROVE Waited'
  OBVIOUS
<1>1. CASE UNCHANGED vars
  BY <1>1 DEF vars, process, handlers, Waited, drained, inService
<1>2. CASE Next
  <2>1. ~exited
    BY <1>2 DEF Next
  <2>2. CASE (mainStep \/ listen \/ interrupt \/ serverError) /\ UNCHANGED handlers
    BY <2>1, <2>2, WaitedMain
  <2>3. CASE \E r \in Requests :
               /\ badRequest(r) \/ (\E a \in Asks : accept(r, a)) \/ serve(r)
               /\ UNCHANGED process
    BY <2>1, <2>3, WaitedRequest
  <2> QED BY <1>2, <2>2, <2>3 DEF Next, goroutines
<1> QED BY <1>1, <1>2

\* A request finds the database and Redis open from its first step to its last,
\* unless the shutdown's time ran out on it.
THEOREM StoresOutliveRequests == Spec => []StoresStayOpen
<1>1. Waited => StoresStayOpen
  <2> SUFFICES ASSUME Waited, NEW r \in Requests, inService(r), ~timedOut
               PROVE  stores = Stores
    BY DEF StoresStayOpen
  <2>1. ~drained
    BY DEF drained
  <2>2. timedOut # TRUE
    OBVIOUS
  <2> QED BY <2>1, <2>2 DEF Waited, Before, Serving, Closing
<1> QED BY <1>1, WaitedInit, WaitedStep, PTL DEF Spec

-----------------------------------------------------------------------------
(* The tools are registered before anyone asks                             *)

AllTools == {"calculator", "web_search"}

Registered ==
    /\ main \in {"connect db", "connect redis"} => tools = {}
    /\ main = "register" => tools \in {{}, {"calculator"}, AllTools}
    /\ main \notin {"connect db", "connect redis", "register", "exited"} => tools = AllTools

LEMMA Sizes ==
    /\ Cardinality({}) = 0 /\ Cardinality({"calculator"}) = 1
    /\ Cardinality(AllTools) = 2
<1>1. Cardinality({}) = 0 /\ IsFiniteSet({"calculator"}) /\ Cardinality({"calculator"}) = 1
  BY FS_EmptySet, FS_Singleton
<1>2. AllTools = {"calculator"} \cup {"web_search"} /\ "web_search" \notin {"calculator"}
  BY DEF AllTools
<1>3. Cardinality({"calculator"} \cup {"web_search"}) = 2
  BY <1>1, <1>2, FS_AddElement
<1> QED BY <1>1, <1>2, <1>3

LEMMA RegisteredMain ==
    ASSUME Registered, mainStep \/ listen \/ interrupt \/ serverError, ~exited
    PROVE  Registered'
<1>1. CASE registerAll
  <2>1. main = "register" /\ tools \in {{}, {"calculator"}, AllTools}
    BY <1>1 DEF registerAll, Registered
  <2>2. CASE tools = AllTools
    <3>1. Len(Builtin) = 2 /\ Cardinality(tools) = 2
      BY <2>2, Sizes DEF Builtin
    <3>2. main' = "start" /\ tools' = tools
      BY <1>1, <3>1 DEF registerAll, registry
    <3> QED BY <2>2, <3>2 DEF Registered
  <2>3. CASE tools # AllTools
    <3>1. Cardinality(tools) # 2 /\ Len(Builtin) = 2
      BY <2>1, <2>3, Sizes DEF Builtin
    <3>2. main' = main /\ (Registry!Lock(Main) \/ Registry!Register(Main, nextTool))
      BY <1>1, <3>1 DEF registerAll
    <3>3. tools' = tools \/ tools' = tools \cup {nextTool}
      BY <3>2 DEF Registry!Lock, Registry!Register
    <3>4. /\ tools = {} => nextTool = "calculator"
          /\ tools = {"calculator"} => nextTool = "web_search"
      <4>1. Builtin[0 + 1] = "calculator" /\ Builtin[1 + 1] = "web_search"
        BY DEF Builtin
      <4> QED BY <4>1, Sizes, Zenon DEF nextTool
    <3>5. tools' \in {{}, {"calculator"}, AllTools}
      BY <2>1, <2>3, <3>3, <3>4 DEF AllTools
    <3> QED BY <2>1, <3>2, <3>5 DEF Registered
  <2> QED BY <2>2, <2>3
<1>2. CASE ~registerAll
  <2>1. UNCHANGED tools
    BY <1>2 DEF mainStep, connectDB, connectRedis, connect, start, notify, shutdown,
                closeRedis, closeDB, closeStore, listen, interrupt, serverError, registry
  <2>2. \/ main' = main \/ main' = "exited"
        \/ main = "connect db" /\ main' = "connect redis"
        \/ main = "connect redis" /\ main' = "register"
        \/ main = "start" /\ main' = "notify"
        \/ main = "notify" /\ main' = "wait"
        \/ main = "wait" /\ main' = "shutdown"
        \/ main = "shutdown" /\ main' = "close redis"
        \/ main = "close redis" /\ main' = "close db"
    BY <1>2 DEF mainStep, connectDB, connectRedis, connect, start, notify, shutdown,
                closeRedis, closeDB, closeStore, listen, interrupt, serverError, mainGoes
  <2> QED BY <2>1, <2>2 DEF Registered
<1> QED BY <1>1, <1>2

-----------------------------------------------------------------------------
(* One request                                                             *)

TaskPlaces == {"none", "look up", "get", "run", "store", "report", "done"}
Refusals == {"denied", "not found", "failed"}
Successes == {"result", "infinite"}
Outcomes == {"none"} \cup Refusals \cup Successes

Listed(allowed) ==
    IF allowed = {} \/ "*" \in allowed THEN AllTools ELSE AllTools \cap allowed

Shown(a, o) ==
    IF \E i \in DOMAIN a.calls : o[i] = "infinite" THEN Sent("nothing", {})
    ELSE Sent("results",
              {<<i, IF o[i] = "result" THEN i ELSE 0>> : i \in DOMAIN a.calls})

\* The calls of a batch that have been reported, if t places them.
Reported(a, t) == {i \in DOMAIN a.calls : t[i] = "done"}

LocalTyped(p, a, t, o, s, n, m) ==
    /\ p \in Places /\ a \in Asks \cup {NoAsk}
    /\ t \in [Calls -> TaskPlaces] /\ o \in [Calls -> Outcomes]
    /\ s \in [Calls -> 0..MaxCalls] /\ n \in Nat /\ m \in Nat

\* Which handler serves what, and a request that has not come has nothing.
Served(p, a, t, n, m) ==
    /\ p = "idle" => /\ a = NoAsk /\ n = 0 /\ m = 0
                     /\ \A i \in Calls : t[i] = "none"
    /\ p = "list" => a.op = "list"
    /\ p \in {"ping db", "ping redis", "ready"} => a.op = "ready"
    /\ p = "collect" => a.op \in {"execute", "batch"}

\* The outcome of call i and its slot, as far as Execute has got.
OutcomeAt(i, at, how, slot) ==
    /\ at \in {"none", "look up", "get", "run"} => how = "none" /\ slot = 0
    /\ at = "store" => how \in Successes /\ slot = 0
    /\ at \in {"report", "done"} => \/ how \in Refusals /\ slot = 0
                                    \/ how \in Successes /\ slot = i

Outcome(t, o, s) == \A i \in Calls : OutcomeAt(i, t[i], o[i], s[i])

\* What was decided of call i agrees with the token and with all the tools.
DecidedAt(a, i, at, how) ==
    /\ how = "denied" => ~CanUseTool(a.allowed, a.calls[i])
    /\ how = "not found" => a.calls[i] \notin AllTools
    /\ at \in {"get", "run"} \/ how \in {"failed"} \cup Successes =>
           CanUseTool(a.allowed, a.calls[i])
    /\ at = "run" \/ how \in {"failed"} \cup Successes => a.calls[i] \in AllTools

Decided(a, t, o) == \A i \in DOMAIN a.calls : DecidedAt(a, i, t[i], o[i])

Answer(p, a, t, o, n, m, w) ==
    /\ a.op = "batch" => n + m = Cardinality(Reported(a, t))
    /\ p = "answered" /\ a.op = "batch" =>
           /\ \A i \in DOMAIN a.calls : t[i] = "done"
           /\ w = Shown(a, o)
    /\ p = "answered" /\ a.op = "list" => w.of = Listed(a.allowed)

Local(p, a, t, o, s, n, m, w) ==
    /\ LocalTyped(p, a, t, o, s, n, m) /\ Served(p, a, t, n, m)
    /\ Outcome(t, o, s) /\ Decided(a, t, o) /\ Answer(p, a, t, o, n, m, w)

-----------------------------------------------------------------------------
(* All requests                                                            *)

Fun(f) == f = [q \in Requests |-> f[q]]

\* g is f but for r, which it maps to v.
Changed(f, g, r, v) == g = [q \in Requests |-> IF q = r THEN v ELSE f[q]]

LEMMA Changes ==
    ASSUME NEW f, Fun(f), NEW r \in Requests
    PROVE  /\ \A g : g = f => Changed(f, g, r, f[r])
           /\ \A g, v : g = [f EXCEPT ![r] = v] => Changed(f, g, r, v)
           /\ \A g, i, v : g = [f EXCEPT ![r][i] = v] =>
                  Changed(f, g, r, [f[r] EXCEPT ![i] = v])
BY DEF Fun, Changed

LocalAt(r) == Local(place[r], ask[r], task[r], outcome[r], results[r], reports[r],
                    received[r], answer[r])

Kept ==
    /\ Fun(place) /\ Fun(ask) /\ Fun(task) /\ Fun(outcome)
    /\ Fun(results) /\ Fun(reports) /\ Fun(received) /\ Fun(answer)
    /\ \A r \in Requests : LocalAt(r)

\* Before the tools are registered no request has come.
NobodyYet ==
    main \in {"connect db", "connect redis", "register"} =>
        \A r \in Requests : place[r] = "idle"

LEMMA KeptInit == Init => Kept /\ Registered /\ NobodyYet
<1> SUFFICES ASSUME Init PROVE Kept /\ Registered /\ NobodyYet
  OBVIOUS
<1>1. Registered /\ NobodyYet
  BY DEF Init, Registered, NobodyYet, Registry!RegistryInit
<1>2. /\ Fun(place) /\ Fun(ask) /\ Fun(task) /\ Fun(outcome)
      /\ Fun(results) /\ Fun(reports) /\ Fun(received) /\ Fun(answer)
  BY DEF Init, Fun
<1>3. ASSUME NEW r \in Requests PROVE LocalAt(r)
  <2>1. /\ place[r] = "idle" /\ ask[r] = NoAsk
        /\ task[r] = [i \in Calls |-> "none"] /\ outcome[r] = [i \in Calls |-> "none"]
        /\ results[r] = [i \in Calls |-> 0] /\ reports[r] = 0 /\ received[r] = 0
    BY DEF Init
  <2>2. NoAsk.op = "none" /\ DOMAIN NoAsk.calls = {}
    BY DEF NoAsk
  <2>3. MaxCalls \in Nat
    BY BoundAssumption
  <2> QED BY <2>1, <2>2, <2>3
          DEF LocalAt, Local, LocalTyped, Served, Outcome, OutcomeAt, Decided, Answer,
              Places, TaskPlaces, Outcomes
<1> QED BY <1>1, <1>2, <1>3 DEF Kept

LEMMA Replace ==
    ASSUME Kept, NEW r \in Requests,
           NEW p, NEW a, NEW t, NEW o, NEW s, NEW n, NEW m, NEW w,
           Local(p, a, t, o, s, n, m, w),
           Changed(place, place', r, p), Changed(ask, ask', r, a),
           Changed(task, task', r, t), Changed(outcome, outcome', r, o),
           Changed(results, results', r, s), Changed(reports, reports', r, n),
           Changed(received, received', r, m), Changed(answer, answer', r, w)
    PROVE  Kept'
<1>1. /\ Fun(place') /\ Fun(ask') /\ Fun(task') /\ Fun(outcome')
      /\ Fun(results') /\ Fun(reports') /\ Fun(received') /\ Fun(answer')
  BY DEF Changed, Fun
<1>2. ASSUME NEW q \in Requests
      PROVE  Local(place'[q], ask'[q], task'[q], outcome'[q], results'[q], reports'[q],
                   received'[q], answer'[q])
  <2>1. CASE q = r
    BY <2>1 DEF Changed
  <2>2. CASE q # r
    <3>1. /\ place'[q] = place[q] /\ ask'[q] = ask[q] /\ task'[q] = task[q]
          /\ outcome'[q] = outcome[q] /\ results'[q] = results[q]
          /\ reports'[q] = reports[q] /\ received'[q] = received[q]
          /\ answer'[q] = answer[q]
      BY <2>2 DEF Changed
    <3> QED BY <3>1 DEF Kept, LocalAt
  <2> QED BY <2>1, <2>2
<1> QED BY <1>1, <1>2 DEF Kept, LocalAt, Fun

-----------------------------------------------------------------------------
(* Calls and slots                                                         *)

LEMMA CallsOf ==
    ASSUME NEW a \in Asks \cup {NoAsk}
    PROVE  /\ Len(a.calls) \in 0..MaxCalls /\ DOMAIN a.calls = 1..Len(a.calls)
           /\ DOMAIN a.calls \subseteq Calls
           /\ IsFiniteSet(DOMAIN a.calls)
           /\ Cardinality(DOMAIN a.calls) = Len(a.calls)
           /\ a = NoAsk => DOMAIN a.calls = {}
<1>1. Len(a.calls) \in 0..MaxCalls /\ DOMAIN a.calls = 1..Len(a.calls)
  <2>1. CASE a = NoAsk
    BY <2>1, BoundAssumption DEF NoAsk
  <2>2. CASE a \in Asks
    BY <2>2, AskAssumption, BoundAssumption DEF Ask
  <2> QED BY <2>1, <2>2
<1>2. 1..Len(a.calls) \subseteq 1..MaxCalls
  BY <1>1, BoundAssumption
<1>3. /\ IsFiniteSet(1..Len(a.calls)) /\ Cardinality(1..Len(a.calls)) = Len(a.calls)
  <2>1. Len(a.calls) \in Nat /\ 1 \in Int /\ Len(a.calls) \in Int
    BY <1>1
  <2>2. /\ IsFiniteSet(1..Len(a.calls))
        /\ Cardinality(1..Len(a.calls)) =
               IF 1 > Len(a.calls) THEN 0 ELSE Len(a.calls) - 1 + 1
    BY <2>1, FS_Interval
  <2> QED BY <2>1, <2>2
<1>4. a = NoAsk => DOMAIN a.calls = {}
  BY DEF NoAsk
<1> QED BY <1>1, <1>2, <1>3, <1>4 DEF Calls

\* A call that goes from a place other than "done" to one is one more report.
LEMMA OneMoreReport ==
    ASSUME NEW a \in Asks \cup {NoAsk}, NEW t, NEW t2,
           NEW i \in DOMAIN a.calls, t[i] # "done",
           \A j \in DOMAIN a.calls : j # i => t2[j] = t[j]
    PROVE  /\ Cardinality(Reported(a, t)) \in Nat
           /\ t2[i] = "done" =>
                  Cardinality(Reported(a, t2)) = Cardinality(Reported(a, t)) + 1
           /\ t2[i] # "done" => Reported(a, t2) = Reported(a, t)
<1>1. Reported(a, t) \in SUBSET DOMAIN a.calls
  BY DEF Reported
<1>2. IsFiniteSet(Reported(a, t)) /\ Cardinality(Reported(a, t)) \in Nat
  BY <1>1, CallsOf, FS_Subset, FS_CardinalityType
<1>3. CASE t2[i] = "done"
  <2>1. Reported(a, t2) = Reported(a, t) \cup {i} /\ i \notin Reported(a, t)
    BY <1>3 DEF Reported
  <2>2. Cardinality(Reported(a, t) \cup {i}) = Cardinality(Reported(a, t)) + 1
    BY <1>2, <2>1, FS_AddElement
  <2> QED BY <1>2, <1>3, <2>1, <2>2
<1>4. CASE t2[i] # "done"
  <2>1. Reported(a, t2) = Reported(a, t)
    BY <1>4 DEF Reported
  <2> QED BY <1>2, <1>4, <2>1
<1> QED BY <1>3, <1>4

-----------------------------------------------------------------------------
(* Coming and going                                                        *)

LEMMA KeptComing ==
    ASSUME Kept, NEW r \in Requests, badRequest(r) \/ \E a \in Asks : accept(r, a)
    PROVE  Kept'
<1>1. LocalAt(r) /\ place[r] = "idle"
  BY DEF Kept, badRequest, accept, respond, atHandler
<1>2. CASE badRequest(r)
  <2>1. /\ place' = [place EXCEPT ![r] = "answered"]
        /\ answer' = [answer EXCEPT ![r] = Sent("error", {})]
        /\ UNCHANGED <<ask, task, outcome, results, reports, received>>
    BY <1>2 DEF badRequest, respond, atHandler
  <2>2. Local("answered", ask[r], task[r], outcome[r], results[r], reports[r],
              received[r], Sent("error", {}))
    <3>1. ask[r] = NoAsk /\ NoAsk.op = "none"
      BY <1>1 DEF LocalAt, Local, Served, NoAsk
    <3> QED BY <1>1, <3>1
            DEF LocalAt, Local, LocalTyped, Served, Answer, Places
  <2>3. /\ Changed(place, place', r, "answered")
        /\ Changed(answer, answer', r, Sent("error", {}))
        /\ Changed(ask, ask', r, ask[r]) /\ Changed(task, task', r, task[r])
        /\ Changed(outcome, outcome', r, outcome[r])
        /\ Changed(results, results', r, results[r])
        /\ Changed(reports, reports', r, reports[r])
        /\ Changed(received, received', r, received[r])
    BY <2>1, Changes DEF Kept
  <2> QED BY <2>2, <2>3, Replace
<1>3. ASSUME NEW a \in Asks, accept(r, a) PROVE Kept'
  <2> DEFINE t == [i \in Calls |-> IF i \in DOMAIN a.calls THEN "look up" ELSE "none"]
  <2>1. /\ place' = [place EXCEPT ![r] = entrance(a)]
        /\ ask' = [ask EXCEPT ![r] = a] /\ task' = [task EXCEPT ![r] = t]
        /\ UNCHANGED <<outcome, results, reports, received, answer>>
    BY <1>3 DEF accept, atHandler
  <2>2. Local(entrance(a), a, t, outcome[r], results[r], reports[r], received[r],
              answer[r])
    <3>1. /\ reports[r] = 0 /\ received[r] = 0
          /\ \A i \in Calls : task[r][i] = "none"
      BY <1>1 DEF LocalAt, Local, Served
    <3>2. \A i \in Calls : outcome[r][i] = "none" /\ results[r][i] = 0
      BY <1>1, <3>1 DEF LocalAt, Local, Outcome, OutcomeAt
    <3>3. a.op \in {"list", "execute", "batch", "ready"} /\ DOMAIN a.calls \subseteq Calls
      BY AskAssumption, CallsOf DEF Ask
    <3>4. /\ a.op = "list" => entrance(a) = "list"
          /\ a.op = "ready" => entrance(a) = "ping db"
          /\ a.op \notin {"list", "ready"} => entrance(a) = "collect"
      BY DEF entrance
    <3>5. t \in [Calls -> TaskPlaces] /\ \A i \in Calls : t[i] \in {"none", "look up"}
      BY DEF TaskPlaces
    <3>6. Reported(a, t) = {} /\ Cardinality(Reported(a, t)) = 0
      BY <3>3, <3>5, FS_EmptySet DEF Reported
    <3>7. LocalTyped(entrance(a), a, t, outcome[r], results[r], reports[r], received[r])
      BY <1>1, <3>3, <3>4, <3>5 DEF LocalAt, Local, LocalTyped, Places
    <3>8. Served(entrance(a), a, t, reports[r], received[r])
      BY <3>3, <3>4 DEF Served
    <3>9. Outcome(t, outcome[r], results[r]) /\ Decided(a, t, outcome[r])
      BY <3>2, <3>3, <3>5 DEF Outcome, OutcomeAt, Decided, DecidedAt, Successes
    <3>10. Answer(entrance(a), a, t, outcome[r], reports[r], received[r], answer[r])
      <4> HIDE DEF t
      <4>1. reports[r] + received[r] = Cardinality(Reported(a, t))
        BY <3>1, <3>6
      <4>2. entrance(a) # "answered"
        BY <3>3, <3>4
      <4> QED BY <4>1, <4>2 DEF Answer
    <3> QED BY <3>7, <3>8, <3>9, <3>10 DEF Local
  <2> HIDE DEF t
  <2>3. /\ Changed(place, place', r, entrance(a)) /\ Changed(ask, ask', r, a)
        /\ Changed(task, task', r, t)
        /\ Changed(outcome, outcome', r, outcome[r])
        /\ Changed(results, results', r, results[r])
        /\ Changed(reports, reports', r, reports[r])
        /\ Changed(received, received', r, received[r])
        /\ Changed(answer, answer', r, answer[r])
    BY <2>1, Changes DEF Kept
  <2> QED BY <2>2, <2>3, Replace
<1> QED BY <1>2, <1>3

\* A request that is answered, and one whose handler goes on without an answer.
LEMMA Moves ==
    ASSUME Kept, NEW r \in Requests, NEW to, NEW w,
           place' = [place EXCEPT ![r] = to],
           answer' = [answer EXCEPT ![r] = w] \/ (answer' = answer /\ w = answer[r]),
           UNCHANGED <<ask, task, outcome, results, reports, received>>,
           to \in Places, Served(to, ask[r], task[r], reports[r], received[r]),
           Answer(to, ask[r], task[r], outcome[r], reports[r], received[r], w)
    PROVE  Kept'
<1>1. LocalAt(r)
  BY DEF Kept
<1>2. Local(to, ask[r], task[r], outcome[r], results[r], reports[r], received[r], w)
  BY <1>1 DEF LocalAt, Local, LocalTyped
<1>3. /\ Changed(place, place', r, to) /\ Changed(answer, answer', r, w)
      /\ Changed(ask, ask', r, ask[r]) /\ Changed(task, task', r, task[r])
      /\ Changed(outcome, outcome', r, outcome[r])
      /\ Changed(results, results', r, results[r])
      /\ Changed(reports, reports', r, reports[r])
      /\ Changed(received, received', r, received[r])
  BY Changes DEF Kept
<1> QED BY <1>2, <1>3, Replace

LEMMA KeptSimple ==
    ASSUME Kept, Registered, NobodyYet, ~exited, NEW r \in Requests,
           listTools(r) \/ pingDB(r) \/ pingRedis(r) \/ ready(r) \/ answerOne(r)
    PROVE  Kept'
<1>1. LocalAt(r)
  BY DEF Kept
<1>2. CASE listTools(r)
  <2>1. CASE UNCHANGED <<place, answer>>
    <3>1. UNCHANGED <<ask, task, outcome, results, reports, received>>
      BY <1>2 DEF listTools
    <3> QED BY <2>1, <3>1 DEF Kept, LocalAt, Fun
  <2>2. CASE ~UNCHANGED <<place, answer>>
    <3> DEFINE w == Sent("tools", Registry!ListForToken(ask[r].allowed))
    <3>1. /\ place[r] = "list" /\ place' = [place EXCEPT ![r] = "answered"]
          /\ answer' = [answer EXCEPT ![r] = w]
          /\ UNCHANGED <<ask, task, outcome, results, reports, received>>
      BY <1>2, <2>2 DEF listTools, respond, atHandler
    <3>2. tools = AllTools
      BY <3>1 DEF Registered, NobodyYet, exited
    <3>3. w.of = Listed(ask[r].allowed)
      BY <3>2 DEF Sent, Registry!ListForToken, Registry!List, Registry!listsAgain, Listed
    <3>4. ask[r].op = "list"
      BY <1>1, <3>1 DEF LocalAt, Local, Served
    <3>5. Answer("answered", ask[r], task[r], outcome[r], reports[r], received[r], w)
      BY <3>3, <3>4 DEF Answer
    <3> HIDE DEF w
    <3>6. Served("answered", ask[r], task[r], reports[r], received[r])
      BY DEF Served
    <3> QED BY <3>1, <3>5, <3>6, Moves DEF Places
  <2> QED BY <2>1, <2>2
<1>3. ASSUME NEW which, NEW from \in {"ping db", "ping redis"},
             NEW to \in {"ping redis", "ready"}, ping(r, which, from, to)
      PROVE  Kept'
  <2>1. place[r] = from /\ UNCHANGED <<ask, task, outcome, results, reports, received>>
    BY <1>3 DEF ping, respond, atHandler
  <2>2. ask[r].op = "ready"
    BY <1>1, <2>1 DEF LocalAt, Local, Served
  <2>3. CASE place' = [place EXCEPT ![r] = to] /\ answer' = answer
    <3>1. /\ Served(to, ask[r], task[r], reports[r], received[r]) /\ to \in Places
          /\ Answer(to, ask[r], task[r], outcome[r], reports[r], received[r], answer[r])
      BY <2>2 DEF Served, Answer, Places
    <3> QED BY <2>1, <2>3, <3>1, Moves
  <2>4. CASE /\ place' = [place EXCEPT ![r] = "answered"]
             /\ answer' = [answer EXCEPT ![r] = Sent("unavailable", {})]
    <3>1. /\ Served("answered", ask[r], task[r], reports[r], received[r])
          /\ Answer("answered", ask[r], task[r], outcome[r], reports[r], received[r],
                    Sent("unavailable", {}))
          /\ "answered" \in Places
      BY <2>2 DEF Served, Answer, Places
    <3> QED BY <2>1, <2>4, <3>1, Moves
  <2> QED BY <1>3, <2>3, <2>4 DEF ping, respond, atHandler
<1>4. CASE pingDB(r) \/ pingRedis(r)
  BY <1>3, <1>4 DEF pingDB, pingRedis
<1>5. CASE ready(r)
  <2>1. /\ place[r] = "ready" /\ place' = [place EXCEPT ![r] = "answered"]
        /\ answer' = [answer EXCEPT ![r] = Sent("ready", {})]
        /\ UNCHANGED <<ask, task, outcome, results, reports, received>>
    BY <1>5 DEF ready, respond, atHandler
  <2>2. ask[r].op = "ready"
    BY <1>1, <2>1 DEF LocalAt, Local, Served
  <2>3. /\ Served("answered", ask[r], task[r], reports[r], received[r])
        /\ Answer("answered", ask[r], task[r], outcome[r], reports[r], received[r],
                  Sent("ready", {}))
        /\ "answered" \in Places
    BY <2>2 DEF Served, Answer, Places
  <2> QED BY <2>1, <2>3, Moves
<1>6. CASE answerOne(r)
  <2>1. PICK w : /\ place' = [place EXCEPT ![r] = "answered"]
                 /\ answer' = [answer EXCEPT ![r] = w]
                 /\ UNCHANGED <<ask, task, outcome, results, reports, received>>
    BY <1>6 DEF answerOne, respond, atHandler
  <2>2. ask[r].op = "execute"
    BY <1>6 DEF answerOne
  <2>3. /\ Served("answered", ask[r], task[r], reports[r], received[r])
        /\ Answer("answered", ask[r], task[r], outcome[r], reports[r], received[r], w)
        /\ "answered" \in Places
    BY <2>2 DEF Served, Answer, Places
  <2> QED BY <2>1, <2>3, Moves
<1> QED BY <1>2, <1>4, <1>5, <1>6

-----------------------------------------------------------------------------
(* A call goes on                                                          *)

LEMMA AnswerGoesOn ==
    ASSUME NEW a \in Asks \cup {NoAsk}, NEW t, NEW t2,
           NEW i \in DOMAIN a.calls, t[i] # "done",
           \A j \in DOMAIN a.calls : j # i => t2[j] = t[j],
           NEW p, NEW o, NEW o2, NEW n \in Nat, NEW m \in Nat, NEW w,
           Answer(p, a, t, o, n, m, w)
    PROVE  Answer(p, a, t2, o2, n + IF t2[i] = "done" THEN 1 ELSE 0, m, w)
<1>1. PICK d \in {0, 1} : d = IF t2[i] = "done" THEN 1 ELSE 0
  OBVIOUS
<1>2. /\ Cardinality(Reported(a, t)) \in Nat
      /\ Cardinality(Reported(a, t2)) = Cardinality(Reported(a, t)) + d
  <2>1. /\ Cardinality(Reported(a, t)) \in Nat
        /\ t2[i] = "done" =>
               Cardinality(Reported(a, t2)) = Cardinality(Reported(a, t)) + 1
        /\ t2[i] # "done" => Reported(a, t2) = Reported(a, t)
    BY OneMoreReport
  <2> QED BY <1>1, <2>1
<1>3. a.op = "batch" => n + m = Cardinality(Reported(a, t))
  BY DEF Answer
<1>4. ~(p = "answered" /\ a.op = "batch")
  BY DEF Answer
<1>5. p = "answered" /\ a.op = "list" => w.of = Listed(a.allowed)
  BY DEF Answer
<1>6. a.op = "batch" => (n + d) + m = Cardinality(Reported(a, t2))
  BY <1>2, <1>3
<1>7. Answer(p, a, t2, o2, n + d, m, w)
  BY <1>4, <1>5, <1>6 DEF Answer
<1> QED BY <1>1, <1>7

\* A request one of whose calls goes on.
LEMMA LocalGoesOn ==
    ASSUME NEW p, NEW a, NEW t, NEW o, NEW s, NEW n, NEW m, NEW w,
           Local(p, a, t, o, s, n, m, w),
           NEW i \in DOMAIN a.calls, t[i] # "done",
           NEW t2 \in [Calls -> TaskPlaces], NEW o2 \in [Calls -> Outcomes],
           NEW s2 \in [Calls -> 0..MaxCalls],
           \A j \in Calls : j # i => t2[j] = t[j] /\ o2[j] = o[j] /\ s2[j] = s[j],
           OutcomeAt(i, t2[i], o2[i], s2[i]), DecidedAt(a, i, t2[i], o2[i])
    PROVE  Local(p, a, t2, o2, s2, n + IF t2[i] = "done" THEN 1 ELSE 0, m, w)
<1>1. /\ LocalTyped(p, a, t, o, s, n, m) /\ Served(p, a, t, n, m)
      /\ Outcome(t, o, s) /\ Decided(a, t, o) /\ Answer(p, a, t, o, n, m, w)
  BY DEF Local
<1>2. p \in Places /\ a \in Asks \cup {NoAsk} /\ n \in Nat /\ m \in Nat
  BY <1>1 DEF LocalTyped
<1>3. i \in Calls /\ DOMAIN a.calls \subseteq Calls /\ a # NoAsk
  BY <1>2, CallsOf
<1>4. LocalTyped(p, a, t2, o2, s2, n + IF t2[i] = "done" THEN 1 ELSE 0, m)
  BY <1>2 DEF LocalTyped
<1>5. Served(p, a, t2, n + IF t2[i] = "done" THEN 1 ELSE 0, m)
  BY <1>1, <1>3 DEF Served
<1>6. Outcome(t2, o2, s2)
  <2> SUFFICES ASSUME NEW j \in Calls, j # i PROVE OutcomeAt(j, t2[j], o2[j], s2[j])
    BY DEF Outcome
  <2> QED BY <1>1 DEF Outcome
<1>7. Decided(a, t2, o2)
  <2> SUFFICES ASSUME NEW j \in DOMAIN a.calls, j # i PROVE DecidedAt(a, j, t2[j], o2[j])
    BY DEF Decided
  <2> QED BY <1>1, <1>3 DEF Decided
<1>8. \A j \in DOMAIN a.calls : j # i => t2[j] = t[j]
  BY <1>3
<1>9. Answer(p, a, t2, o2, n + IF t2[i] = "done" THEN 1 ELSE 0, m, w)
  BY <1>1, <1>2, <1>8, AnswerGoesOn
<1> QED BY <1>4, <1>5, <1>6, <1>7, <1>9 DEF Local

\* To write the value that is there changes nothing.
LEMMA SameThere ==
    ASSUME NEW f, Fun(f), NEW r \in Requests, NEW S, f[r] \in [Calls -> S], NEW i
    PROVE  \A g : g = f => Changed(f, g, r, [f[r] EXCEPT ![i] = f[r][i]])
<1>1. [f[r] EXCEPT ![i] = f[r][i]] = f[r]
  OBVIOUS
<1> QED BY <1>1 DEF Fun, Changed

LEMMA NoReport ==
    ASSUME NEW n \in Nat, NEW to, to # "done"
    PROVE  n = n + IF to = "done" THEN 1 ELSE 0
OBVIOUS

\* The call i of r goes to another place, with an outcome, a slot and a report
\* that agree with it.
LEMMA CallGoesOn ==
    ASSUME Kept, NEW r \in Requests, NEW i \in calls(r), NEW to \in TaskPlaces,
           NEW how \in Outcomes, NEW slot \in 0..MaxCalls, NEW n,
           task[r][i] # "done",
           n = reports[r] + IF to = "done" THEN 1 ELSE 0,
           task' = [task EXCEPT ![r][i] = to],
           Changed(outcome, outcome', r, [outcome[r] EXCEPT ![i] = how]),
           Changed(results, results', r, [results[r] EXCEPT ![i] = slot]),
           Changed(reports, reports', r, n),
           UNCHANGED <<place, ask, received, answer>>,
           OutcomeAt(i, to, how, slot), DecidedAt(ask[r], i, to, how)
    PROVE  Kept'
<1> DEFINE t == [task[r] EXCEPT ![i] = to]
           o == [outcome[r] EXCEPT ![i] = how]
           s == [results[r] EXCEPT ![i] = slot]
<1>1. Local(place[r], ask[r], task[r], outcome[r], results[r], reports[r], received[r],
            answer[r])
  BY DEF Kept, LocalAt
<1>2. /\ ask[r] \in Asks \cup {NoAsk}
      /\ task[r] \in [Calls -> TaskPlaces] /\ outcome[r] \in [Calls -> Outcomes]
      /\ results[r] \in [Calls -> 0..MaxCalls]
  BY <1>1 DEF Local, LocalTyped
<1>3. i \in DOMAIN ask[r].calls /\ i \in Calls
  BY <1>2, CallsOf DEF calls
<1>4. /\ t \in [Calls -> TaskPlaces] /\ o \in [Calls -> Outcomes]
      /\ s \in [Calls -> 0..MaxCalls]
      /\ t[i] = to /\ o[i] = how /\ s[i] = slot
      /\ \A j \in Calls : j # i => /\ t[j] = task[r][j] /\ o[j] = outcome[r][j]
                                   /\ s[j] = results[r][j]
  BY <1>2, <1>3
<1>5. /\ Changed(task, task', r, t) /\ Changed(place, place', r, place[r])
      /\ Changed(ask, ask', r, ask[r]) /\ Changed(received, received', r, received[r])
      /\ Changed(answer, answer', r, answer[r])
  BY Changes DEF Kept
<1> HIDE DEF t, o, s
<1>6. Local(place[r], ask[r], t, o, s, n, received[r], answer[r])
  <2>1. OutcomeAt(i, t[i], o[i], s[i]) /\ DecidedAt(ask[r], i, t[i], o[i])
    BY <1>4
  <2>2. Local(place[r], ask[r], t, o, s, reports[r] + IF t[i] = "done" THEN 1 ELSE 0,
              received[r], answer[r])
    BY <1>1, <1>3, <1>4, <2>1, LocalGoesOn
  <2> QED BY <1>4, <2>2
<1>7. Changed(outcome, outcome', r, o) /\ Changed(results, results', r, s)
  BY DEF o, s
<1> QED BY <1>5, <1>6, <1>7, Replace

LEMMA KeptExecute ==
    ASSUME Kept, Registered, NobodyYet, ~exited, NEW r \in Requests,
           NEW i \in calls(r), execute(r, i)
    PROVE  Kept'
<1>1. LocalAt(r) /\ UNCHANGED <<place, ask, results, reports, received, answer>>
  BY DEF Kept, execute
<1>2. /\ ask[r] \in Asks \cup {NoAsk} /\ i \in DOMAIN ask[r].calls
      /\ outcome[r] \in [Calls -> Outcomes] /\ results[r] \in [Calls -> 0..MaxCalls]
      /\ reports[r] \in Nat
  BY <1>1 DEF LocalAt, Local, LocalTyped, calls
<1>3. i \in Calls /\ ask[r] # NoAsk /\ 0 \in 0..MaxCalls
  BY <1>2, CallsOf, BoundAssumption
<1>4. tools = AllTools
  <2>1. place[r] # "idle"
    BY <1>1, <1>3 DEF LocalAt, Local, Served
  <2> QED BY <2>1 DEF Registered, NobodyYet, exited
<1>5. OutcomeAt(i, task[r][i], outcome[r][i], results[r][i])
      /\ DecidedAt(ask[r], i, task[r][i], outcome[r][i])
  BY <1>1, <1>2, <1>3 DEF LocalAt, Local, Outcome, Decided
<1>6. task[r][i] \in {"look up", "get", "run"} =>
          results[r][i] = 0 /\ outcome[r][i] = "none"
  BY <1>5 DEF OutcomeAt
<1>7. results[r][i] = 0 => Changed(results, results', r, [results[r] EXCEPT ![i] = 0])
  BY <1>1, <1>2, SameThere DEF Kept
<1>8. Changed(reports, reports', r, reports[r])
  BY <1>1, Changes DEF Kept
\* Execute goes on with the call, or returns from it.
<1>9. ASSUME NEW from \in {"look up", "get", "run"}, NEW to \in {"get", "run"},
             taskGoes(r, i, from, to), UNCHANGED outcome,
             CanUseTool(ask[r].allowed, ask[r].calls[i]),
             to = "run" => ask[r].calls[i] \in AllTools
      PROVE  Kept'
  <2>1. task[r][i] = from /\ task' = [task EXCEPT ![r][i] = to]
    BY <1>9 DEF taskGoes
  <2>2. /\ task[r][i] # "done" /\ results[r][i] = 0 /\ outcome[r][i] = "none"
        /\ to \in TaskPlaces /\ "none" \in Outcomes
    BY <1>6, <2>1 DEF TaskPlaces, Outcomes
  <2>3. Changed(outcome, outcome', r, [outcome[r] EXCEPT ![i] = "none"])
    BY <1>2, <1>9, <2>2, SameThere DEF Kept
  <2>4. reports[r] = reports[r] + IF to = "done" THEN 1 ELSE 0
    <3>1. reports[r] \in Nat /\ to # "done"
      BY <1>2
    <3> QED BY <3>1, NoReport
  <2>5. OutcomeAt(i, to, "none", 0) /\ DecidedAt(ask[r], i, to, "none")
    BY <1>9 DEF OutcomeAt, DecidedAt, Successes
  <2> QED BY <1>1, <1>3, <1>7, <1>8, <2>1, <2>2, <2>3, <2>4, <2>5, CallGoesOn
<1>10. ASSUME NEW from \in {"look up", "get", "run"}, NEW how \in Refusals \cup Successes,
              returns(r, i, from, how),
              how = "denied" => ~CanUseTool(ask[r].allowed, ask[r].calls[i]),
              how = "not found" => ask[r].calls[i] \notin AllTools,
              how \in {"failed"} \cup Successes =>
                  /\ CanUseTool(ask[r].allowed, ask[r].calls[i])
                  /\ ask[r].calls[i] \in AllTools
       PROVE  Kept'
  <2> DEFINE to == IF how \in Successes THEN "store" ELSE "report"
  <2>1. /\ task[r][i] = from /\ task' = [task EXCEPT ![r][i] = to]
        /\ outcome' = [outcome EXCEPT ![r][i] = how]
    BY <1>10 DEF returns, taskGoes, Successes
  <2>2. OutcomeAt(i, to, how, 0) /\ DecidedAt(ask[r], i, to, how)
    BY <1>10 DEF OutcomeAt, DecidedAt
  <2>3. /\ task[r][i] # "done" /\ results[r][i] = 0
        /\ to \in TaskPlaces /\ how \in Outcomes
    BY <1>6, <2>1 DEF TaskPlaces, Outcomes
  <2>5. reports[r] = reports[r] + IF to = "done" THEN 1 ELSE 0
    <3>1. reports[r] \in Nat /\ to # "done"
      BY <1>2 DEF to
    <3> QED BY <3>1, NoReport
  <2> HIDE DEF to
  <2>4. Changed(outcome, outcome', r, [outcome[r] EXCEPT ![i] = how])
    BY <2>1, Changes DEF Kept
  <2> QED BY <1>1, <1>3, <1>7, <1>8, <2>1, <2>2, <2>3, <2>4, <2>5, CallGoesOn
<1>11. CASE lookUp(r, i)
  <2>1. CASE CanUseTool(ask[r].allowed, ask[r].calls[i])
    <3>1. taskGoes(r, i, "look up", "get") /\ UNCHANGED outcome
      BY <1>11, <2>1 DEF lookUp
    <3> QED BY <1>9, <2>1, <3>1
  <2>2. CASE ~CanUseTool(ask[r].allowed, ask[r].calls[i])
    <3>1. returns(r, i, "look up", "denied")
      BY <1>11, <2>2 DEF lookUp
    <3> QED BY <1>10, <2>2, <3>1 DEF Refusals, Successes
  <2> QED BY <2>1, <2>2
<1>12. CASE get(r, i)
  <2>1. task[r][i] = "get"
    BY <1>12 DEF get, returns, taskGoes
  <2>2. CanUseTool(ask[r].allowed, ask[r].calls[i])
    BY <1>5, <2>1 DEF DecidedAt
  <2>3. CASE ask[r].calls[i] \in tools
    <3>1. taskGoes(r, i, "get", "run") /\ UNCHANGED outcome
      BY <1>12, <2>3 DEF get, Registry!Get
    <3> QED BY <1>4, <1>9, <2>2, <2>3, <3>1
  <2>4. CASE ask[r].calls[i] \notin tools
    <3>1. returns(r, i, "get", "not found")
      BY <1>12, <2>4 DEF get, Registry!Get
    <3> QED BY <1>4, <1>10, <2>4, <3>1 DEF Refusals, Successes
  <2> QED BY <2>3, <2>4
<1>13. CASE run(r, i)
  <2>1. PICK how \in {"result", "infinite", "failed"} : returns(r, i, "run", how)
    BY <1>13 DEF run, calculator, evaluate, webSearch
  <2>2. task[r][i] = "run"
    BY <2>1 DEF returns, taskGoes
  <2>3. CanUseTool(ask[r].allowed, ask[r].calls[i]) /\ ask[r].calls[i] \in AllTools
    BY <1>5, <2>2 DEF DecidedAt
  <2>4. how \in Refusals \cup Successes /\ how # "denied" /\ how # "not found"
    BY <2>1 DEF Refusals, Successes
  <2> QED BY <1>10, <2>1, <2>3, <2>4
<1> QED BY <1>11, <1>12, <1>13 DEF execute

LEMMA KeptInBatch ==
    ASSUME Kept, NEW r \in Requests, NEW i \in calls(r), inBatch(r, i)
    PROVE  Kept'
<1>1. /\ LocalAt(r)
      /\ UNCHANGED <<place, ask, outcome, received, answer>>
  BY DEF Kept, inBatch
<1>2. /\ ask[r] \in Asks \cup {NoAsk} /\ i \in DOMAIN ask[r].calls
      /\ outcome[r] \in [Calls -> Outcomes] /\ results[r] \in [Calls -> 0..MaxCalls]
      /\ reports[r] \in Nat
  BY <1>1 DEF LocalAt, Local, LocalTyped, calls
<1>3. i \in Calls
  BY <1>2, CallsOf
<1>4. results[r][i] \in 0..MaxCalls /\ outcome[r][i] \in Outcomes /\ i \in 0..MaxCalls
  BY <1>2, <1>3, BoundAssumption DEF Calls
<1>5. OutcomeAt(i, task[r][i], outcome[r][i], results[r][i])
      /\ DecidedAt(ask[r], i, task[r][i], outcome[r][i])
  BY <1>1, <1>2, <1>3 DEF LocalAt, Local, Outcome, Decided
<1>6. Changed(outcome, outcome', r, [outcome[r] EXCEPT ![i] = outcome[r][i]])
  BY <1>1, <1>2, SameThere DEF Kept
<1>7. CASE store(r, i)
  <2>1. /\ task[r][i] = "store" /\ task' = [task EXCEPT ![r][i] = "report"]
        /\ results' = [results EXCEPT ![r][i] = i] /\ reports' = reports
    BY <1>7 DEF store, taskGoes
  <2>2. /\ OutcomeAt(i, "report", outcome[r][i], i)
        /\ DecidedAt(ask[r], i, "report", outcome[r][i])
    BY <1>5, <2>1 DEF OutcomeAt, DecidedAt
  <2>3. /\ "report" \in TaskPlaces /\ task[r][i] # "done"
        /\ reports[r] = reports[r] + IF "report" = "done" THEN 1 ELSE 0
    BY <1>2, <2>1 DEF TaskPlaces
  <2>4. /\ Changed(results, results', r, [results[r] EXCEPT ![i] = i])
        /\ Changed(reports, reports', r, reports[r])
    BY <2>1, Changes DEF Kept
  <2> QED BY <1>1, <1>4, <1>6, <2>1, <2>2, <2>3, <2>4, CallGoesOn
<1>8. CASE report(r, i)
  <2> DEFINE n == reports[r] + 1
  <2>1. /\ task[r][i] = "report" /\ task' = [task EXCEPT ![r][i] = "done"]
        /\ reports' = [reports EXCEPT ![r] = n] /\ results' = results
    BY <1>8 DEF report, taskGoes
  <2>2. /\ OutcomeAt(i, "done", outcome[r][i], results[r][i])
        /\ DecidedAt(ask[r], i, "done", outcome[r][i])
    BY <1>5, <2>1 DEF OutcomeAt, DecidedAt
  <2>3. /\ "done" \in TaskPlaces /\ task[r][i] # "done"
        /\ n = reports[r] + IF "done" = "done" THEN 1 ELSE 0
    BY <1>2, <2>1 DEF TaskPlaces
  <2> HIDE DEF n
  <2>4. Changed(reports, reports', r, n)
    BY <2>1, Changes DEF Kept
  <2>5. Changed(results, results', r, [results[r] EXCEPT ![i] = results[r][i]])
    BY <1>2, <2>1, SameThere DEF Kept
  <2> QED BY <1>1, <1>4, <1>6, <2>1, <2>2, <2>3, <2>4, <2>5, CallGoesOn
<1> QED BY <1>7, <1>8 DEF inBatch

-----------------------------------------------------------------------------
(* The answer to a batch                                                   *)

\* When as many reports have been received as there are calls, every call has
\* been reported, and none is left in the channel.
LEMMA AllReported ==
    ASSUME NEW a \in Asks \cup {NoAsk}, NEW t, NEW n \in Nat,
           n + Len(a.calls) = Cardinality(Reported(a, t))
    PROVE  \A i \in DOMAIN a.calls : t[i] = "done"
<1>1. /\ IsFiniteSet(DOMAIN a.calls) /\ Cardinality(DOMAIN a.calls) = Len(a.calls)
      /\ Len(a.calls) \in Nat
  BY CallsOf
<1>2. Reported(a, t) \in SUBSET DOMAIN a.calls
  BY DEF Reported
<1>3. /\ Cardinality(Reported(a, t)) \in Nat
      /\ Cardinality(Reported(a, t)) <= Cardinality(DOMAIN a.calls)
      /\ Cardinality(DOMAIN a.calls) = Cardinality(Reported(a, t)) =>
             Reported(a, t) = DOMAIN a.calls
  BY <1>1, <1>2, FS_Subset, FS_CardinalityType
<1>4. Cardinality(DOMAIN a.calls) = Cardinality(Reported(a, t))
  BY <1>1, <1>3
<1> QED BY <1>3, <1>4 DEF Reported

\* What the slots encode to then.
LEMMA ShownAnswer ==
    ASSUME NEW r \in Requests, LocalAt(r),
           \A i \in calls(r) : task[r][i] = "done"
    PROVE  encoded(r, {results[r][i] : i \in calls(r)} \ {0}) = Shown(ask[r], outcome[r])
<1> DEFINE S == {results[r][i] : i \in calls(r)} \ {0}
<1>1. /\ calls(r) = DOMAIN ask[r].calls /\ calls(r) \subseteq Calls
      /\ 0 \notin Calls
  BY CallsOf, BoundAssumption DEF LocalAt, Local, LocalTyped, calls, Calls
<1>2. \A i \in calls(r) : \/ outcome[r][i] \in Refusals /\ results[r][i] = 0
                          \/ outcome[r][i] \in Successes /\ results[r][i] = i
  BY <1>1 DEF LocalAt, Local, Outcome, OutcomeAt
<1>3. S = {i \in calls(r) : outcome[r][i] \in Successes}
  <2>1. ASSUME NEW i \in S PROVE i \in calls(r) /\ outcome[r][i] \in Successes
    BY <1>2
  <2>2. ASSUME NEW i \in calls(r), outcome[r][i] \in Successes PROVE i \in S
    <3>1. results[r][i] = i /\ i # 0
      BY <1>1, <1>2, <2>2 DEF Refusals, Successes
    <3> QED BY <3>1
  <2> QED BY <2>1, <2>2
<1> HIDE DEF S
<1>4. CASE \E i \in calls(r) : outcome[r][i] = "infinite"
  <2>1. \E i \in S : outcome[r][i] = "infinite"
    BY <1>3, <1>4 DEF Successes
  <2>2. encoded(r, S) = Sent("nothing", {})
    BY <2>1 DEF encoded
  <2>3. Shown(ask[r], outcome[r]) = Sent("nothing", {})
    BY <1>1, <1>4 DEF Shown
  <2> QED BY <2>2, <2>3 DEF S
<1>5. CASE ~\E i \in calls(r) : outcome[r][i] = "infinite"
  <2>1. ~\E i \in S : outcome[r][i] = "infinite"
    BY <1>3, <1>5
  <2>2. encoded(r, S) = Sent("results", {<<i, results[r][i]>> : i \in calls(r)})
    BY <2>1 DEF encoded
  <2>3. Shown(ask[r], outcome[r]) =
          Sent("results", {<<i, IF outcome[r][i] = "result" THEN i ELSE 0>> : i \in calls(r)})
    BY <1>1, <1>5 DEF Shown
  <2>4. \A i \in calls(r) : results[r][i] = IF outcome[r][i] = "result" THEN i ELSE 0
    BY <1>2, <1>5 DEF Refusals, Successes
  <2>5. {<<i, results[r][i]>> : i \in calls(r)} =
        {<<i, IF outcome[r][i] = "result" THEN i ELSE 0>> : i \in calls(r)}
    BY <2>4
  <2> QED BY <2>2, <2>3, <2>5 DEF S
<1> QED BY <1>4, <1>5

LEMMA KeptCollect ==
    ASSUME Kept, NEW r \in Requests, collect(r)
    PROVE  Kept'
<1>1. /\ LocalAt(r) /\ place[r] = "collect" /\ ask[r].op = "batch"
      /\ UNCHANGED <<ask, task, outcome, results>>
  BY DEF Kept, collect
<1>2. /\ ask[r] \in Asks \cup {NoAsk} /\ reports[r] \in Nat /\ received[r] \in Nat
      /\ reports[r] + received[r] = Cardinality(Reported(ask[r], task[r]))
  BY <1>1 DEF LocalAt, Local, LocalTyped, Answer
<1>3. CASE receive(r)
  <2> DEFINE n == reports[r] - 1
             m == received[r] + 1
  <2>1. /\ reports' = [reports EXCEPT ![r] = n] /\ received' = [received EXCEPT ![r] = m]
        /\ UNCHANGED <<place, answer>>
    BY <1>3 DEF receive
  <2>2. n \in Nat /\ m \in Nat /\ n + m = reports[r] + received[r]
    BY <1>2, <1>3 DEF receive
  <2> HIDE DEF n, m
  <2>3. Answer(place[r], ask[r], task[r], outcome[r], n, m, answer[r])
    BY <1>1, <1>2, <2>2 DEF Answer
  <2>4. Local(place[r], ask[r], task[r], outcome[r], results[r], n, m, answer[r])
    BY <1>1, <2>2, <2>3 DEF LocalAt, Local, LocalTyped, Served
  <2>5. /\ Changed(reports, reports', r, n) /\ Changed(received, received', r, m)
        /\ Changed(place, place', r, place[r]) /\ Changed(ask, ask', r, ask[r])
        /\ Changed(task, task', r, task[r]) /\ Changed(outcome, outcome', r, outcome[r])
        /\ Changed(results, results', r, results[r])
        /\ Changed(answer, answer', r, answer[r])
    BY <1>1, <2>1, Changes DEF Kept
  <2> QED BY <2>4, <2>5, Replace
<1>4. CASE answerBatch(r)
  <2> DEFINE w == encoded(r, {results[r][i] : i \in calls(r)} \ {0})
  <2>1. /\ place' = [place EXCEPT ![r] = "answered"]
        /\ answer' = [answer EXCEPT ![r] = w]
        /\ UNCHANGED <<reports, received>> /\ received[r] = Len(ask[r].calls)
    BY <1>4 DEF answerBatch, respond, atHandler, expected
  <2>2. \A i \in DOMAIN ask[r].calls : task[r][i] = "done"
    BY <1>2, <2>1, AllReported
  <2>3. w = Shown(ask[r], outcome[r])
    BY <1>1, <2>2, ShownAnswer DEF calls
  <2> HIDE DEF w
  <2>4. /\ Served("answered", ask[r], task[r], reports[r], received[r])
        /\ Answer("answered", ask[r], task[r], outcome[r], reports[r], received[r], w)
        /\ "answered" \in Places
    BY <1>1, <1>2, <2>2, <2>3 DEF Served, Answer, Places
  <2> QED BY <1>1, <2>1, <2>4, Moves
<1> QED BY <1>3, <1>4 DEF collect

-----------------------------------------------------------------------------
(* Every step                                                              *)

Inv == Waited /\ Registered /\ NobodyYet /\ Kept

LEMMA InvMain ==
    ASSUME Inv, mainStep \/ listen \/ interrupt \/ serverError, ~exited,
           UNCHANGED handlers
    PROVE  Inv'
<1>1. Waited' /\ Registered'
  BY WaitedMain, RegisteredMain DEF Inv
<1>2. Kept'
  BY DEF Inv, handlers, Kept, LocalAt, Fun
<1>3. NobodyYet'
  <2>1. main' \in {"connect db", "connect redis", "register"} =>
            main \in {"connect db", "connect redis", "register"}
    BY DEF mainStep, connectDB, connectRedis, connect, registerAll, start, notify,
           shutdown, closeRedis, closeDB, closeStore, mainGoes, listen, interrupt,
           serverError
  <2> QED BY <2>1 DEF Inv, NobodyYet, handlers
<1> QED BY <1>1, <1>2, <1>3 DEF Inv

LEMMA ToolsStay ==
    ASSUME NEW r \in Requests,
           badRequest(r) \/ (\E a \in Asks : accept(r, a)) \/ serve(r)
    PROVE  UNCHANGED tools
<1>1. CASE serve(r)
  BY <1>1 DEF serve, listTools, pingDB, pingRedis, ping, ready, execute, lookUp, get,
              run, inBatch, answerOne, collect, registry, Registry!RLock, Registry!RUnlock
<1> QED BY <1>1 DEF badRequest, accept, registry

LEMMA InvRequest ==
    ASSUME Inv, ~exited, NEW r \in Requests,
           badRequest(r) \/ (\E a \in Asks : accept(r, a)) \/ serve(r), UNCHANGED process
    PROVE  Inv'
<1>1. Waited'
  BY WaitedRequest DEF Inv
<1>2. tools' = tools /\ main' = main
  BY ToolsStay DEF process
<1>3. Registered'
  BY <1>2 DEF Inv, Registered
<1>4. Kept'
  <2>1. CASE badRequest(r) \/ \E a \in Asks : accept(r, a)
    BY <2>1, KeptComing DEF Inv
  <2>2. CASE listTools(r) \/ pingDB(r) \/ pingRedis(r) \/ ready(r) \/ answerOne(r)
    BY <2>2, KeptSimple DEF Inv
  <2>3. CASE \E i \in calls(r) : execute(r, i) \/ inBatch(r, i)
    BY <2>3, KeptExecute, KeptInBatch DEF Inv
  <2>4. CASE collect(r)
    BY <2>4, KeptCollect DEF Inv
  <2> QED BY <2>1, <2>2, <2>3, <2>4 DEF serve
<1>5. NobodyYet'
  <2> SUFFICES ASSUME main \in {"connect db", "connect redis", "register"}
               PROVE  FALSE
    BY <1>2 DEF NobodyYet
  <2>1. server # "listening" /\ \A q \in Requests : place[q] = "idle"
    BY DEF Inv, Waited, Serving, NobodyYet
  <2>2. ~badRequest(r) /\ ~\E a \in Asks : accept(r, a)
    BY <2>1 DEF badRequest, accept
  <2>3. calls(r) = {}
    BY <2>1, CallsOf DEF Inv, Kept, LocalAt, Local, LocalTyped, Served, calls
  <2>4. ~serve(r)
    BY <2>1, <2>3 DEF serve, listTools, pingDB, pingRedis, ping, ready, answerOne,
                      collect, respond, atHandler, Kept, LocalAt
  <2> QED BY <2>2, <2>4
<1> QED BY <1>1, <1>3, <1>4, <1>5 DEF Inv

LEMMA InvStep == Inv /\ [Next]_vars => Inv'
<1> SUFFICES ASSUME Inv, [Next]_vars PROVE Inv'
  OBVIOUS
<1>1. CASE UNCHANGED vars
  <2>1. UNCHANGED <<registry, process, handlers>>
    BY <1>1 DEF vars
  <2>2. Waited'
    BY WaitedStep DEF Inv
  <2> QED BY <2>1, <2>2 DEF Inv, Registered, NobodyYet, Kept, LocalAt, Fun, registry,
                           process, handlers
<1>2. CASE Next
  <2>1. ~exited
    BY <1>2 DEF Next
  <2>2. CASE (mainStep \/ listen \/ interrupt \/ serverError) /\ UNCHANGED handlers
    BY <2>1, <2>2, InvMain
  <2>3. CASE \E r \in Requests :
               /\ badRequest(r) \/ (\E a \in Asks : accept(r, a)) \/ serve(r)
               /\ UNCHANGED process
    BY <2>1, <2>3, InvRequest
  <2> QED BY <1>2, <2>2, <2>3 DEF Next, goroutines
<1> QED BY <1>1, <1>2

\* A batch is answered when every goroutine of it has reported, however they
\* interleave, with each call's own result in its slot.
THEOREM BatchesAreFinal == Spec => []BatchIsFinal
<1>1. Inv => BatchIsFinal
  <2> SUFFICES ASSUME Inv, NEW r \in Requests, place[r] = "answered", ask[r].op = "batch"
               PROVE  /\ \A i \in calls(r) :
                            /\ task[r][i] = "done"
                            /\ results[r][i] =
                                  IF outcome[r][i] \in Successes THEN i ELSE 0
                      /\ answer[r].kind = "results" =>
                            answer[r].of = {<<i, results[r][i]>> : i \in calls(r)}
    BY DEF BatchIsFinal, Successes
  <2>1. /\ LocalAt(r) /\ calls(r) = DOMAIN ask[r].calls /\ calls(r) \subseteq Calls
        /\ \A i \in calls(r) : task[r][i] = "done"
        /\ answer[r] = Shown(ask[r], outcome[r])
    BY CallsOf DEF Inv, Kept, LocalAt, Local, LocalTyped, Answer, calls
  <2>2. \A i \in calls(r) : results[r][i] = IF outcome[r][i] \in Successes THEN i ELSE 0
    BY <2>1 DEF LocalAt, Local, Outcome, OutcomeAt, Refusals, Successes
  <2>3. ASSUME answer[r].kind = "results"
        PROVE  answer[r].of = {<<i, results[r][i]>> : i \in calls(r)}
    <3>1. \A i \in calls(r) : outcome[r][i] # "infinite"
      BY <2>1, <2>3 DEF Shown, Sent
    <3>2. \A i \in calls(r) : results[r][i] = IF outcome[r][i] = "result" THEN i ELSE 0
      BY <2>2, <3>1 DEF Successes
    <3>3. answer[r].of =
            {<<i, IF outcome[r][i] = "result" THEN i ELSE 0>> : i \in calls(r)}
      BY <2>1, <3>1 DEF Shown, Sent
    <3> QED BY <3>2, <3>3
  <2> QED BY <2>1, <2>2, <2>3
<1>2. Init => Inv
  BY WaitedInit, KeptInit DEF Inv
<1> QED BY <1>1, <1>2, InvStep, PTL DEF Spec

\* What a token is shown it can execute, and nothing else runs for it: all tools
\* are registered before the first request, and both ask one permission.
THEOREM ListsAreUsable == Spec => []ListedIsUsable
<1>1. Inv => ListedIsUsable
  <2> SUFFICES ASSUME Inv, NEW q \in Requests, NEW r \in Requests,
                      place[q] = "answered", ask[q].op = "list",
                      ask[q].allowed = ask[r].allowed, NEW i \in calls(r)
               PROVE  IF ask[r].calls[i] \in answer[q].of
                      THEN outcome[r][i] \notin {"denied", "not found"}
                      ELSE outcome[r][i] \in {"none", "denied", "not found"}
    BY DEF ListedIsUsable
  <2>1. answer[q].of = Listed(ask[r].allowed)
    BY DEF Inv, Kept, LocalAt, Local, Answer
  <2>2. /\ Decided(ask[r], task[r], outcome[r]) /\ outcome[r] \in [Calls -> Outcomes]
        /\ ask[r] \in Asks \cup {NoAsk}
    BY DEF Inv, Kept, LocalAt, Local, LocalTyped
  <2>3. i \in DOMAIN ask[r].calls /\ outcome[r][i] \in Outcomes
    BY <2>2, CallsOf DEF calls
  <2>4. ask[r].calls[i] \in Listed(ask[r].allowed) <=>
            CanUseTool(ask[r].allowed, ask[r].calls[i]) /\ ask[r].calls[i] \in AllTools
    BY DEF Listed, CanUseTool
  <2> QED BY <2>1, <2>2, <2>3, <2>4 DEF Decided, DecidedAt, Outcomes, Refusals, Successes
<1>2. Init => Inv
  BY WaitedInit, KeptInit DEF Inv
<1> QED BY <1>1, <1>2, InvStep, PTL DEF Spec

-----------------------------------------------------------------------------
(* Who holds the read lock, and the types                                  *)

\* How often the goroutine i of a request holds the read lock: once while it gets
\* a tool; once while it lists, and a second time for "*".
Holds(p, a, t, i, n) ==
    IF p = "list" /\ i = 0 THEN n \in 0..1 \/ (n = 2 /\ "*" \in a.allowed)
    ELSE n = IF \/ a.op = "batch" /\ i > 0 /\ t[i] = "get"
                \/ a.op = "execute" /\ i = 0 /\ t[1] = "get"
             THEN 1 ELSE 0

HoldsAt(r, i) == Holds(place[r], ask[r], task[r], i, readers[<<r, i>>])

Held ==
    /\ readers \in [Goroutines -> 0..2]
    /\ \A r \in Requests, i \in 0..MaxCalls : HoldsAt(r, i)

\* Only a batch has reports.
Counted == \A r \in Requests : ask[r].op # "batch" => reports[r] = 0 /\ received[r] = 0

ProcessTyped ==
    /\ tools \subseteq Names /\ writer \in Goroutines \cup {None}
    /\ server \in {"none", "starting", "listening", "stopped"}
    /\ stores \subseteq Stores /\ timedOut \in BOOLEAN

Typed == Held /\ Counted /\ ProcessTyped

LEMMA TypedInit == Init => Typed
<1> SUFFICES ASSUME Init PROVE Typed
  OBVIOUS
<1>1. /\ readers = [g \in Goroutines |-> 0] /\ tools = {} /\ writer = None
      /\ server = "none" /\ stores = {} /\ timedOut = FALSE
      /\ place = [r \in Requests |-> "idle"] /\ ask = [r \in Requests |-> NoAsk]
      /\ reports = [r \in Requests |-> 0] /\ received = [r \in Requests |-> 0]
  BY DEF Init, Registry!RegistryInit
<1>2. Held
  <2>1. \A r \in Requests, i \in 0..MaxCalls : readers[<<r, i>>] = 0
    BY <1>1 DEF Goroutines
  <2>2. readers \in [Goroutines -> 0..2]
    BY <1>1
  <2>3. NoAsk.op = "none"
    BY DEF NoAsk
  <2> QED BY <1>1, <2>1, <2>2, <2>3 DEF Held, HoldsAt, Holds
<1>3. Counted /\ ProcessTyped
  BY <1>1 DEF Counted, ProcessTyped
<1> QED BY <1>2, <1>3 DEF Typed

\* The other requests, as far as the lock goes.
Alone(r) == \A q \in Requests \ {r} :
                place'[q] = place[q] /\ ask'[q] = ask[q] /\ task'[q] = task[q]

HoldsThen(r, i, n) == Holds(place'[r], ask'[r], task'[r], i, n)

\* A request that goes on with the lock as it is.
LEMMA HeldSame ==
    ASSUME Held, NEW r \in Requests, Alone(r), readers' = readers,
           \A i \in 0..MaxCalls : HoldsAt(r, i) => HoldsThen(r, i, readers[<<r, i>>])
    PROVE  Held'
<1>1. ASSUME NEW q \in Requests, NEW i \in 0..MaxCalls
      PROVE  Holds(place'[q], ask'[q], task'[q], i, readers[<<q, i>>])
  <2>1. HoldsAt(q, i)
    BY DEF Held
  <2>2. CASE q = r
    BY <2>1, <2>2 DEF HoldsThen
  <2>3. CASE q # r
    BY <2>1, <2>3 DEF Alone, HoldsAt
  <2> QED BY <2>2, <2>3
<1> QED BY <1>1 DEF Held, HoldsAt

\* A request whose goroutine i takes or gives back the lock.
LEMMA HeldChanged ==
    ASSUME Held, NEW r \in Requests, Alone(r), NEW i \in 0..MaxCalls, NEW n \in 0..2,
           readers' = [readers EXCEPT ![<<r, i>>] = n], HoldsThen(r, i, n),
           \A j \in 0..MaxCalls : j # i /\ HoldsAt(r, j) => HoldsThen(r, j, readers[<<r, j>>])
    PROVE  Held'
<1>1. \A q \in Requests, j \in 0..MaxCalls : <<q, j>> \in Goroutines
  BY DEF Goroutines
<1>2. /\ readers' \in [Goroutines -> 0..2] /\ readers'[<<r, i>>] = n
      /\ \A g \in Goroutines : g # <<r, i>> => readers'[g] = readers[g]
  BY <1>1 DEF Held
<1>3. ASSUME NEW q \in Requests, NEW j \in 0..MaxCalls
      PROVE  Holds(place'[q], ask'[q], task'[q], j, readers'[<<q, j>>])
  <2>1. HoldsAt(q, j) /\ <<q, j>> \in Goroutines
    BY <1>1 DEF Held
  <2>2. CASE q = r /\ j = i
    BY <1>2, <2>2 DEF HoldsThen
  <2>3. CASE q = r /\ j # i
    <3>1. readers'[<<q, j>>] = readers[<<q, j>>]
      BY <1>2, <2>1, <2>3
    <3> QED BY <2>1, <2>3, <3>1 DEF HoldsThen
  <2>4. CASE q # r
    <3>1. readers'[<<q, j>>] = readers[<<q, j>>]
      BY <1>2, <2>1, <2>4
    <3> QED BY <2>1, <2>4, <3>1 DEF Alone, HoldsAt
  <2> QED BY <2>2, <2>3, <2>4
<1> QED BY <1>2, <1>3 DEF Held, HoldsAt

LEMMA ChangedAt ==
    ASSUME NEW f, NEW g, NEW r \in Requests, NEW v, Changed(f, g, r, v)
    PROVE  g[r] = v /\ \A q \in Requests \ {r} : g[q] = f[q]
BY DEF Changed

\* What of a request's handler the lock depends on goes on.
LEMMA HandlerMoves ==
    ASSUME Kept, NEW r \in Requests, NEW from, NEW to, atHandler(r, from, to),
           UNCHANGED <<ask, task>>
    PROVE  /\ place[r] = from /\ place'[r] = to /\ ask'[r] = ask[r] /\ task'[r] = task[r]
           /\ Alone(r)
<1>1. place[r] = from /\ Changed(place, place', r, to)
  BY Changes DEF atHandler, Kept
<1> QED BY <1>1, ChangedAt DEF Alone

LEMMA TaskMoves ==
    ASSUME Kept, NEW r \in Requests, NEW i \in calls(r), NEW from, NEW to,
           taskGoes(r, i, from, to), UNCHANGED <<place, ask>>
    PROVE  /\ task[r][i] = from /\ task'[r][i] = to
           /\ \A j \in Calls : j # i => task'[r][j] = task[r][j]
           /\ place'[r] = place[r] /\ ask'[r] = ask[r] /\ Alone(r)
           /\ i \in Calls /\ place[r] # "list" /\ ask[r].op \in {"batch", "execute"}
           /\ ask[r].op = "execute" => i = 1
<1>1. task[r][i] = from /\ Changed(task, task', r, [task[r] EXCEPT ![i] = to])
  BY Changes DEF taskGoes, Kept
<1>2. /\ ask[r] \in Asks \cup {NoAsk} /\ task[r] \in [Calls -> TaskPlaces]
      /\ Served(place[r], ask[r], task[r], reports[r], received[r])
  BY DEF Kept, LocalAt, Local, LocalTyped
<1>3. i \in 1..Len(ask[r].calls) /\ i \in Calls /\ ask[r] \in Asks
  BY <1>2, CallsOf DEF calls
<1>4. ask[r].op \in {"batch", "execute"} /\ (ask[r].op = "execute" => i = 1)
  <2>1. /\ ask[r].op \in {"list", "execute", "batch", "ready"}
        /\ ask[r].op = "execute" => Len(ask[r].calls) = 1
        /\ ask[r].op \in {"list", "ready"} => ask[r].calls = <<>>
    BY <1>3, AskAssumption DEF Ask
  <2>2. ask[r].calls # <<>>
    BY <1>3
  <2>3. ask[r].op \in {"batch", "execute"}
    BY <2>1, <2>2
  <2>4. ASSUME Len(ask[r].calls) = 1 PROVE i = 1
    BY <1>3, <2>4
  <2> QED BY <2>1, <2>3, <2>4
<1>5. place[r] # "list"
  BY <1>2, <1>4 DEF Served
<1>6. task'[r] = [task[r] EXCEPT ![i] = to] /\ \A q \in Requests \ {r} : task'[q] = task[q]
  <2> DEFINE v == [task[r] EXCEPT ![i] = to]
  <2>1. Changed(task, task', r, v)
    BY <1>1
  <2> HIDE DEF v
  <2>2. task'[r] = v /\ \A q \in Requests \ {r} : task'[q] = task[q]
    BY <2>1 DEF Changed
  <2> QED BY <2>2 DEF v
<1> QED BY <1>1, <1>2, <1>3, <1>4, <1>5, <1>6 DEF Alone

\* A call goes on without the lock.
LEMMA HeldCall ==
    ASSUME Kept, Held, NEW r \in Requests, NEW i \in calls(r), NEW from, NEW to,
           taskGoes(r, i, from, to), UNCHANGED <<place, ask>>, readers' = readers,
           from # "get", to # "get"
    PROVE  Held'
<1>1. /\ task[r][i] = from /\ task'[r][i] = to
      /\ \A j \in Calls : j # i => task'[r][j] = task[r][j]
      /\ place'[r] = place[r] /\ ask'[r] = ask[r] /\ Alone(r)
  BY TaskMoves
<1>2. \A j \in Calls : task'[r][j] = "get" <=> task[r][j] = "get"
  BY <1>1
<1>3. ASSUME NEW j \in 0..MaxCalls, HoldsAt(r, j) PROVE HoldsThen(r, j, readers[<<r, j>>])
  <2>1. 1 \in Calls /\ (j > 0 => j \in Calls)
    BY BoundAssumption DEF Calls
  <2> QED BY <1>1, <1>2, <1>3, <2>1 DEF HoldsAt, HoldsThen, Holds
<1> QED BY <1>1, <1>3, HeldSame

\* A call takes the lock to get its tool, and gives it back.
LEMMA HeldGet ==
    ASSUME Kept, Held, NEW r \in Requests, NEW i \in calls(r), NEW from, NEW to,
           taskGoes(r, i, from, to), UNCHANGED <<place, ask>>,
           \/ from # "get" /\ to = "get" /\ Registry!RLock(Executor(r, i))
           \/ from = "get" /\ to # "get" /\ Registry!RUnlock(Executor(r, i))
    PROVE  Held'
<1>1. /\ task[r][i] = from /\ task'[r][i] = to
      /\ \A j \in Calls : j # i => task'[r][j] = task[r][j]
      /\ place'[r] = place[r] /\ ask'[r] = ask[r] /\ Alone(r)
      /\ i \in Calls /\ place[r] # "list" /\ ask[r].op \in {"batch", "execute"}
      /\ ask[r].op = "execute" => i = 1
  BY TaskMoves
<1> DEFINE k == IF ask[r].op = "batch" THEN i ELSE 0
           n == IF to = "get" THEN 1 ELSE 0
<1>2. k \in 0..MaxCalls /\ n \in 0..2 /\ Executor(r, i) = <<r, k>>
  <2>1. i \in 0..MaxCalls /\ 0 \in 0..MaxCalls
    BY <1>1, BoundAssumption DEF Calls
  <2> QED BY <2>1 DEF Executor, Handler
<1>3. Calls = 1..MaxCalls /\ MaxCalls \in Nat \ {0}
  BY BoundAssumption DEF Calls
<1>4. readers[<<r, k>>] = IF from = "get" THEN 1 ELSE 0
  <2>1. HoldsAt(r, k)
    BY <1>2 DEF Held
  <2> QED BY <1>1, <1>3, <2>1 DEF HoldsAt, Holds
<1>5. readers' = [readers EXCEPT ![<<r, k>>] = n]
  <2>1. CASE from # "get" /\ to = "get" /\ Registry!RLock(Executor(r, i))
    <3>1. readers' = [readers EXCEPT ![<<r, k>>] = readers[<<r, k>>] + 1]
      BY <1>2, <2>1 DEF Registry!RLock
    <3> QED BY <1>4, <2>1, <3>1
  <2>2. CASE from = "get" /\ to # "get" /\ Registry!RUnlock(Executor(r, i))
    BY <1>2, <2>2 DEF Registry!RUnlock
  <2> QED BY <2>1, <2>2
<1>6. HoldsThen(r, k, n)
  BY <1>1, <1>3 DEF HoldsThen, Holds
<1>7. ASSUME NEW j \in 0..MaxCalls, j # k, HoldsAt(r, j)
      PROVE  HoldsThen(r, j, readers[<<r, j>>])
  <2>1. CASE ask[r].op = "batch"
    <3>1. j > 0 => task'[r][j] = task[r][j]
      BY <1>1, <1>3, <1>7, <2>1
    <3> QED BY <1>1, <1>7, <2>1, <3>1 DEF HoldsAt, HoldsThen, Holds
  <2>2. CASE ask[r].op = "execute"
    BY <1>1, <1>7, <2>2 DEF HoldsAt, HoldsThen, Holds
  <2> QED BY <1>1, <2>1, <2>2
<1> HIDE DEF k, n
<1> QED BY <1>1, <1>2, <1>5, <1>6, <1>7, HeldChanged

\* A handler goes on without the lock, from and to a place where it does not list.
LEMMA HeldHandler ==
    ASSUME Kept, Held, NEW r \in Requests, NEW from, NEW to, atHandler(r, from, to),
           UNCHANGED <<ask, task>>, readers' = readers, from # "list", to # "list"
    PROVE  Held'
<1>1. /\ place[r] = from /\ place'[r] = to /\ ask'[r] = ask[r] /\ task'[r] = task[r]
      /\ Alone(r)
  BY HandlerMoves
<1>2. \A i \in 0..MaxCalls : HoldsAt(r, i) => HoldsThen(r, i, readers[<<r, i>>])
  BY <1>1 DEF HoldsAt, HoldsThen, Holds
<1> QED BY <1>1, <1>2, HeldSame

LEMMA HeldList ==
    ASSUME Kept, Held, NEW r \in Requests, listTools(r)
    PROVE  Held'
<1>1. Handler(r) = <<r, 0>> /\ 0 \in 0..MaxCalls /\ <<r, 0>> \in Goroutines
  BY BoundAssumption DEF Handler, Goroutines
<1> DEFINE held == readers[<<r, 0>>]
<1>2. HoldsAt(r, 0) /\ held \in 0..2 /\ Served(place[r], ask[r], task[r], reports[r], received[r])
  BY <1>1 DEF Held, Kept, LocalAt, Local
<1>3. \A j \in 0..MaxCalls : j # 0 /\ HoldsAt(r, j) /\ ask[r].op = "list"
          => readers[<<r, j>>] = 0
  BY DEF HoldsAt, Holds
<1>4. CASE /\ place[r] = "list" /\ Registry!RLock(Handler(r)) /\ UNCHANGED <<place, ask, task>>
           /\ held # IF "*" \in ask[r].allowed THEN 2 ELSE 1
  <2>1. readers' = [readers EXCEPT ![<<r, 0>>] = held + 1]
    BY <1>1, <1>4 DEF Registry!RLock
  <2>2. held \in 0..1 /\ (held = 1 => "*" \in ask[r].allowed)
    BY <1>2, <1>4 DEF HoldsAt, Holds
  <2>3. Alone(r) /\ held + 1 \in 0..2
    BY <1>4, <2>2 DEF Alone
  <2>4. HoldsThen(r, 0, held + 1)
    BY <1>4, <2>2 DEF HoldsThen, Holds
  <2>5. \A j \in 0..MaxCalls : j # 0 /\ HoldsAt(r, j) => HoldsThen(r, j, readers[<<r, j>>])
    BY <1>4 DEF HoldsAt, HoldsThen
  <2> HIDE DEF held
  <2> QED BY <1>1, <2>1, <2>3, <2>4, <2>5, HeldChanged
<1>5. CASE /\ atHandler(r, "list", "answered") /\ UNCHANGED <<ask, task>>
           /\ Registry!RUnlock(Handler(r))
  <2>1. /\ place[r] = "list" /\ place'[r] = "answered" /\ ask'[r] = ask[r]
        /\ task'[r] = task[r] /\ Alone(r)
    BY <1>5, HandlerMoves
  <2>2. readers' = [readers EXCEPT ![<<r, 0>>] = 0]
    BY <1>1, <1>5 DEF Registry!RUnlock
  <2>3. ask[r].op = "list"
    BY <1>2, <2>1 DEF Served
  <2>4. HoldsThen(r, 0, 0)
    BY <2>1, <2>3 DEF HoldsThen, Holds
  <2>5. \A j \in 0..MaxCalls : j # 0 /\ HoldsAt(r, j) => HoldsThen(r, j, readers[<<r, j>>])
    BY <1>3, <2>1, <2>3 DEF HoldsThen, Holds
  <2>6. 0 \in 0..2
    OBVIOUS
  <2> QED BY <1>1, <2>1, <2>2, <2>4, <2>5, <2>6, HeldChanged
<1>6. UNCHANGED <<ask, task>>
  BY DEF listTools
<1>7. (readers[Handler(r)] = IF Registry!listsAgain(ask[r].allowed) THEN 2 ELSE 1) <=>
          held = IF "*" \in ask[r].allowed THEN 2 ELSE 1
  BY <1>1 DEF Registry!listsAgain
<1> HIDE DEF held
<1> QED BY <1>4, <1>5, <1>6, <1>7 DEF listTools, respond

LEMMA HeldServe ==
    ASSUME Kept, Held, NEW r \in Requests, serve(r)
    PROVE  Held'
<1>1. CASE listTools(r)
  BY <1>1, HeldList
<1>2. CASE pingDB(r) \/ pingRedis(r)
  <2>1. PICK from \in {"ping db", "ping redis"}, to \in {"ping redis", "ready", "answered"} :
            atHandler(r, from, to)
    BY <1>2 DEF pingDB, pingRedis, ping, respond
  <2>2. UNCHANGED <<ask, task>> /\ readers' = readers
    BY <1>2 DEF pingDB, pingRedis, ping, registry
  <2> QED BY <2>1, <2>2, HeldHandler
<1>3. CASE ready(r) \/ answerOne(r)
  <2>1. PICK from \in {"ready", "collect"} : atHandler(r, from, "answered")
    BY <1>3 DEF ready, answerOne, respond
  <2>2. UNCHANGED <<ask, task>> /\ readers' = readers
    BY <1>3 DEF ready, answerOne, registry
  <2> QED BY <2>1, <2>2, HeldHandler
<1>4. CASE collect(r)
  <2>1. UNCHANGED <<ask, task>> /\ readers' = readers
    BY <1>4 DEF collect, registry
  <2>2. CASE answerBatch(r)
    BY <2>1, <2>2, HeldHandler DEF answerBatch, respond
  <2>3. CASE receive(r)
    BY <2>1, <2>3 DEF receive, Held, HoldsAt
  <2> QED BY <1>4, <2>2, <2>3 DEF collect
<1>5. ASSUME NEW i \in calls(r), execute(r, i) PROVE Held'
  <2>1. UNCHANGED <<place, ask>>
    BY <1>5 DEF execute
  <2>2. CASE lookUp(r, i)
    <3>1. \/ taskGoes(r, i, "look up", "get") /\ Registry!RLock(Executor(r, i))
          \/ taskGoes(r, i, "look up", "report") /\ readers' = readers
      BY <2>2 DEF lookUp, returns, registry
    <3> QED BY <2>1, <3>1, HeldGet, HeldCall
  <2>3. CASE get(r, i)
    <3>1. PICK to \in {"run", "report"} : taskGoes(r, i, "get", to)
      BY <2>3 DEF get, returns
    <3>2. Registry!RUnlock(Executor(r, i))
      BY <2>3 DEF get
    <3> QED BY <2>1, <3>1, <3>2, HeldGet
  <2>4. CASE run(r, i)
    <3>1. PICK to \in {"store", "report"} : taskGoes(r, i, "run", to)
      BY <2>4 DEF run, returns
    <3>2. readers' = readers
      BY <2>4 DEF run, registry
    <3> QED BY <2>1, <3>1, <3>2, HeldCall
  <2> QED BY <1>5, <2>2, <2>3, <2>4 DEF execute
<1>6. ASSUME NEW i \in calls(r), inBatch(r, i) PROVE Held'
  <2>1. PICK from \in {"store", "report"}, to \in {"report", "done"} : taskGoes(r, i, from, to)
    BY <1>6 DEF inBatch, store, report
  <2>2. UNCHANGED <<place, ask>> /\ readers' = readers
    BY <1>6 DEF inBatch, registry
  <2> QED BY <2>1, <2>2, HeldCall
<1> QED BY <1>1, <1>2, <1>3, <1>4, <1>5, <1>6 DEF serve

LEMMA HeldComing ==
    ASSUME Kept, Held, NEW r \in Requests, badRequest(r) \/ \E a \in Asks : accept(r, a)
    PROVE  Held'
<1>1. CASE badRequest(r)
  BY <1>1, HeldHandler DEF badRequest, respond, registry
<1>2. ASSUME NEW a \in Asks, accept(r, a) PROVE Held'
  <2> DEFINE t == [i \in Calls |-> IF i \in DOMAIN a.calls THEN "look up" ELSE "none"]
  <2>1. /\ place[r] = "idle" /\ Changed(place, place', r, entrance(a))
        /\ Changed(ask, ask', r, a) /\ Changed(task, task', r, t) /\ readers' = readers
    BY <1>2, Changes DEF accept, atHandler, Kept, registry
  <2>2. \A i \in Calls : t[i] # "get"
    OBVIOUS
  <2> HIDE DEF t
  <2>3. place'[r] = entrance(a) /\ ask'[r] = a /\ task'[r] = t /\ Alone(r)
    BY <2>1 DEF Alone, Changed
  <2>4. ask[r].op = "none"
    <3>1. Served(place[r], ask[r], task[r], reports[r], received[r])
      BY DEF Kept, LocalAt, Local
    <3>2. ask[r] = NoAsk
      BY <2>1, <3>1 DEF Served
    <3> QED BY <3>2 DEF NoAsk
  <2>5. ASSUME NEW i \in 0..MaxCalls, HoldsAt(r, i) PROVE HoldsThen(r, i, readers[<<r, i>>])
    <3>1. readers[<<r, i>>] = 0
      BY <2>1, <2>4, <2>5 DEF HoldsAt, Holds
    <3>2. 1 \in Calls /\ (i > 0 => i \in Calls)
      BY BoundAssumption DEF Calls
    <3> QED BY <2>2, <2>3, <3>1, <3>2 DEF HoldsThen, Holds
  <2> QED BY <2>1, <2>3, <2>5, HeldSame
<1> QED BY <1>1, <1>2

LEMMA CountedRequest ==
    ASSUME Kept, Counted, NEW r \in Requests,
           badRequest(r) \/ (\E a \in Asks : accept(r, a)) \/ serve(r)
    PROVE  Counted'
<1>1. CASE UNCHANGED <<ask, reports, received>>
  BY <1>1 DEF Counted
<1>2. ASSUME NEW a \in Asks, accept(r, a) PROVE Counted'
  <2>1. place[r] = "idle" /\ Changed(ask, ask', r, a) /\ UNCHANGED <<reports, received>>
    BY <1>2, Changes DEF accept, atHandler, Kept
  <2>2. reports[r] = 0 /\ received[r] = 0
    BY <2>1 DEF Kept, LocalAt, Local, Served
  <2>3. \A q \in Requests \ {r} : ask'[q] = ask[q]
    BY <2>1, ChangedAt
  <2> QED BY <2>1, <2>2, <2>3 DEF Counted
<1>3. ASSUME ask[r].op = "batch", ask' = ask, NEW n, NEW m,
             Changed(reports, reports', r, n), Changed(received, received', r, m)
      PROVE  Counted'
  <2>1. \A q \in Requests \ {r} : reports'[q] = reports[q] /\ received'[q] = received[q]
    BY <1>3 DEF Changed
  <2> QED BY <1>3, <2>1 DEF Counted
<1>4. \/ UNCHANGED <<ask, reports, received>> \/ \E a \in Asks : accept(r, a)
      \/ \E i \in calls(r) : inBatch(r, i) /\ report(r, i)
      \/ collect(r) /\ receive(r)
  BY DEF badRequest, serve, listTools, pingDB, pingRedis, ping, ready, execute, answerOne,
         inBatch, store, collect, answerBatch
<1>5. CASE \E i \in calls(r) : inBatch(r, i) /\ report(r, i)
  <2>1. /\ ask[r].op = "batch" /\ ask' = ask
        /\ Changed(reports, reports', r, reports[r] + 1)
        /\ Changed(received, received', r, received[r])
    BY <1>5, Changes DEF inBatch, report, Kept
  <2> QED BY <1>3, <2>1
<1>6. CASE collect(r) /\ receive(r)
  <2>1. /\ ask[r].op = "batch" /\ ask' = ask
        /\ Changed(reports, reports', r, reports[r] - 1)
        /\ Changed(received, received', r, received[r] + 1)
    BY <1>6, Changes DEF collect, receive, Kept
  <2> QED BY <1>3, <2>1
<1> QED BY <1>1, <1>2, <1>4, <1>5, <1>6

LEMMA ProcessMain ==
    ASSUME Registered', ProcessTyped, mainStep \/ listen \/ interrupt \/ serverError
    PROVE  ProcessTyped'
<1>1. /\ server' \in {"none", "starting", "listening", "stopped"}
      /\ stores' \subseteq Stores /\ timedOut' \in BOOLEAN
  BY DEF ProcessTyped, mainStep, connectDB, connectRedis, connect, registerAll, start,
         notify, shutdown, closeRedis, closeDB, closeStore, listen, interrupt, serverError,
         Stores
<1>2. tools' \subseteq Names /\ writer' \in Goroutines \cup {None}
  <2>1. CASE registerAll
    <3>1. AllTools \subseteq Names
      <4>1. DOMAIN Builtin = {1, 2} /\ Builtin[1] = "calculator" /\ Builtin[2] = "web_search"
        BY DEF Builtin
      <4> QED BY <4>1 DEF AllTools, Names
    <3>2. tools' \subseteq Names
      <4>1. main' \in {"register", "start"}
        BY <2>1 DEF registerAll
      <4>2. tools' \in {{}, {"calculator"}, AllTools}
        BY <4>1 DEF Registered
      <4> QED BY <3>1, <4>2 DEF AllTools
    <3>3. writer' \in {writer, Main, None} /\ Main \in Goroutines
      BY <2>1 DEF registerAll, registry, Registry!Lock, Registry!Register, Goroutines
    <3> QED BY <3>2, <3>3 DEF ProcessTyped
  <2>2. CASE ~registerAll
    <3>1. UNCHANGED registry
      BY <2>2 DEF mainStep, connectDB, connectRedis, connect, start, notify, shutdown,
                  closeRedis, closeDB, closeStore, listen, interrupt, serverError
    <3> QED BY <3>1 DEF ProcessTyped, registry
  <2> QED BY <2>1, <2>2
<1> QED BY <1>1, <1>2 DEF ProcessTyped

LEMMA TypedStep == Inv /\ Typed /\ [Next]_vars => Typed'
<1> SUFFICES ASSUME Inv, Typed, [Next]_vars PROVE Typed'
  OBVIOUS
<1>1. CASE UNCHANGED vars
  BY <1>1 DEF vars, registry, process, handlers, Typed, Held, HoldsAt, Counted, ProcessTyped
<1>2. CASE (mainStep \/ listen \/ interrupt \/ serverError) /\ UNCHANGED handlers
  <2>1. readers' = readers
    BY <1>2 DEF mainStep, connectDB, connectRedis, connect, registerAll, start, notify,
                shutdown, closeRedis, closeDB, closeStore, listen, interrupt, serverError,
                registry, Registry!Lock, Registry!Register
  <2>2. Held' /\ Counted'
    BY <1>2, <2>1 DEF handlers, Typed, Held, HoldsAt, Counted
  <2>3. Registered'
    BY InvStep DEF Inv
  <2> QED BY <1>2, <2>2, <2>3, ProcessMain DEF Typed
<1>3. ASSUME NEW r \in Requests, UNCHANGED process,
             badRequest(r) \/ (\E a \in Asks : accept(r, a)) \/ serve(r)
      PROVE  Typed'
  <2>1. Held'
    BY <1>3, HeldServe, HeldComing DEF Inv, Typed
  <2>2. Counted'
    BY <1>3, CountedRequest DEF Inv, Typed
  <2>3. tools' = tools /\ writer' = writer
    <3>1. writer' = writer
      BY <1>3 DEF badRequest, accept, serve, listTools, pingDB, pingRedis, ping, ready,
                  execute, lookUp, get, run, inBatch, answerOne, collect, registry,
                  Registry!RLock, Registry!RUnlock
    <3> QED BY <1>3, <3>1, ToolsStay
  <2>4. ProcessTyped'
    BY <1>3, <2>3 DEF process, Typed, ProcessTyped
  <2> QED BY <2>1, <2>2, <2>4 DEF Typed
<1> QED BY <1>1, <1>2, <1>3 DEF Next, goroutines

\* Every variable has its type: no goroutine holds the read lock more than twice,
\* and no batch has more reports than calls.
THEOREM Typing == Spec => []TypeOK
<1>1. Inv /\ Typed => TypeOK
  <2> SUFFICES ASSUME Inv, Typed PROVE TypeOK
    OBVIOUS
  <2>1. Registry!RegistryTypeOK(Names)
    BY DEF Typed, Held, ProcessTyped, Registry!RegistryTypeOK
  <2>2. main \in {"connect db", "connect redis", "register", "start", "notify",
                  "wait", "shutdown", "close redis", "close db", "exited"}
    BY DEF Inv, Waited, Before, Serving, Closing
  <2>3. ASSUME NEW r \in Requests
        PROVE  /\ place[r] \in Places /\ ask[r] \in Asks \cup {NoAsk}
               /\ task[r] \in [Calls -> TaskPlaces] /\ outcome[r] \in [Calls -> Outcomes]
               /\ results[r] \in [Calls -> 0..MaxCalls]
               /\ reports[r] \in 0..MaxCalls /\ received[r] \in 0..MaxCalls
    <3>1. /\ LocalTyped(place[r], ask[r], task[r], outcome[r], results[r], reports[r], received[r])
          /\ Answer(place[r], ask[r], task[r], outcome[r], reports[r], received[r], answer[r])
      BY DEF Inv, Kept, LocalAt, Local
    <3>2. reports[r] \in Nat /\ received[r] \in Nat /\ ask[r] \in Asks \cup {NoAsk}
      BY <3>1 DEF LocalTyped
    <3>3. CASE ask[r].op = "batch"
      <4>1. reports[r] + received[r] = Cardinality(Reported(ask[r], task[r]))
        BY <3>1, <3>3 DEF Answer
      <4>2. /\ IsFiniteSet(DOMAIN ask[r].calls) /\ Len(ask[r].calls) \in 0..MaxCalls
            /\ Cardinality(DOMAIN ask[r].calls) = Len(ask[r].calls)
            /\ Reported(ask[r], task[r]) \in SUBSET DOMAIN ask[r].calls
        BY <3>2, CallsOf DEF Reported
      <4>3. Cardinality(Reported(ask[r], task[r])) <= Cardinality(DOMAIN ask[r].calls)
        BY <4>2, FS_Subset
      <4>4. reports[r] + received[r] <= MaxCalls /\ MaxCalls \in Nat
        <5> DEFINE l == Len(ask[r].calls)
                   c == Cardinality(Reported(ask[r], task[r]))
        <5>1. l \in 0..MaxCalls /\ c <= l /\ c = reports[r] + received[r]
          BY <4>1, <4>2, <4>3
        <5> HIDE DEF l, c
        <5> QED BY <5>1, <3>2, BoundAssumption
      <4> QED BY <3>1, <3>2, <4>4 DEF LocalTyped
    <3>4. CASE ask[r].op # "batch"
      <4>1. reports[r] = 0 /\ received[r] = 0 /\ 0 \in 0..MaxCalls
        BY <3>4, BoundAssumption DEF Typed, Counted
      <4> QED BY <3>1, <4>1 DEF LocalTyped
    <3> QED BY <3>3, <3>4
  <2>4. /\ Fun(place) /\ Fun(ask) /\ Fun(task) /\ Fun(outcome) /\ Fun(results)
        /\ Fun(reports) /\ Fun(received)
    BY DEF Inv, Kept
  <2>5. \A f, S : Fun(f) /\ (\A r \in Requests : f[r] \in S) => f \in [Requests -> S]
    BY DEF Fun
  <2>6. /\ place \in [Requests -> Places] /\ ask \in [Requests -> Asks \cup {NoAsk}]
        /\ task \in [Requests -> [Calls -> TaskPlaces]]
        /\ outcome \in [Requests -> [Calls -> Outcomes]]
        /\ results \in [Requests -> [Calls -> 0..MaxCalls]]
        /\ reports \in [Requests -> 0..MaxCalls] /\ received \in [Requests -> 0..MaxCalls]
    BY <2>3, <2>4, <2>5
  <2>7. Outcomes = {"none", "denied", "not found", "failed", "result", "infinite"}
    BY DEF Outcomes, Refusals, Successes
  <2> QED BY <2>1, <2>2, <2>6, <2>7 DEF TypeOK, Typed, ProcessTyped, Places, TaskPlaces
<1>2. Init => Inv
  BY WaitedInit, KeptInit DEF Inv
<1> QED BY <1>1, <1>2, InvStep, TypedInit, TypedStep, PTL DEF Spec

-----------------------------------------------------------------------------
(* ListForToken takes the read lock in List while it holds it already, which *)
(* ends well only if no writer asks for the lock in between.                *)

\* A request that is served never waits for the registry.
NoWriter == \A r \in Requests : inService(r) => writer = None

\* There is a writer only while main registers the tools, and before it is done.
Unlocked ==
    writer # None =>
        /\ main \in {"register", "exited"} /\ \A r \in Requests : place[r] = "idle"
        /\ main = "register" => tools # AllTools

LEMMA UnlockedStep == Inv /\ Unlocked /\ [Next]_vars => Unlocked'
<1> SUFFICES ASSUME Inv, Unlocked, [Next]_vars, writer' # None
             PROVE  /\ main' \in {"register", "exited"} /\ \A r \in Requests : place'[r] = "idle"
                    /\ main' = "register" => tools' # AllTools
  BY DEF Unlocked
<1>1. CASE UNCHANGED vars
  BY <1>1 DEF vars, registry, process, handlers, Unlocked
<1>2. CASE registerAll /\ UNCHANGED handlers
  <2>1. main = "register" /\ place' = place /\ \A r \in Requests : place[r] = "idle"
    BY <1>2 DEF registerAll, handlers, Inv, NobodyYet
  <2>2. Cardinality(tools) # Len(Builtin) /\ main' = main /\ tools' = tools
    <3>1. Cardinality(AllTools) = Len(Builtin)
      BY Sizes DEF Builtin
    <3>2. CASE tools = AllTools
      BY <1>2, <2>1, <3>1, <3>2 DEF registerAll, registry, Unlocked
    <3>3. CASE tools # AllTools
      <4>1. tools \in {{}, {"calculator"}}
        BY <2>1, <3>3 DEF Inv, Registered
      <4>2. Cardinality(tools) # Len(Builtin)
        BY <4>1, Sizes DEF Builtin
      <4>3. main' = main /\ (Registry!Lock(Main) \/ Registry!Register(Main, nextTool))
        BY <1>2, <4>2 DEF registerAll
      <4> QED BY <4>2, <4>3 DEF Registry!Lock, Registry!Register
    <3> QED BY <3>2, <3>3
  <2>3. tools # AllTools
    BY <2>2, Sizes DEF Builtin
  <2> QED BY <2>1, <2>2, <2>3
<1>3. CASE /\ mainStep \/ listen \/ interrupt \/ serverError
          /\ ~registerAll /\ ~exited /\ UNCHANGED handlers
  <2>1. UNCHANGED registry
    BY <1>3 DEF mainStep, connectDB, connectRedis, connect, start, notify, shutdown,
                closeRedis, closeDB, closeStore, listen, interrupt, serverError
  <2>2. writer # None /\ tools' = tools /\ place' = place
    BY <1>3, <2>1 DEF registry, handlers
  <2>3. main = "register" => main' \in {"register", "exited"}
    BY <1>3 DEF mainStep, connectDB, connectRedis, connect, start, notify, shutdown, mainGoes,
                closeRedis, closeDB, closeStore, listen, interrupt, serverError
  <2>4. main # "exited"
    BY <1>3 DEF exited
  <2> QED BY <2>2, <2>3, <2>4 DEF Unlocked
<1>4. ASSUME NEW r \in Requests, UNCHANGED process, ~exited,
             badRequest(r) \/ (\E a \in Asks : accept(r, a)) \/ serve(r)
      PROVE  FALSE
  <2>1. writer' = writer /\ main' = main
    BY <1>4 DEF process, badRequest, accept, serve, listTools, pingDB, pingRedis, ping, ready,
                execute, lookUp, get, run, inBatch, answerOne, collect, registry,
                Registry!RLock, Registry!RUnlock
  <2>2. main = "register" /\ \A q \in Requests : place[q] = "idle"
    BY <1>4, <2>1 DEF Unlocked, exited
  <2>3. server # "listening"
    BY <2>2 DEF Inv, Waited, Before
  <2>4. ~badRequest(r) /\ ~\E a \in Asks : accept(r, a)
    BY <2>3 DEF badRequest, accept
  <2>5. calls(r) = {}
    BY <2>2, CallsOf DEF Inv, Kept, LocalAt, Local, LocalTyped, Served, calls
  <2>6. ~serve(r)
    BY <2>2, <2>5 DEF serve, listTools, pingDB, pingRedis, ping, ready, answerOne,
                      collect, respond, atHandler
  <2> QED BY <1>4, <2>4, <2>6
<1> QED BY <1>1, <1>2, <1>3, <1>4 DEF Next, goroutines

\* No request finds a writer at the registry: the second RLock of ListForToken,
\* and every other, goes through, for any number of tools listed and run at once.
THEOREM ReadersPass == Spec => []NoWriter
<1>1. Inv /\ Unlocked => NoWriter
  BY DEF Unlocked, NoWriter, inService
<1>2. Init => Inv /\ Unlocked
  <2>1. Init => Unlocked
    BY DEF Init, Registry!RegistryInit, Unlocked
  <2> QED BY <2>1, WaitedInit, KeptInit DEF Inv
<1> QED BY <1>1, <1>2, InvStep, UnlockedStep, PTL DEF Spec
=============================================================================
