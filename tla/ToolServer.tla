----------------------------- MODULE ToolServer -----------------------------
(***************************************************************************)
(* The process from start to exit (cmd/api/main.go) and the handlers of    *)
(* its tool routes (http/handler/tool_handler.go) over the tool registry.  *)
(*                                                                         *)
(* The main goroutine connects the stores, registers the tools, serves,    *)
(* and on a signal shuts down while requests are served by goroutines of   *)
(* their own; each call of a batch has one more.  A request comes here with *)
(* the tools its token allows.  net/http, signals and the stores are       *)
(* external.                                                               *)
(***************************************************************************)
EXTENDS Integers, Sequences, FiniteSets

CONSTANTS
    Requests,
    Asks,           \* what requests may ask: a bounded set
    MaxCalls,       \* bound: calls in a batch
    None

VARIABLES
    tools, readers, writer,     \* the tool registry
    main,           \* where the main goroutine is
    server,         \* what the goroutine of ListenAndServe does
    stores,         \* the connections that are open
    timedOut,       \* server.Shutdown gave up waiting
    place,          \* where each request's handler is
    ask,            \* what it was asked
    task,           \* where the Execute of each of its calls is
    outcome,        \* history: how each Execute ended
    results,        \* the slots of the batch: 0, or the call whose result it is
    reports,        \* how many reports errChan holds
    received,       \* how many the handler took from it
    answer          \* what the client was sent

registry == <<tools, readers, writer>>
process == <<main, server, stores, timedOut>>
handlers == <<place, ask, task, outcome, results, reports, received, answer>>

Calls == 1..MaxCalls
Main == <<None, 0>>
Goroutines == {Main} \cup (Requests \X (0..MaxCalls))
Handler(r) == <<r, 0>>
Executor(r, i) == IF ask[r].op = "batch" THEN <<r, i>> ELSE Handler(r)

Registry == INSTANCE ToolRegistry

vars == <<registry, process, handlers>>

\* The tools of main.go, in the order of RegisterAll, and any other name.
Builtin == <<"calculator", "web_search">>
Names == {Builtin[k] : k \in DOMAIN Builtin} \cup {"other"}

\* What a request may ask: the operation, Token.AllowedTools and the names that
\* its calls give.
Ask == [op : {"list", "execute", "batch", "ready"},
        allowed : SUBSET (Names \cup {"*"}), calls : Seq(Names)]

ASSUME AskAssumption ==
    /\ Asks \subseteq Ask
    /\ \A a \in Asks : /\ Len(a.calls) <= MaxCalls
                       /\ a.op = "execute" => Len(a.calls) = 1
                       /\ a.op \in {"list", "ready"} => a.calls = <<>>
ASSUME BoundAssumption == MaxCalls \in Nat \ {0} /\ None \notin Goroutines

\* A response: what it is, and the tools or results in it.
Sent(kind, of) == [kind |-> kind, of |-> of]

NoAsk == [op |-> "none", allowed |-> {}, calls |-> <<>>]
Stores == {"db", "redis"}

exited == main = "exited"
inService(r) == place[r] \notin {"idle", "answered"}
calls(r) == DOMAIN ask[r].calls

Init ==
    /\ Registry!RegistryInit
    /\ main = "connect db" /\ server = "none"
    /\ stores = {} /\ timedOut = FALSE
    /\ place = [r \in Requests |-> "idle"]
    /\ ask = [r \in Requests |-> NoAsk]
    /\ task = [r \in Requests |-> [i \in Calls |-> "none"]]
    /\ outcome = [r \in Requests |-> [i \in Calls |-> "none"]]
    /\ results = [r \in Requests |-> [i \in Calls |-> 0]]
    /\ reports = [r \in Requests |-> 0]
    /\ received = [r \in Requests |-> 0]
    /\ answer = [r \in Requests |-> Sent("nothing", {})]

-----------------------------------------------------------------------------
(* The main goroutine                                                      *)

mainGoes(from, to) == main = from /\ main' = to

\* os.Exit(1) if there is no connection.
connect(store, from, to) ==
    /\ \/ mainGoes(from, to) /\ stores' = stores \cup {store}
       \/ mainGoes(from, "exited") /\ UNCHANGED stores
    /\ UNCHANGED <<registry, server, timedOut>>

connectDB == connect("db", "connect db", "connect redis")
connectRedis == connect("redis", "connect redis", "register")

\* RegisterAll: Register for each tool, in two steps.
nextTool == Builtin[Cardinality(tools) + 1]

\* Faulty variant: the tools are registered while requests are served.
registerWhileServing ==
    /\ \/ main = "register" /\ main' = "start" /\ UNCHANGED registry
       \/ /\ main = "wait" /\ Cardinality(tools) < Len(Builtin)
          /\ Registry!Lock(Main) \/ Registry!Register(Main, nextTool)
          /\ UNCHANGED main
    /\ UNCHANGED <<server, stores, timedOut>>

registerAll ==
    /\ main = "register"
    /\ IF Cardinality(tools) = Len(Builtin)
       THEN main' = "start" /\ UNCHANGED registry
       ELSE /\ Registry!Lock(Main) \/ Registry!Register(Main, nextTool)
            /\ UNCHANGED main
    /\ UNCHANGED <<server, stores, timedOut>>

\* The goroutine of ListenAndServe starts; the signals are not handled yet.
start ==
    /\ mainGoes("start", "notify") /\ server' = "starting"
    /\ UNCHANGED <<registry, stores, timedOut>>

notify ==
    /\ mainGoes("notify", "wait")
    /\ UNCHANGED <<registry, server, stores, timedOut>>

\* ListenAndServe listens, or returns at once if Shutdown was faster.
listen ==
    /\ server = "starting"
    /\ server' = IF main \in {"notify", "wait"} THEN "listening" ELSE "stopped"
    /\ UNCHANGED <<registry, main, stores, timedOut>>

\* Any other error of ListenAndServe ends the process.
serverError ==
    /\ server \in {"starting", "listening"} /\ main \in {"notify", "wait"}
    /\ server' = "stopped" /\ main' = "exited"
    /\ UNCHANGED <<registry, stores, timedOut>>

\* SIGINT or SIGTERM: ends the process until Notify was called; then main goes
\* on to Shutdown, which stops listening.
interrupt ==
    /\ main \notin {"shutdown", "close redis", "close db", "exited"}
    /\ IF main = "wait"
       THEN /\ main' = "shutdown"
            /\ server' = IF server = "listening" THEN "stopped" ELSE server
       ELSE main' = "exited" /\ UNCHANGED server
    /\ UNCHANGED <<registry, stores, timedOut>>

\* Faulty variant: Close instead of Shutdown.
drainedAtOnce == TRUE

\* No connection is active.
drained == \A r \in Requests : ~inService(r)

\* Shutdown returns when all requests have been answered, or with its timeout.
shutdown ==
    /\ mainGoes("shutdown", "close redis")
    /\ \/ drained /\ UNCHANGED timedOut
       \/ ~drained /\ timedOut' = TRUE
    /\ UNCHANGED <<registry, server, stores>>

\* The deferred calls of main, last first.
closeStore(store, from, to) ==
    /\ mainGoes(from, to) /\ stores' = stores \ {store}
    /\ UNCHANGED <<registry, server, timedOut>>

closeRedis == closeStore("redis", "close redis", "close db")
closeDB == closeStore("db", "close db", "exited")

mainStep ==
    \/ connectDB \/ connectRedis \/ registerAll \/ start \/ notify
    \/ shutdown \/ closeRedis \/ closeDB

-----------------------------------------------------------------------------
(* The handlers                                                            *)

atHandler(r, from, to) == place[r] = from /\ place' = [place EXCEPT ![r] = to]

\* Where the handler of a request begins.
entrance(a) ==
    CASE a.op = "list"  -> "list"
      [] a.op = "ready" -> "ping db"
      [] OTHER          -> "collect"

\* A request comes in.  Its calls start: each on a goroutine of its own in a
\* batch, on the handler's otherwise.
accept(r, a) ==
    /\ server = "listening"
    /\ atHandler(r, "idle", entrance(a))
    /\ ask' = [ask EXCEPT ![r] = a]
    /\ task' = [task EXCEPT ![r] = [i \in Calls |->
           IF i \in DOMAIN a.calls THEN "look up" ELSE "none"]]
    /\ UNCHANGED <<registry, outcome, results, reports, received, answer>>

\* The client is sent `what`.
respond(r, from, what) ==
    /\ atHandler(r, from, "answered")
    /\ answer' = [answer EXCEPT ![r] = what]

\* The body does not parse.
badRequest(r) ==
    /\ server = "listening"
    /\ respond(r, "idle", Sent("error", {}))
    /\ UNCHANGED <<registry, ask, task, outcome, results, reports, received>>

\* ListTools: the read lock, and again in List for "*".
listTools(r) ==
    LET a == ask[r].allowed
        g == Handler(r)
        complete == readers[g] = IF Registry!listsAgain(a) THEN 2 ELSE 1
    IN  /\ \/ /\ place[r] = "list" /\ ~complete
              /\ Registry!RLock(g)
              /\ UNCHANGED <<place, answer>>
           \/ /\ complete
              /\ respond(r, "list", Sent("tools", Registry!ListForToken(a)))
              /\ Registry!RUnlock(g)
        /\ UNCHANGED <<ask, task, outcome, results, reports, received>>

\* Ready: an open store may not answer a ping, a closed one never does.
ping(r, store, from, to) ==
    /\ \/ store \in stores /\ atHandler(r, from, to) /\ UNCHANGED answer
       \/ respond(r, from, Sent("unavailable", {}))
    /\ UNCHANGED <<registry, ask, task, outcome, results, reports, received>>

pingDB(r) == ping(r, "db", "ping db", "ping redis")
pingRedis(r) == ping(r, "redis", "ping redis", "ready")

ready(r) ==
    /\ respond(r, "ready", Sent("ready", {}))
    /\ UNCHANGED <<registry, ask, task, outcome, results, reports, received>>

-----------------------------------------------------------------------------
(* ExecuteToolUseCase.Execute                                              *)

\* Faulty variant: "*" is a name like any other.
CanUseToolByName(allowed, name) == allowed = {} \/ name \in allowed
CanUseTool(allowed, name) == allowed = {} \/ name \in allowed \/ "*" \in allowed

taskGoes(r, i, from, to) ==
    /\ task[r][i] = from
    /\ task' = [task EXCEPT ![r][i] = to]

\* Execute returns an error, or a result to be stored.
returns(r, i, from, how) ==
    /\ taskGoes(r, i, from, IF how \in {"result", "infinite"} THEN "store" ELSE "report")
    /\ outcome' = [outcome EXCEPT ![r][i] = how]

\* The permission of the token, and then Get: the read lock ...
lookUp(r, i) ==
    /\ IF CanUseTool(ask[r].allowed, ask[r].calls[i])
       THEN /\ taskGoes(r, i, "look up", "get")
            /\ Registry!RLock(Executor(r, i))
            /\ UNCHANGED outcome
       ELSE returns(r, i, "look up", "denied") /\ UNCHANGED registry

\* ... and the tool, if it is registered.
get(r, i) ==
    /\ IF Registry!Get(ask[r].calls[i])
       THEN taskGoes(r, i, "get", "run") /\ UNCHANGED outcome
       ELSE returns(r, i, "get", "not found")
    /\ Registry!RUnlock(Executor(r, i))

\* CalculatorTool.evaluate: a number or an error, and either is a result; a
\* product, sum or quotient of large numbers is infinite.
evaluate == {"result", "infinite"}

\* CalculatorTool.Execute: only a missing expression is an error.
calculator == evaluate \cup {"failed"}

\* WebSearchTool.Execute: a missing query, and a search that fails, are errors.
webSearch == {"result", "failed"}

\* The arguments are parsed, which may fail, validated and the tool run.
run(r, i) ==
    /\ \E how \in IF ask[r].calls[i] = "calculator" THEN calculator ELSE webSearch :
          returns(r, i, "run", how)
    /\ UNCHANGED registry

execute(r, i) ==
    /\ lookUp(r, i) \/ get(r, i) \/ run(r, i)
    /\ UNCHANGED <<place, ask, results, reports, received, answer>>

\* What the client is sent of the results in S: nothing if one is infinite, as
\* JSON has no such number and the error of the encoder is ignored.
encoded(r, S) ==
    IF \E i \in S : outcome[r][i] = "infinite" THEN Sent("nothing", {})
    ELSE Sent("results", {<<i, results[r][i]>> : i \in calls(r)})

\* ExecuteTool sends the result, or the error.
answerOne(r) ==
    /\ ask[r].op = "execute" /\ task[r][1] \in {"store", "report"}
    /\ respond(r, "collect",
           CASE outcome[r][1] = "result"   -> Sent("results", {<<1, 1>>})
             [] outcome[r][1] = "infinite" -> Sent("nothing", {})
             [] OTHER                      -> Sent("error", {}))
    /\ UNCHANGED <<registry, ask, task, outcome, results, reports, received>>

-----------------------------------------------------------------------------
(* ExecuteToolBatch                                                        *)

\* results[idx] = result.Result
store(r, i) ==
    /\ taskGoes(r, i, "store", "report")
    /\ results' = [results EXCEPT ![r][i] = i]
    /\ UNCHANGED reports

\* Faulty variant: after the report of an error the goroutine goes on.
reportTwice(r, i) ==
    /\ taskGoes(r, i, "report", "done")
    /\ reports' = [reports EXCEPT ![r] = @ + IF results[r][i] = 0 THEN 2 ELSE 1]
    /\ UNCHANGED results

\* errChan <- err, for which there is always room.
report(r, i) ==
    /\ taskGoes(r, i, "report", "done")
    /\ reports' = [reports EXCEPT ![r] = @ + 1]
    /\ UNCHANGED results

inBatch(r, i) ==
    /\ ask[r].op = "batch"
    /\ store(r, i) \/ report(r, i)
    /\ UNCHANGED <<registry, place, ask, outcome, received, answer>>

\* Faulty variant: one report too few is awaited.
expectedLess(r) == Len(ask[r].calls) - 1
expected(r) == Len(ask[r].calls)

\* <-errChan
receive(r) ==
    /\ received[r] < expected(r) /\ reports[r] > 0
    /\ received' = [received EXCEPT ![r] = @ + 1]
    /\ reports' = [reports EXCEPT ![r] = @ - 1]
    /\ UNCHANGED <<place, answer>>

answerBatch(r) ==
    /\ received[r] = expected(r)
    /\ respond(r, "collect", encoded(r, {results[r][i] : i \in calls(r)} \ {0}))
    /\ UNCHANGED <<received, reports>>

collect(r) ==
    /\ place[r] = "collect" /\ ask[r].op = "batch"
    /\ receive(r) \/ answerBatch(r)
    /\ UNCHANGED <<registry, ask, task, outcome, results>>

serve(r) ==
    \/ listTools(r) \/ pingDB(r) \/ pingRedis(r) \/ ready(r)
    \/ (\E i \in calls(r) : execute(r, i) \/ inBatch(r, i))
    \/ answerOne(r) \/ collect(r)

-----------------------------------------------------------------------------
\* The goroutines of the process.
goroutines ==
    \/ (mainStep \/ listen) /\ UNCHANGED handlers
    \/ (\E r \in Requests : serve(r)) /\ UNCHANGED process

Next ==
    /\ ~exited
    /\ \/ goroutines
       \/ (interrupt \/ serverError) /\ UNCHANGED handlers
       \/ /\ \E r \in Requests : badRequest(r) \/ \E a \in Asks : accept(r, a)
          /\ UNCHANGED process

Spec == Init /\ [][Next]_vars /\ WF_vars(~exited /\ goroutines)

-----------------------------------------------------------------------------
(* Properties                                                              *)

\* Every variable has its type.
TypeOK ==
    /\ Registry!RegistryTypeOK(Names)
    /\ main \in {"connect db", "connect redis", "register", "start", "notify",
                 "wait", "shutdown", "close redis", "close db", "exited"}
    /\ server \in {"none", "starting", "listening", "stopped"}
    /\ stores \subseteq Stores /\ timedOut \in BOOLEAN
    /\ place \in [Requests -> {"idle", "list", "ping db", "ping redis", "ready",
                               "collect", "answered"}]
    /\ ask \in [Requests -> Asks \cup {NoAsk}]
    /\ task \in [Requests -> [Calls -> {"none", "look up", "get", "run", "store",
                                        "report", "done"}]]
    /\ outcome \in [Requests -> [Calls -> {"none", "denied", "not found", "failed",
                                           "result", "infinite"}]]
    /\ results \in [Requests -> [Calls -> 0..MaxCalls]]
    /\ reports \in [Requests -> 0..MaxCalls]
    /\ received \in [Requests -> 0..MaxCalls]

\* A batch is answered only when its slots are final: every goroutine of it has
\* ended, so that none can still write, and each slot holds the result of its
\* own call, or nothing after an error.  The client is sent these slots, or no
\* body at all: it does not follow that it is sent every result, for one that
\* JSON cannot express empties the whole answer.
BatchIsFinal ==
    \A r \in Requests : place[r] = "answered" /\ ask[r].op = "batch" =>
        /\ \A i \in calls(r) :
              /\ task[r][i] = "done"
              /\ results[r][i] =
                    IF outcome[r][i] \in {"result", "infinite"} THEN i ELSE 0
        /\ answer[r].kind = "results" =>
              answer[r].of = {<<i, results[r][i]>> : i \in calls(r)}

\* The tools a token is shown are those it can execute: with the same token, no
\* call of a listed tool is denied or finds no tool, and of no other runs.
ListedIsUsable ==
    \A q, r \in Requests :
        /\ place[q] = "answered" /\ ask[q].op = "list"
        /\ ask[q].allowed = ask[r].allowed
        => \A i \in calls(r) :
              IF ask[r].calls[i] \in answer[q].of
              THEN outcome[r][i] \notin {"denied", "not found"}
              ELSE outcome[r][i] \in {"none", "denied", "not found"}

\* A request finds the stores open from its first step to its last, unless the
\* shutdown gave up on it.
StoresStayOpen ==
    (\E r \in Requests : inService(r)) /\ ~timedOut => stores = Stores

\* No request waits for ever, though ListForToken takes the read lock twice; and
\* a shutdown comes to its end.
EverythingEnds ==
    /\ \A r \in Requests : inService(r) ~> (place[r] = "answered" \/ exited)
    /\ main = "shutdown" ~> exited
=============================================================================
