# go-agent-api, specified

This directory holds TLA+ models of go-agent-api, the configurations with which
TLC checks them, and proofs that TLAPS checks. `PROJECT.json` lists the
components, the runs, the source lines each definition stands for, the hazards
and the theorems.

## The system

The program is an HTTP server in which users talk to an LLM agent that calls
tools. A tool may require a human's approval; the turn then pauses, its state is
saved in the conversation row, and a later request approves or rejects.

| component | state | operations | used by |
|---|---|---|---|
| agent workflow, `infrastructure/eino` | the `AgentState` of one invocation | Run, Resume, six graph nodes | chat use cases |
| workflow interface, `application/port` | none | Run, Resume | chat use cases |
| chat use cases, `usecase/chat` | rows of `conversations` and `messages` | SendMessage, ApproveAction, two queries | HTTP handlers |
| tool registry, `usecase/tool` | a map under a read-write lock | Register, Get, List, ListForToken | workflow, tool handlers |
| tool handlers, `tool_handler.go` | one goroutine and one result slot per call of a batch | ListTools, ExecuteTool, ExecuteToolBatch | clients |
| LLM client, `infrastructure/llm` | a goroutine and an unbuffered channel per stream | Chat, ChatStream, readSSE | workflow, chat handler |
| worker pool, `infrastructure/worker` | job channel, context, wait group | Submit, SubmitWait, Shutdown | nobody yet |
| rate limiter, `middleware` | two Redis counters per token | Limit | every protected route |
| authentication, `usecase/auth` and `usecase/user` | rows of `user_tokens` and `users`, signed JWTs | register, login, refresh, validate; revoke, update, delete | every protected route |
| process, `cmd/api/main.go` | connections to the stores, the listener | connect, register tools, serve, shut down | the operating system |
| tool execution records, cache, events, configuration, other middleware | rows, or none | single calls | |

Components interact by calls, by database rows that several requests read and
write with no transaction, by counters in Redis, and by channels. There is no
lock around a conversation, a user or a token. The hard behaviours are therefore
two requests on one conversation or one token, a failure between two writes, time
that passes between a check and the use of its result, a turn that pauses, fails
and is resumed several times, the goroutines of streams, batches and the pool,
and a shutdown in the middle of all this.
What makes each part correct, and where it is exposed, is the list of hazards in
`PROJECT.json`, each with its line and the properties that watch over it.

## The modules

| module | what it is |
|---|---|
| `EngineContract` | what Run and Resume may return: outcomes and costs |
| `WorkflowEngine` | the abstract specification of `port.WorkflowEngine` over one user turn |
| `ChatbotGraph` | the agent workflow, node by node; implements `WorkflowEngine` |
| `ChatbotGraphProofs` | the theorems about `ChatbotGraph` |
| `ChatService`, `ChatServiceProofs` | SendMessage, ApproveAction and the two queries, concurrent, over the two tables; uses `EngineContract`; its theorems |
| `EventStream`, `EventStreamProofs` | one streamed answer: the handler, `readSSE` and the channel between them; its theorems |
| `Accounts`, `AccountsProofs` | registration, login, refresh and validation over users, tokens and the clock; its inductive invariant |
| `RateLimiter`, `RateLimiterProofs` | the limiter's two counters in Redis; its theorems |
| `ProtectedRoute`, `ProtectedRouteProofs` | `Accounts` and `RateLimiter` composed, as the router composes them; the theorems of both |
| `ToolRegistry` | the map of tools under its read-write lock |
| `ToolServer`, `ToolServerProofs` | the process from start to exit, and the tool and readiness handlers over `ToolRegistry`; its theorems |
| `WorkerPool`, `WorkerPoolProofs` | Submit, SubmitWait, the workers and Shutdown; two theorems |
| `MCChatbotGraph`, `MCChatService`, `MCProtectedRoute`, `MCToolServer` | the constants of the models that TLC checks |

`ProtectedRoute` shares the clock of its two parts and hands the token of an
admitted request from one to the other. `ToolServer` instantiates `ToolRegistry`
with its goroutines: main, one per request and one per call of a batch.

Each model starts with definitions for the data, then the actions, then the
properties. A definition whose comment says "Faulty variant" is not part of the
model: it is the definition after it with a plausible mistake, kept to show that
a property notices the mistake.

### ChatbotGraph

`s` is the `AgentState` reduced to what control flow reads. `pc` is the node
that runs next, `at` the loop index of `actNode`. Each node is an action; the
body of the loop in `actNode` is one action per tool call (`actRefuse`,
`actPause`, `actExecute`), since each call may have an effect that a later
failure does not undo. `Resume` calls `actNode` and `observeNode` itself before
it enters the graph, so it has its own places, `resume_act` and
`resume_observe`. `finish` is the common end of Run and Resume. `checkpoint` is
the paused state the caller holds; it stays after an approval, because the use
case keeps the row until the resumed turn has succeeded. `calls`, `runs`, `ran`,
`granted` and `resumes` are history that only the properties read.

A tool call is the number under which `calls` logs the tool's name, so every call
the LLM makes is a new one. Text is one of a few values, enough to tell the user's
words, a tool's and the assistant's apart, and to tell whether there is any.

The LLM and the tools are external: the LLM answers with any text, empty or
not, any calls, and any number of tokens, which is zero when the provider reports
no usage (`Usage`); a call may name an unknown tool or carry arguments that do
not parse; a tool ends with a result or an error, which the code treats alike
but for the text. `abort` ends an invocation at any point: an LLM error, an
answer without choices, a cancelled request, the limit on steps that the graph
library sets by itself, a crash. `router` only picks a persona and a model; it
is part of `think`.

### ChatService

One conversation and a set of requests, each of which loads the row, calls the
engine and writes back its own copy. Each database or engine call is an action
of one request, so requests interleave between any two calls, and `fail` ends a
request at any point with what it wrote left in place. `update` writes every
column; its acknowledgement may be lost. `UpdateWorkflowState` writes one
column and leaves the copy in memory as it was.

The engine is what `EngineContract` allows, at a charge from the set `Charges`,
which is one token and no tool call for TLC and anything for the proofs. `turns` and
`spent` are history: how many turns were answered or decided on, and the tokens the
engine itself spent on them. The costs that Resume returns include those in the saved state it
starts from, and `ApproveAction` adds all of them to the row; `enter` takes out of `spent` what
was in it before. `passedOn` says how often the costs in a saved state have gone
that way: once for each decision on it, and once more if its turn had paused before
(`again`). A saved
state is the number of the pause that made it, so the model can say which state
is resumed, and how often. Message texts and titles are left out. The read of the
history changes nothing and is part of `run`. `turnAway` stands for the early
returns, which change nothing. GetConversation reads the row and then the
messages, ListConversations the rows and then their number: two database calls
each, between which others write.

`ChatbotGraph` is checked, and for safety proved, to implement `WorkflowEngine`,
whose results are those of `EngineContract`: what `ChatService` assumes of the
engine is what the graph does.

### EventStream

One streamed chat completion has two goroutines: the handler, which the variable
`handler` places, and `readSSE`, which `reader` places. `toSend` holds the events
of the line just read that have not been sent; a send and a receive on the
unbuffered channel are the one action `pass`. The deferred calls of `readSSE` are
actions of their own, since they run only if the last send ends. A line of the
LLM's body is what it carries that becomes events; blank, malformed and empty
lines carry nothing. `readSSE` reads the end of an answer in one of three ways that it
reports alike (`Finished`): the line "[DONE]" (`readDone`); the end of the body without it,
or inside a line, whose text is dropped (`readEOF`). `upstream` remembers which.
`connected`, `buffer` and `client` are the wire: a frame
leaves the buffer when the next does not fit, and when the handler returns. How
many bytes fit is left open: at each write nothing leaves, or what was
there, or all. `ExecuteStream` only passes its input on and is part of `open`
and `refuse`.

The connection to the client breaks at any point (`disconnect`), which
`net/http` may notice later (`notice`); the connection to the LLM breaks or times
out at any read (`readFailure`).

### Accounts, RateLimiter and ProtectedRoute

`users` and `tokens` are the tables, `issued` the JWTs that clients hold; a JWT is
its claims. Each database call is a step of one request, so requests, the clock
and the repositories' other operations (`administer`: update, delete, revoke, revoke
all, delete expired) come between any two. A look-up that fails counts as one
that found nothing, as in `create_user.go`; any other failed call ends the
request (`fail`) with what was written left in place. The claims are checked and
the row they name is read in one step. `barred` is history: for each reason why a
credential can be void, whether it has been void for that reason ever since the
request came. `opened` is history too.

In `RateLimiter` a request reads the clock for a key (`choose`, `chooseDay`), sends INCR
for that key at any time after, and sends EXPIRE when INCR answered 1. INCR and EXPIRE
may fail; an INCR that failed may have counted, and the go-redis client may send an INCR again
whose answer was lost, so that one request counts twice (`incrRepeated`). It would repeat an
EXPIRE too, which is not modelled: the second sets the same time to live a little later.
Redis may lose a counter at any time (`drop`), and `tick` removes every counter
whose time to live is over. A counter is named by token, kind of window and the window's number.
The clock counts ticks, of which each belongs to a minute and a date (`MinuteOf`,
`DateOf`); `Minute` and `Day` are the two times to live in ticks. A date may
be longer than `Day`, as one is each year when summer time ends. Redis and the
server are taken to have one clock that never goes back.

`enter` is the seam: a request that `Authenticate` admits arrives at the limiter
with the token that was put in its context.

### ToolServer and ToolRegistry

`main` places the main goroutine, from the connections through `RegisterAll`, the
goroutine of `ListenAndServe`, `Notify` and the wait for a signal, to `Shutdown` and
the deferred closes. A signal before `Notify` ends the process, as does any error
of `ListenAndServe`. `task` places each `Execute`, which runs on the handler's
goroutine or, in a batch, on one of its own: permission, look-up under the read
lock, arguments, tool. `store`, `report` and `receive` are the slot of the result
slice and the buffered channel. `ListForToken` takes the read lock a second time
for `"*"`, and a writer that waits keeps it out: this is what `Lock` and `RLock`
model. A tool is its name; the built-in tools differ in the outcomes they can have
(`calculator` may produce an infinite number, which JSON cannot carry).

### WorkerPool

Each `select` takes any of its cases that are ready, so a cancelled pool may still
accept a job, and a worker may still take one. A send on the closed channel
panics in its caller. Nothing in `cmd/` starts a pool, so the callers are any
goroutines.

## The runs

| run | bounds | what it shows |
|---|---|---|
| `graph` | 2 tools, one gated; 2 rounds; 2 calls per answer; 0 or 1 token per answer; 1 approval | types and the eight safety properties of the workflow; every invocation returns; the graph implements the interface |
| `chat_service` | 4 requests, 2 users, 1 conversation | types and the six safety properties of the use cases |
| `protected_route` | 2 requests, 1 user, session and key, 2 addresses; 3 ticks, each a minute, the last one the next day; limits of 1; 1 table operation, 1 failure of Redis | types, three properties of accounts, three of the limiter |
| `tool_server` | 2 requests, 9 things to ask, 2 calls in a batch | types, three safety and one liveness property of the process |
| `worker_pool` | 2 workers, 4 jobs, a queue for 1 | types, accounting of jobs and progress |
| `stream` | 2 lines of at most 2 tool calls each | types, four safety and two liveness properties of a streamed answer |
| `stream_leak`, `stream_cut` | 1 line | two claims of the documentation the stream does not keep |
| `approved_action_lost`, `earlier_call_repeated` | 1 approval | two claims of the documentation the workflow does not keep |
| `pause_erased`, `decided_twice` | 1 and 4 requests | two claims the use cases do not keep |

The properties, and why they could fail:

* `GateHolds`, `PauseAwaitsDecision`, `RunsBounded`: approvals, pauses and failed
  resumes in any order, with new LLM answers between.
* `PromptAnswered`, `NoForeignAnswer`: the protocol of tool messages across
  rounds. After a resume the first no longer holds, as the calls of a paused turn
  that were not reached are never answered; hence its condition.
* `BilledCallsRan`, `LoopBounded`, `SpokenAnswerReturned`, `Terminates`: costs,
  the iteration limit and the final answer.
* `OnlyOwnerActs`, `TranscriptInOrder`, `AnsweredTurnsAreStored`,
  `PendingIsExplained`: what survives concurrency and failures although rows are
  overwritten.
* `CountedAtMostOnce`: late copies lose statistics and must never make any up. It holds as
  long as no saved state's costs are handed on twice; a turn with two pauses, or one
  pause with two decisions, is counted more than once by the code, and the
  property promises nothing of it.
* `SerialTurnsExact`: requests served one after the other leave exactly the
  statistics, order of replies and status one expects.
* `SeenInOrder`, `DoneMeansWhole`: what a client has seen of a streamed answer is
  in the LLM's order without gaps, and when it is told "done" it has seen all that `readSSE`
  read. The tool calls of one line are told apart only by their number.
* `OneEnd`, `EndIsTold`: `readSSE` sends two ends when a read fails, and only the
  handler's early break keeps the second from the client. `EndIsTold` says that the client
  is told the end which `readSSE` saw, not that the answer was complete: that would be
  `DoneMeansComplete`, which `stream_cut` refutes.
* `Answered`, `ReaderReleased`: the handler always returns; `readSSE` ends and
  closes the LLM's response unless a read failed. The condition is the gap that
  `stream_leak` shows.
* `OneUserPerEmail`: address and insert are two calls, and a failed look-up passes;
  only the unique index is between two registrations and one address.
* `RevokedMeansOut`: JWTs are signed from what a request read several steps before,
  and the user and the token are checked at different times. It speaks of one
  reason at a time: if the token is revoked after it was read, and the user
  reactivated before it is read, a request passes whose credential was void all
  along.
* `SessionBounded`: the end of a session must not move, although each refresh makes
  a JWT that may outlive it.
* `WithinLimit`, `NoFalseRefusal`, `CountersExpire`: other requests run between the clock,
  INCR and the check, minutes and days end between any two steps, and Redis fails on some
  commands. `WithinLimit` excepts what the code does not keep: a counter that Redis lost
  (`dropped`); one that an INCR began anew when its window was over and it had expired
  (`late`); a day longer than 24 hours (not `ordinary`); and requests to which Redis did not
  answer, which pass. `NoFalseRefusal` excepts counters on which an INCR was repeated.
* `BatchIsFinal`: the slots are written by goroutines and read by the handler after
  the reports, whichever come first; none may write after the answer, and each slot has
  its own call's outcome. That the client gets every result is not said, and not so.
* `ListedIsUsable`: two functions of two packages decide what a token sees and what
  it may run, and the registry fills while the process starts.
* `StoresStayOpen`, `EverythingEnds`: the deferred closes run while a request may be in
  service if `Shutdown` gives up; no request hangs in the registry's lock, and a
  shutdown ends.
* `JobsAccounted`, `PoolProgress`: every interleaving of Submit, workers, cancellation
  and the close of the channel. After a cancellation a job may be accepted that
  no worker takes; `PoolProgress` promises a run only while the pool is not
  cancelled.

Bounds. Two calls in one answer give every order of an ordinary and a gated
call. Two rounds reach the limit and pass it after a resume. Two lines of a
stream are the fewest with an order between lines; the properties of its ends
do not depend on how many lines came before. One approval gives a pause, a
resume that repeats the calls before it, and a pause after it; a second one, and so a Resume
that failed and is approved again, is left to the theorems. Usage of 0 and 1 tells
whether an answer adds to the costs. Four requests are the
fewest with which one saved state is resumed twice. `MaxCalls` and `MaxResumes`
do not exist in the code: they keep TLC's state space finite, and the theorems
hold for every value. `Amount` is `0..4` since each request adds at most one
token; that a request may cost nothing there is left to the theorems too.
`chat_service` uses symmetry of requests and of users, and no liveness;
`protected_route` symmetry of requests and of addresses, likewise.

Two requests on a protected route are enough for two registrations of one
address, a login and the use of its JWT, and a second request at a limit of 1.
Of the three ticks each is a minute and the last one is the next day: a counter of a minute
lives for one tick and one of a day for two, so that both expire, also between a request's
reading of the clock and its INCR, and a day ends. The times to live
(1 for JWTs, session and key, 2 for refresh JWTs) end within them, in either order with what
is signed in between. That no day of these bounds is longer than its counter leaves long days
to the theorem. One
operation on the tables revokes, deactivates, renames or deletes; one failure of
Redis hits any command. `MaxTime`, `MaxOperations`, `MaxFaults` and `MaxCalls` do not
exist in the code.

Two calls of a batch have two orders of everything, and an error in either. The
nine things to ask have each operation, with no list of tools, `"*"` and one name.
A queue for one job is full after one Submit, and four callers are one more than
two workers and the queue can hold.

Deadlock is not checked: a turn that has been answered, a server whose requests
have all ended or whose process has exited, and a pool that was shut down stop.

Fairness. `WF_vars(nodes)` in `ChatbotGraph` says that a goroutine that can run
does, and that an LLM or tool call ends: the client has a timeout of 120
seconds (`litellm/client.go:29`) and a tool call is bound to the request's context.
In
`EventStream` the two goroutines and a pending channel operation are weakly fair:
a read returns because the client's timeout covers the body, and a write because
of the server's write timeout. That `net/http` notices a lost connection is not
assumed. In `ToolServer` the process as a whole is weakly fair while it runs: some
goroutine that can go on does, which is less than the Go scheduler gives. That
covers the locks, channels, pings, tools and `Shutdown`: these end by the request's
context, the client's timeouts, and the 30 seconds of `main.go`. Signals, requests and errors
of the listener are not assumed to come. In `WorkerPool` each worker, each waiting
SubmitWait and Shutdown once called are weakly fair; that jobs return is part of it,
and that Shutdown is called is not. Nothing is assumed of users. `ChatService`,
`Accounts` and `RateLimiter` have no fairness: a request may stop anywhere.

## What the runs found

* An approved tool call is never executed. `actNode` asks for approval again
  whatever `IsApproved` says, and `Resume` clears the flag it sets.
* A call without a gate that ran before the pause is executed again by Resume.
* A pause does not survive its own request: `Update` overwrites the workflow state
  that `UpdateWorkflowState` just wrote. Only another request that loads the row
  between these two writes can resume the turn at all.
* Two decisions on one pause that overlap are both carried out.
* When a client leaves while `readSSE` waits for the LLM, `readSSE` stays for ever
  in its second send: the goroutine and the connection to the LLM leak. Any
  failed read does the same.
* An answer of the LLM that is cut off by the end of its body, with no "[DONE]" and
  perhaps inside a line, reaches the client as one that is done.

Also seen while modelling, with no property of their own:

* A conversation that awaits a decision accepts messages, although the domain
  service's rule, which nothing calls, says it should not.
* The response writer of the logging middleware hides `Flush`, so the events of a
  streamed answer wait in the buffer until it is full or the answer ends.
* `tool_handler.go:87` says that a batch "returns all results". A call that fails leaves
  null, and if one result is infinite, the encoder fails and the whole answer is
  empty. `maxConcurrent` is
  stored in the tool handler and not used: a batch starts all its calls at once.
* The calculator's description lists functions that `evaluate` does not have.
* `Authenticate` takes any JWT that leads to a valid row, whatever its type.
* The chat path runs any tool that the LLM names (`chatbot_graph.go:347-366`), and offers
  it all of them: a token's `AllowedTools` is read by the tool handlers only,
  although `docs/articles/03-tool-system.md:256` says that the list passed to the LLM
  is filtered by it. `ListedIsUsable` is about the tool handlers.
* More than the limit can be served in a minute, although the repository's `README.md:38` calls
  the limits enforced: an INCR that arrives after the counter of its minute
  has expired starts it again from one. The day has the same gap at its end, and on a day of
  25 hours its last hour; there `docs/articles/08-deployment.md:182` grants that
  counts are inaccurate only for keys that Redis evicts.
* The repositories' operations that revoke, update or delete have no caller. Of `RATE_LIMIT_*`
  of the configuration `main` reads whether the limiter is on; its numbers have no
  reader: the limits are columns of the token.
* A pool that is cancelled may still accept a job, which then never runs, and
  Submit and SubmitWait panic if the channel has been closed.

In the chat use cases, `Reject` leaves
`pending_approval` in the metadata, though the documentation says it is removed;
`ShouldStop` survives a pause but Resume asks the LLM regardless, hence the two
extra rounds in `LoopBounded`; the fallback answer of `responseNode` can be an
earlier turn's; the token count of a turn that pauses several times is added
to the conversation once per resume, since the count in a saved state is
cumulative.

## The proofs

`ChatbotGraphProofs` proves about `ChatbotGraph`, for every set of tools, every
positive iteration limit, and any number of calls and approvals:

| theorem | states | inductive invariant |
|---|---|---|
| `Typing` | `Spec => []TypeOK` | `TypeOK` itself |
| `Gate` | `Spec => []GateHolds` | `NeverRun`: no gated call has run at all |
| `Loop` | `Spec => []LoopBounded` | `RoundsLeft`: rounds left at each node |
| `AtMostOncePerPass` | `Spec => []RunsBounded` | `PassLeft`: calls not yet reached have not run in this pass; pending calls are distinct |
| `Pause` | `Spec => []PauseAwaitsDecision` | `PauseKept`, with `PassLeft`: follows the pause from `actNode` to the caller |
| `AnswersAreCalled` | `Spec => []NoForeignAnswer` | `AllRooted`: what is still to be answered was called, in the saved state too |
| `PromptsAnswer` | `Spec => []PromptAnswered` | `Answering`: every call is answered but those being served, whose results are in order |
| `AnswersAreSpoken` | `Spec => []SpokenAnswerReturned` | `Spoken`: nothing is returned while the graph runs, and what it is about to return |
| `Billing` | `Spec => []BilledCallsRan` | `Billed`: a saved state costs what had run when it was saved |
| `EngineRefinement` | initial states and steps map to `WorkflowEngine`'s | `CostsKept`: no cost is forgotten while a call is served, and an answer of the LLM may add none |

None of these properties is inductive by itself. `LoopBounded` says nothing of
how far the node being executed may still go; `RunsBounded` needs that the calls
after `at` have one execution to spare and that no call is pending twice;
`PauseAwaitsDecision` speaks of a state returned several steps after it was
made. `NoForeignAnswer` speaks of tool messages, which `observeNode` makes of
results of calls made a round before, or a resume before; `PromptAnswered` of
the LLM request only, so that `Answering` has to follow one answer of the LLM
through `actNode` and `observeNode`, and needs `PauseKept`, since a pause is the one
way in which a call stays unanswered. `ran` counts executions because a sum over
`runs` could only be reasoned about by induction over data. `NeverRun` is stronger than the gate: it shows that the gate holds because
the code runs no gated tool, approved or not. Each invariant was checked with
TLC before it was proved.

The assumptions of `ChatbotGraphProofs` are those of the module: `Gated \subseteq Tools`, `Invalid` is
no tool, the bounds are natural numbers and the iteration limit is positive, as
10 is; `None` is no state. The proofs have one step per action, over lemmas that
say what the operators on states do field by field.

*The use cases.* `ChatServiceProofs` proves every safety property of `ChatService`,
for any number of requests, users and pauses and any costs:

| theorem | states | inductive invariant |
|---|---|---|
| `Typing` | `[]TypeOK` | `Sound`: also, what a request has in hand at each place, and every saved state that a row or a copy names exists |
| `OwnerOnly` | `OnlyOwnerActs` | `Owned`, with `Sound`: whoever has a copy, a result or a message asked as the owner |
| `TranscriptOrdered`, `AnswersStored` | `[]TranscriptInOrder`, `[]AnsweredTurnsAreStored` | `AllWritten`: which messages of a request exist, by how far it has come |
| `PauseExplained`, `CountedOnce` | `[]PendingIsExplained`, `[]CountedAtMostOnce` | `Counts`: unless costs were handed on twice, the row and every copy count no more than the turns, and tokens, that took place; and the row and every copy that is pending names a reason |
| `SerialExact` | `[]SerialTurnsExact` | `SerialInv`: while requests come one by one, the row between two turns and the copy of the turn in progress are exact |

`Consistent` is the conjunction of the first four. The row is written from copies
loaded arbitrarily long before, so each of these has to be said of every copy,
and then of the row: a late write puts nothing into it that a copy did not have
already. `CountedAtMostOnce` bounds what the row has counted, but a turn is
counted in a copy first, in the step in which the engine returns and the bound
grows; the copies need the same bound. `SerialTurnsExact` says nothing while a
request is in flight or after one failed; `SerialInv` says at each place of the
turn in progress what its copy still lacks. The assumptions are
`AmountAssumption` (costs are natural numbers, and may be zero) and
`NoneAssumption` (no row is no conversation). Tokens are summed in `spent` as they
are spent, since a sum over a set could only be reasoned about by induction over data.
The first attempt to prove `Typing` failed for a good reason: `answer` was a `CASE`
with two guards that a paused `approve` satisfies at once, where TLA+ leaves open
which arm is taken and TLC takes the first. It now asks first whether the turn
paused, as the code does.

About the other components:

| theorem | states | inductive invariant |
|---|---|---|
| `RateLimiterProofs.Typing` | `[]TypeOK` | `Typed`: also, a request keeps the counters it chose, and none of a window to come |
| `RateLimiterProofs.Expiry` | `[]CountersExpire` | itself, with `Typed` |
| `RateLimiterProofs.Limitation` | `[]WithinLimit` | `Limited`: answers of a counter differ and are not ahead of it, counters outlive their window, and nobody has an answer for a key that is still to be chosen |
| `RateLimiterProofs.Refusals` | `[]NoFalseRefusal` | `Fair`: but for repeated INCRs, a counter is not ahead of the requests it let through, up to the limit, and whoever is refused came after that many |
| `ProtectedRouteProofs.RouteTyping`, `AccountTyping` | `[]TypeOK`, `[]AccountTypeOK` | `Inv` of `AccountsProofs` |
| `UniqueEmails`, `RevocationWorks`, `SessionsEnd` | `[]OneUserPerEmail`, `[]RevokedMeansOut`, `[]SessionBounded` | `Inv` |
| `LimitsHold`, `RefusalsAreDue`, `CountersEnd` | the three properties of the limiter in the composition | by refinement |
| `ToolServerProofs.StoresOutliveRequests` | `[]StoresStayOpen` | `Waited`: what is open at each place of main |
| `BatchesAreFinal`, `ListsAreUsable` | `[]BatchIsFinal`, `[]ListedIsUsable` | `Inv`: `Waited`, `Registered`, `NobodyYet`, and `Kept` of each request |
| `ToolServerProofs.Typing` | `[]TypeOK` | `Typed`, with `Inv`: which goroutine holds the read lock, and how often |
| `ReadersPass` | `[]NoWriter` | `Unlocked`, with `Inv`: a writer is there only before the tools are complete |
| `EventStreamProofs.Typing`, `OneEndSeen`, `EndTold` | `[]TypeOK`, `[]OneEnd`, `[]EndIsTold` | `Inv`: who may be where, what is still to be sent, what was written |
| `InOrder`, `Whole` | `[]SeenInOrder`, `[]DoneMeansWhole` | `Delivered` and `Reported`, with `Inv`: the answer on its way to a client, and what a client has seen |
| `WorkerPoolProofs.Typing`, `EveryJobOnce` | `[]TypeOK`, `[]JobsAccounted` | `Accounted`: both together |

*The limiter.* `WithinLimit` speaks of the size of a set of requests, and a counter
may expire and start again from zero while they are in service. The argument: as
long as a window lasts its counter only grows, since its time to live began when the window
had come, and is as long as an ordinary window (`Lasting`, by the lemma `Outlasting`). Once the
window is over its counter may go, and a request that chose its key before may still
send the INCR: if the counter is there the answer is a new number again, and if it is gone,
the window is `late` and nothing more is said of it. So the answers of a counter that is
neither `late` nor `dropped` are distinct numbers (`Numbered`), and as many requests as the limit
at most have seen one within it (`Passing`). That the window is not the one of the INCR is the
difficulty here: with the reading of the clock and the INCR in one step the exception
`late` would not be needed, and the theorem would be about another program. `NoFalseRefusal` is the
converse: a counter that has passed its limit let that many requests through before.
`LimitConstants` is what is assumed: limits, ticks and times to live are natural numbers,
minutes and dates never go back, `None` is none of the values, and the requests are
finitely many.

*Accounts.* `Inv` adds to the types that the tables agree with each other and with
the JWTs (the user named in a JWT owns its row, a session's row ends when its login
said), that ids are not used before they are made up, and what is known of each
request at its place. At `find user` the row it read was good, so that only
the user can be a reason left, and if it is one the row still exists and names
this user: `RevokedMeansOut` needs that deleting the row and its user together
leaves no reason of the second kind. The assumptions are `TimeAssumption`,
`IdAssumption` and `RowAssumption`: times are natural numbers, and made-up ids are new.

*The composition.* `LimiterStep` shows each step on the way to a protected route to
be a step of the limiter with the ids of the token table as tokens, or a stutter:
the token of an admitted request is one of these ids by `Inv`. The theorems of
`RateLimiterProofs` then hold of the composition.

*The process.* `Waited` says which stores are open at each place of the main goroutine,
and that requests are in service after `Shutdown` only if it timed out.

*The tool handlers.* `Kept` holds of each request by itself, so that a step of one
leaves the others alone. It counts: the reports in `errChan` and those taken from it
are together as many as the calls of the batch that are `done`. When the handler has
taken one for each call they are all done, no report is left and no goroutine can
write into the slots again, each of which agrees with the outcome of its call:
`BatchIsFinal`. `ListedIsUsable` needs `Registered` and `NobodyYet`: main serves only after
`RegisterAll`, so a list and a call, however far apart, see the same tools. The
assumption is `AskAssumption`: a batch has no more calls than slots, an execution has one,
and what is not about a tool has none.

The types of this module are not inductive: that a goroutine
holds the read lock at most twice (`readers`), since RLock adds one whoever calls it, needs
`Held`, which says at each place of a request which of its goroutines hold the lock and
how often; that `reports` and `received` stay within the calls of a batch needs `Kept`, which
counts them, and that nothing else has reports (`Counted`).

`NoWriter` is the safety half of a deadlock question: `ListForToken` calls `List` with the read
lock in its hand, and an RWMutex keeps new readers out as soon as a writer waits. No
writer does while a request is served, since only main writes and comes to serve with all
tools registered and the lock given back. That the request then goes on is liveness.

*The event stream.* What was written is what the client saw followed by what is still
in the buffer, whichever part of it a broken connection loses. `Inv` says of it that
it has no end before the handler leaves its loop, and then one end, which agrees with
whether the LLM's body ended or its read failed, and the marker. What `readSSE` has still to send while the
handler receives is either plain events or exactly one of its endings.

`SeenInOrder` and `DoneMeansWhole` say nothing of events that are on their way. `Delivered`
does: as long as the client is connected, what was written, then what the handler is about to
write, then what `readSSE` has still to send of the lines read is their whole answer, each
event once and in order (`Faithful`). A line adds its events at the end (`events`), a send moves
one from one part to the next, a flush moves some within what was written, and
the rest leave the sequence as it is. When the body ends no event is on its way,
and "done" is written only after such an end, hence `DoneMeansWhole`: of what `readSSE` read,
which is all there was only if it read "[DONE]". A client
that leaves has a prefix of this sequence, of which both properties hold; `Reported` carries
them on, as nothing reaches this client any more. The number of frames of a line is a
`Cardinality`; the lemmas on it say what one more event does to it. The
assumption is `BoundAssumption`.

*The pool.* `JobsAccounted` is inductive once the types are added: each step moves one
job from one place to the next. `PoolAssumption` says that the queue holds at least
one job.

Every invariant and action property that a passing run checks is proved. Only
model-checked is liveness (`Terminates`, the fairness part of
`ImplementsEngine`, `Answered`, `ReaderReleased`, `EverythingEnds`, `PoolProgress`),
which is outside the prover's reach. The runs that expect a violation have one
counterexample each and need no proof.

## Not modelled

Encoding and decoding, logging, headers, recovery, CORS, request ids,
configuration, the built-in tools' own work and the persona router are data or
pure functions that no property reads. `last_used_at` is a column that nothing
reads. Without a caller are the tool execution records, the cache, domain events,
`OptionalAuth`, the domain services of authentication and conversations, the value
objects, `Conversation.Complete` and the message repository's batches and deletes.
The tool-call format is JSON conversion; whether arguments parse is a choice of the
LLM in `ChatbotGraph` and of the client in `ToolServer`. `docs.go` and the swagger types
are generated.

## Plan

What is left is a theorem that joins the two levels of the chat: what `ChatbotGraph` returns is, by
`EngineRefinement`, an outcome of `EngineContract`, and `ChatService` chooses from
these. The two meet in the shared module; they are not composed, since a turn of the
graph in each request is beyond TLC's bounds.
