----------------------------- MODULE WorkerPool -----------------------------
(***************************************************************************)
(* worker.Pool (infrastructure/worker/pool.go): workers that take jobs     *)
(* from a buffered channel, Submit and SubmitWait that put them there, and *)
(* Shutdown, which cancels the context, closes the channel and waits.      *)
(*                                                                         *)
(* A select takes any of its cases that are ready.  A goroutine may reach  *)
(* its select at any time, so one that is parked in it does nothing that   *)
(* one that has not reached it yet could not do: the two are not told      *)
(* apart.  A job is the call that submits it.  Nothing in src/ calls the   *)
(* pool: the callers are any goroutines, and one of them shuts it down.    *)
(***************************************************************************)
EXTENDS Integers, Sequences, FiniteSets

CONSTANTS
    Workers,        \* NewPool's workers
    Jobs,           \* the calls of Submit and SubmitWait, each with its job
    QueueSize,      \* the capacity of p.jobs
    None

ASSUME PoolAssumption ==
    QueueSize \in Nat \ {0} /\ None \notin Jobs /\ "returned" \notin Jobs

VARIABLES
    jobs,           \* the buffer of p.jobs
    cancelled,      \* p.ctx is done
    closed,         \* p.jobs is closed
    worker,         \* the job each worker runs, None at its select, or "returned"
    call,           \* where each Submit or SubmitWait is, or what it returned
    ran,            \* history: the jobs that were run to their end
    shutdown        \* where Shutdown is

vars == <<jobs, cancelled, closed, worker, call, ran, shutdown>>

Queued == {jobs[k] : k \in DOMAIN jobs}

Init ==
    /\ jobs = <<>> /\ cancelled = FALSE /\ closed = FALSE
    /\ worker = [w \in Workers |-> None]
    /\ call = [j \in Jobs |-> "idle"]
    /\ ran = {} /\ shutdown = "not called"

-----------------------------------------------------------------------------
(* The workers                                                             *)

\* case <-p.ctx.Done(), or a receive from the channel, closed and empty.
leave(w) ==
    /\ worker[w] = None
    /\ cancelled \/ (closed /\ jobs = <<>>)
    /\ worker' = [worker EXCEPT ![w] = "returned"]
    /\ UNCHANGED <<jobs, cancelled, closed, call, ran, shutdown>>

\* Faulty variant: the job stays in the queue while it runs.
takeCopy(w) ==
    /\ worker[w] = None /\ jobs # <<>>
    /\ worker' = [worker EXCEPT ![w] = Head(jobs)]
    /\ UNCHANGED <<jobs, cancelled, closed, call, ran, shutdown>>

\* case job, ok := <-p.jobs: also from a channel that is closed.
take(w) ==
    /\ worker[w] = None /\ jobs # <<>>
    /\ worker' = [worker EXCEPT ![w] = Head(jobs)]
    /\ jobs' = Tail(jobs)
    /\ UNCHANGED <<cancelled, closed, call, ran, shutdown>>

\* Faulty variant: the worker returns after its first job.
finishAndReturn(w) ==
    /\ worker[w] \in Jobs
    /\ ran' = ran \cup {worker[w]}
    /\ worker' = [worker EXCEPT ![w] = "returned"]
    /\ UNCHANGED <<jobs, cancelled, closed, call, shutdown>>

\* job(p.ctx) returns, to the next round of the loop.
finish(w) ==
    /\ worker[w] \in Jobs
    /\ ran' = ran \cup {worker[w]}
    /\ worker' = [worker EXCEPT ![w] = None]
    /\ UNCHANGED <<jobs, cancelled, closed, call, shutdown>>

-----------------------------------------------------------------------------
(* Submit and SubmitWait                                                   *)

\* Faulty variant: the buffer has room for one more.
roomForOneMore == Len(jobs) <= QueueSize
room == Len(jobs) < QueueSize

returns(j, from, how) == call[j] = from /\ call' = [call EXCEPT ![j] = how]

\* case p.jobs <- job: the job is accepted; the send panics on a closed channel.
send(j, from) ==
    /\ \/ ~closed /\ room /\ returns(j, from, "accepted") /\ jobs' = Append(jobs, j)
       \/ closed /\ returns(j, from, "panicked") /\ UNCHANGED jobs
    /\ UNCHANGED <<cancelled, closed, worker, ran, shutdown>>

\* case <-p.ctx.Done()
tooLate(j, from) ==
    /\ cancelled /\ returns(j, from, "refused")
    /\ UNCHANGED <<jobs, cancelled, closed, worker, ran, shutdown>>

\* default: nothing else is ready.
queueFull(j) ==
    /\ ~closed /\ ~cancelled /\ ~room /\ returns(j, "idle", "refused")
    /\ UNCHANGED <<jobs, cancelled, closed, worker, ran, shutdown>>

Submit(j) == send(j, "idle") \/ tooLate(j, "idle") \/ queueFull(j)

\* SubmitWait waits until a case is ready.
wait(j) ==
    /\ returns(j, "idle", "waiting")
    /\ UNCHANGED <<jobs, cancelled, closed, worker, ran, shutdown>>

SubmitWait(j) == send(j, "waiting") \/ tooLate(j, "waiting")

-----------------------------------------------------------------------------
(* The end of the pool                                                     *)

\* The context that NewPool was given is cancelled.
cancelParent ==
    /\ ~cancelled /\ cancelled' = TRUE
    /\ UNCHANGED <<jobs, closed, worker, call, ran, shutdown>>

Shutdown ==
    \/ /\ shutdown = "not called" /\ shutdown' = "cancelled"    \* p.cancel()
       /\ cancelled' = TRUE /\ UNCHANGED closed
    \/ /\ shutdown = "cancelled" /\ shutdown' = "closed"        \* close(p.jobs)
       /\ closed' = TRUE /\ UNCHANGED cancelled
    \/ /\ shutdown = "closed" /\ shutdown' = "returned"         \* p.wg.Wait()
       /\ \A w \in Workers : worker[w] = "returned"
       /\ UNCHANGED <<cancelled, closed>>

shutdownStep == Shutdown /\ UNCHANGED <<jobs, worker, call, ran>>
workerStep(w) == leave(w) \/ take(w) \/ finish(w)

Next ==
    \/ \E w \in Workers : workerStep(w)
    \/ \E j \in Jobs : Submit(j) \/ wait(j) \/ SubmitWait(j)
    \/ cancelParent \/ shutdownStep

\* Every goroutine that can go on does; whether Shutdown is called at all is
\* left open.
Fairness ==
    /\ \A w \in Workers : WF_vars(workerStep(w))
    /\ \A j \in Jobs : WF_vars(SubmitWait(j))
    /\ WF_vars(shutdown # "not called" /\ shutdownStep)

Spec == Init /\ [][Next]_vars /\ Fairness

-----------------------------------------------------------------------------
(* Properties                                                              *)

\* Every variable has its type, and the buffer its capacity.
TypeOK ==
    /\ jobs \in Seq(Jobs) /\ Len(jobs) <= QueueSize
    /\ cancelled \in BOOLEAN /\ closed \in BOOLEAN
    /\ worker \in [Workers -> Jobs \cup {None, "returned"}]
    /\ call \in [Jobs -> {"idle", "waiting", "accepted", "refused", "panicked"}]
    /\ ran \subseteq Jobs
    /\ shutdown \in {"not called", "cancelled", "closed", "returned"}

Running == {worker[w] : w \in Workers} \ {None, "returned"}

\* An accepted job is in the queue, with one worker, or has been run, and only in
\* one of these, before, during and after a shutdown; a job that was refused, or
\* whose caller panicked, is in none and never runs.
JobsAccounted ==
    /\ \A j \in Jobs : call[j] = "accepted" <=> j \in Queued \cup Running \cup ran
    /\ Queued \cap Running = {} /\ Queued \cap ran = {} /\ Running \cap ran = {}
    /\ \A k, l \in DOMAIN jobs : jobs[k] = jobs[l] => k = l
    /\ \A v, w \in Workers : worker[v] \in Jobs /\ worker[v] = worker[w] => v = w

\* While the pool is not cancelled an accepted job is run in the end and
\* SubmitWait returns; Shutdown returns, whatever is submitted meanwhile.
PoolProgress ==
    /\ \A j \in Jobs : call[j] = "accepted" ~> (j \in ran \/ cancelled)
    /\ \A j \in Jobs : call[j] = "waiting" ~> call[j] # "waiting"
    /\ shutdown # "not called" ~> shutdown = "returned"
=============================================================================
