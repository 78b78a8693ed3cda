-------------------------- MODULE WorkerPoolProofs --------------------------
(* Where the jobs of the pool are, for any number of workers and jobs and   *)
(* any capacity of the queue.                                               *)
EXTENDS WorkerPool, TLAPS

-----------------------------------------------------------------------------
(* Sequences                                                               *)

Elements(s) == {s[k] : k \in DOMAIN s}
Distinct(s) == \A k, l \in DOMAIN s : s[k] = s[l] => k = l

\* What the rest of a queue holds.
LEMMA TailOf ==
    ASSUME NEW S, NEW s \in Seq(S), s # <<>>, Distinct(s)
    PROVE  /\ Head(s) \in S /\ Head(s) \in Elements(s)
           /\ Tail(s) \in Seq(S) /\ Len(Tail(s)) = Len(s) - 1
           /\ Elements(Tail(s)) = Elements(s) \ {Head(s)}
           /\ Distinct(Tail(s))
<1>1. /\ Len(s) \in Nat \ {0} /\ DOMAIN s = 1..Len(s) /\ Head(s) = s[1] /\ s[1] \in S
    OBVIOUS
<1>2. Tail(s) \in Seq(S) /\ Len(Tail(s)) = Len(s) - 1
    OBVIOUS
<1>3. DOMAIN Tail(s) = 1..(Len(s) - 1)
    BY <1>2
<1>4. \A k \in 1..(Len(s) - 1) : Tail(s)[k] = s[k + 1]
    OBVIOUS
<1>5. Distinct(Tail(s))
    BY <1>1, <1>3, <1>4 DEF Distinct
<1>6. Elements(Tail(s)) \subseteq Elements(s) \ {Head(s)}
    BY <1>1, <1>3, <1>4 DEF Elements, Distinct
<1>7. Elements(s) \ {Head(s)} \subseteq Elements(Tail(s))
  <2> SUFFICES ASSUME NEW k \in 1..Len(s), s[k] # s[1]
               PROVE  s[k] \in Elements(Tail(s))
    BY <1>1 DEF Elements
  <2>1. k - 1 \in 1..(Len(s) - 1) /\ s[k] = Tail(s)[k - 1]
    BY <1>1, <1>4
  <2> QED BY <2>1, <1>3 DEF Elements
<1>8. Head(s) \in Elements(s)
  BY <1>1 DEF Elements
<1>9. Elements(Tail(s)) = Elements(s) \ {Head(s)}
  BY <1>6, <1>7
<1> QED BY <1>1, <1>2, <1>5, <1>8, <1>9

\* What a queue holds after a send.
LEMMA AppendOf ==
    ASSUME NEW S, NEW s \in Seq(S), NEW e \in S, e \notin Elements(s), Distinct(s)
    PROVE  /\ Append(s, e) \in Seq(S) /\ Len(Append(s, e)) = Len(s) + 1
           /\ Elements(Append(s, e)) = Elements(s) \cup {e}
           /\ Distinct(Append(s, e))
<1> DEFINE t == Append(s, e)
<1>1. Len(s) \in Nat /\ DOMAIN s = 1..Len(s) /\ t \in Seq(S) /\ Len(t) = Len(s) + 1
    OBVIOUS
<1>2. DOMAIN t = 1..(Len(s) + 1)
    BY <1>1
<1>3. (\A k \in 1..Len(s) : t[k] = s[k]) /\ t[Len(s) + 1] = e
    OBVIOUS
<1> HIDE DEF t
<1>4. Distinct(t)
    BY <1>1, <1>2, <1>3 DEF Distinct, Elements
<1>5. Elements(t) = Elements(s) \cup {e}
  <2>1. Elements(t) \subseteq Elements(s) \cup {e}
    BY <1>1, <1>2, <1>3 DEF Elements
  <2>2. Elements(s) \subseteq Elements(t)
    BY <1>1, <1>2, <1>3 DEF Elements
  <2>3. e \in Elements(t)
    BY <1>1, <1>2, <1>3 DEF Elements
  <2> QED BY <2>1, <2>2, <2>3
<1> QED BY <1>1, <1>4, <1>5 DEF t

LEMMA LenNat == ASSUME NEW S, NEW s \in Seq(S) PROVE Len(s) \in Nat
OBVIOUS

LEMMA EmptySeq ==
    ASSUME NEW S PROVE <<>> \in Seq(S) /\ Len(<<>>) = 0 /\ DOMAIN <<>> = {}
OBVIOUS

-----------------------------------------------------------------------------
(* The invariant                                                           *)

\* TypeOK and JobsAccounted together are inductive.
Accounted == TypeOK /\ JobsAccounted

\* A worker holds a job, or none.
LEMMA RunningJobs ==
    ASSUME TypeOK
    PROVE  Running = {j \in Jobs : \E w \in Workers : worker[w] = j}
BY PoolAssumption DEF TypeOK, Running

LEMMA QueuedElements == Queued = Elements(jobs)
BY DEF Queued, Elements

LEMMA AccountedInit == Init => Accounted
<1> SUFFICES ASSUME Init PROVE Accounted
    OBVIOUS
<1>0. jobs = <<>> /\ ran = {} /\ worker = [w \in Workers |-> None]
  BY Zenon DEF Init
<1>1. TypeOK
  <2>1. jobs \in Seq(Jobs) /\ Len(jobs) <= QueueSize
    BY <1>0, EmptySeq, PoolAssumption
  <2>2. cancelled \in BOOLEAN /\ closed \in BOOLEAN
    BY DEF Init
  <2> QED BY <2>1, <2>2 DEF Init, TypeOK
<1>2. Running = {} /\ Queued = {} /\ ran = {}
  <2>1. Running = {}
    BY DEF Init, Running
  <2>2. jobs = <<>> /\ DOMAIN jobs = {}
    BY <1>0, EmptySeq
  <2> QED BY <1>0, <2>1, <2>2 DEF Queued
<1>3. DOMAIN jobs = {} /\ \A w \in Workers : worker[w] \notin Jobs
  BY <1>0, EmptySeq, PoolAssumption
<1>4. JobsAccounted
  BY <1>2, <1>3 DEF Init, JobsAccounted
<1> QED BY <1>1, <1>4 DEF Accounted

\* A step that moves no job.
LEMMA JobsStay ==
    ASSUME Accounted, TypeOK', Running' = Running, jobs' = jobs, ran' = ran,
           \A v, w \in Workers : worker'[v] \in Jobs /\ worker'[v] = worker'[w] => v = w,
           \A j \in Jobs : call'[j] = "accepted" <=> call[j] = "accepted"
    PROVE  Accounted'
BY DEF Accounted, JobsAccounted, Queued

\* TypeOK' from its parts: the flags by themselves.
LEMMA TypeParts ==
    ASSUME jobs' \in Seq(Jobs), Len(jobs') <= QueueSize,
           cancelled' \in BOOLEAN, closed' \in BOOLEAN,
           worker' \in [Workers -> Jobs \cup {None, "returned"}],
           call' \in [Jobs -> {"idle", "waiting", "accepted", "refused", "panicked"}],
           ran' \subseteq Jobs,
           shutdown' \in {"not called", "cancelled", "closed", "returned"}
    PROVE  TypeOK'
BY Zenon DEF TypeOK

LEMMA AccountedStep == Accounted /\ [Next]_vars => Accounted'
<1> SUFFICES ASSUME Accounted, [Next]_vars PROVE Accounted'
    OBVIOUS
<1> USE PoolAssumption
<1>t. TypeOK /\ JobsAccounted
    BY DEF Accounted
<1>d. jobs \in Seq(Jobs) /\ Distinct(jobs) /\ Queued = Elements(jobs)
    BY <1>t, QueuedElements DEF TypeOK, JobsAccounted, Distinct
<1>1. ASSUME NEW w \in Workers, leave(w) PROVE Accounted'
  <2>1. TypeOK'
    BY <1>1, <1>t DEF leave, TypeOK
  <2>2. Running' = Running
    <3>1. worker' = [worker EXCEPT ![w] = "returned"] /\ worker[w] = None
      BY <1>1 DEF leave
    <3>2. \A v \in Workers : v # w => worker'[v] = worker[v]
      BY <1>t, <3>1 DEF TypeOK
    <3>3. worker'[w] = "returned"
      BY <1>t, <3>1 DEF TypeOK
    <3> QED BY <3>1, <3>2, <3>3 DEF Running
  <2>3. \A u, v \in Workers : worker'[u] \in Jobs /\ worker'[u] = worker'[v] => u = v
    BY <1>1, <1>t DEF leave, TypeOK, JobsAccounted
  <2> QED BY <1>1, <2>1, <2>2, <2>3, JobsStay DEF leave
<1>2. ASSUME NEW w \in Workers, take(w) PROVE Accounted'
  <2> DEFINE h == Head(jobs)
  <2>1. /\ h \in Jobs /\ h \in Queued /\ jobs' \in Seq(Jobs) /\ Len(jobs') = Len(jobs) - 1
        /\ Elements(jobs') = Elements(jobs) \ {h} /\ Distinct(jobs')
    BY <1>2, <1>d, TailOf DEF take
  <2>2. worker[w] = None /\ worker' = [worker EXCEPT ![w] = h]
    BY <1>2 DEF take
  <2> HIDE DEF h
  <2>3. TypeOK'
    <3>1. cancelled' \in BOOLEAN /\ closed' \in BOOLEAN
      BY <1>2, <1>t, Zenon DEF take, TypeOK
    <3>2. Len(jobs') <= QueueSize
      <4>1. Len(jobs) \in Nat /\ Len(jobs) <= QueueSize
        BY <1>t, Zenon, LenNat DEF TypeOK
      <4>2. Len(jobs') = Len(jobs) - 1
        BY <2>1
      <4> QED BY <4>1, <4>2, PoolAssumption
    <3>3. worker' \in [Workers -> Jobs \cup {None, "returned"}]
      BY <1>t, <2>1, <2>2 DEF TypeOK
    <3> QED BY <1>2, <1>t, <2>1, <3>1, <3>2, <3>3, TypeParts DEF take, TypeOK
  <2>4. Queued' = Queued \ {h}
    BY <1>d, <2>1 DEF Queued, Elements
  <2>5. Running' = Running \cup {h}
    BY <1>t, <2>1, <2>2 DEF Running, TypeOK
  <2>6. \A u, v \in Workers : worker'[u] \in Jobs /\ worker'[u] = worker'[v] => u = v
    <3>1. h \notin Running
      BY <1>t, <2>1 DEF JobsAccounted
    <3>2. worker'[w] = h /\ \A v \in Workers : v # w => worker'[v] = worker[v]
      BY <1>t, <2>2 DEF TypeOK
    <3>3. \A v \in Workers : v # w => worker'[v] # h
      BY <1>t, <2>1, <3>1, <3>2, RunningJobs
    <3> QED BY <1>t, <2>1, <3>2, <3>3 DEF JobsAccounted
  <2>7. JobsAccounted'
    <3>1. h \notin Running /\ h \notin ran
      BY <1>t, <2>1 DEF JobsAccounted
    <3>2. call' = call /\ ran' = ran
      BY <1>2 DEF take
    <3>3. Queued' \cup Running' \cup ran' = Queued \cup Running \cup ran
      BY <2>1, <2>4, <2>5, <3>2
    <3>4. Queued' \cap Running' = {} /\ Queued' \cap ran' = {} /\ Running' \cap ran' = {}
      BY <1>t, <2>4, <2>5, <3>1, <3>2 DEF JobsAccounted
    <3> QED BY <1>t, <2>1, <2>6, <3>2, <3>3, <3>4 DEF JobsAccounted, Distinct
  <2> QED BY <2>3, <2>7 DEF Accounted
<1>3. ASSUME NEW w \in Workers, finish(w) PROVE Accounted'
  <2> DEFINE h == worker[w]
  <2>1. /\ h \in Jobs /\ ran' = ran \cup {h} /\ worker' = [worker EXCEPT ![w] = None]
        /\ UNCHANGED <<jobs, cancelled, closed, call, shutdown>>
    BY <1>3 DEF finish
  <2>2. h \in Running
    BY <1>t, <2>1, RunningJobs
  <2> HIDE DEF h
  <2>3. TypeOK'
    BY <1>t, <2>1 DEF TypeOK
  <2>4. Running' = Running \ {h}
    <3>1. worker'[w] = None /\ \A v \in Workers : v # w => worker'[v] = worker[v]
      BY <1>t, <2>1 DEF TypeOK
    <3>2. \A v \in Workers : v # w => worker[v] # h
      BY <1>t, <2>1 DEF JobsAccounted, h
    <3> QED BY <3>1, <3>2 DEF Running, h
  <2>5. Queued' = Queued
    BY <2>1 DEF Queued
  <2>6. \A u, v \in Workers : worker'[u] \in Jobs /\ worker'[u] = worker'[v] => u = v
    <3>1. \A v \in Workers : worker'[v] = worker[v] \/ worker'[v] = None
      BY <1>t, <2>1 DEF TypeOK
    <3>2. \A u, v \in Workers : worker[u] \in Jobs /\ worker[u] = worker[v] => u = v
      BY <1>t DEF JobsAccounted
    <3> QED BY <3>1, <3>2, PoolAssumption
  <2>7. JobsAccounted'
    <3>1. Queued' \cup Running' \cup ran' = Queued \cup Running \cup ran
      BY <2>1, <2>2, <2>4, <2>5
    <3>2. Queued' \cap Running' = {} /\ Queued' \cap ran' = {} /\ Running' \cap ran' = {}
      BY <1>t, <2>1, <2>2, <2>4, <2>5 DEF JobsAccounted
    <3> QED BY <1>t, <2>1, <2>6, <3>1, <3>2 DEF JobsAccounted
  <2> QED BY <2>3, <2>7 DEF Accounted
<1>4. ASSUME NEW j \in Jobs, NEW from \in {"idle", "waiting"}, send(j, from) PROVE Accounted'
  <2>1. call[j] = from
    BY <1>4 DEF send, returns
  <2>2. j \notin Queued \cup Running \cup ran
    BY <1>t, <2>1 DEF JobsAccounted
  <2>3. CASE /\ ~closed /\ room /\ returns(j, from, "accepted")
             /\ jobs' = Append(jobs, j)
    <3>1. /\ jobs' \in Seq(Jobs) /\ Len(jobs') = Len(jobs) + 1 /\ Distinct(jobs')
          /\ Elements(jobs') = Elements(jobs) \cup {j}
      BY <1>d, <2>2, <2>3, AppendOf
    <3>2. call' = [call EXCEPT ![j] = "accepted"]
          /\ UNCHANGED <<cancelled, closed, worker, ran, shutdown>>
      BY <1>4, <2>3 DEF send, returns
    <3>3. TypeOK'
      <4>1. cancelled' \in BOOLEAN /\ closed' \in BOOLEAN
        BY <1>t, <3>2, Zenon DEF TypeOK
      <4>2. Len(jobs') <= QueueSize
        <5>1. Len(jobs) \in Nat /\ Len(jobs) < QueueSize
          BY <1>d, <2>3, LenNat DEF room
        <5> QED BY <3>1, <5>1, PoolAssumption
      <4>3. call' \in [Jobs -> {"idle", "waiting", "accepted", "refused", "panicked"}]
        BY <1>t, <3>2 DEF TypeOK
      <4> QED BY <1>t, <3>1, <3>2, <4>1, <4>2, <4>3, TypeParts DEF TypeOK
    <3>4. Queued' = Queued \cup {j}
      BY <1>d, <3>1 DEF Queued, Elements
    <3>5. Running' = Running
      BY <3>2 DEF Running
    <3>6. \A i \in Jobs : call'[i] = "accepted" <=> i \in Queued' \cup Running' \cup ran'
      <4> SUFFICES ASSUME NEW i \in Jobs
                   PROVE  call'[i] = "accepted" <=> i \in Queued' \cup Running' \cup ran'
        OBVIOUS
      <4>1. call'[i] = IF i = j THEN "accepted" ELSE call[i]
        BY <1>t, <3>2 DEF TypeOK
      <4> QED BY <1>t, <3>2, <3>4, <3>5, <4>1 DEF JobsAccounted
    <3>7. Queued' \cap Running' = {} /\ Queued' \cap ran' = {} /\ Running' \cap ran' = {}
      BY <1>t, <2>2, <3>2, <3>4, <3>5 DEF JobsAccounted
    <3>8. JobsAccounted'
      BY <1>t, <3>1, <3>2, <3>6, <3>7 DEF JobsAccounted, Distinct
    <3> QED BY <3>3, <3>8 DEF Accounted
  <2>4. CASE closed /\ returns(j, from, "panicked") /\ UNCHANGED jobs
    <3>1. call' = [call EXCEPT ![j] = "panicked"]
          /\ UNCHANGED <<jobs, cancelled, closed, worker, ran, shutdown>>
      BY <1>4, <2>4 DEF send, returns
    <3>2. TypeOK'
      BY <1>t, <3>1 DEF TypeOK
    <3>3. \A i \in Jobs : call'[i] = "accepted" <=> call[i] = "accepted"
      BY <1>t, <2>1, <3>1 DEF TypeOK
    <3> QED BY <1>t, <3>1, <3>2, <3>3, JobsStay DEF Running, JobsAccounted
  <2> QED BY <1>4, <2>3, <2>4 DEF send
<1>5. ASSUME NEW j \in Jobs, NEW from \in {"idle", "waiting"}, NEW how \in {"refused", "waiting"},
             returns(j, from, how),
             UNCHANGED <<jobs, cancelled, closed, worker, ran, shutdown>>
      PROVE  Accounted'
  <2>1. TypeOK'
    BY <1>5, <1>t DEF returns, TypeOK
  <2>2. \A i \in Jobs : call'[i] = "accepted" <=> call[i] = "accepted"
    BY <1>5, <1>t DEF returns, TypeOK
  <2> QED BY <1>5, <1>t, <2>1, <2>2, JobsStay DEF Running, JobsAccounted
<1>6. ASSUME cancelParent \/ shutdownStep PROVE Accounted'
  <2>1. UNCHANGED <<jobs, worker, call, ran>>
    BY <1>6 DEF cancelParent, shutdownStep
  <2>2. TypeOK'
    BY <1>6, <1>t DEF cancelParent, shutdownStep, Shutdown, TypeOK
  <2> QED BY <1>t, <2>1, <2>2, JobsStay DEF Running, JobsAccounted
<1>7. CASE UNCHANGED vars
  <2>1. UNCHANGED <<jobs, worker, call, ran>> /\ TypeOK'
    BY <1>7, <1>t DEF vars, TypeOK
  <2> QED BY <1>t, <2>1, JobsStay DEF Running, JobsAccounted
<1>8. ASSUME NEW w \in Workers, workerStep(w) PROVE Accounted'
  BY <1>1, <1>2, <1>3, <1>8 DEF workerStep
<1>9. ASSUME NEW j \in Jobs, Submit(j) \/ wait(j) \/ SubmitWait(j) PROVE Accounted'
  BY <1>4, <1>5, <1>9 DEF Submit, wait, SubmitWait, tooLate, queueFull
<1> QED BY <1>6, <1>7, <1>8, <1>9 DEF Next

-----------------------------------------------------------------------------
\* The variables keep their types, and the queue never holds more than it was
\* made for, in whatever order Submit, the workers and Shutdown run.
THEOREM Typing == Spec => []TypeOK
<1>1. Accounted => TypeOK
  BY DEF Accounted
<1> QED BY <1>1, AccountedInit, AccountedStep, PTL DEF Spec

\* No job is lost, run twice or run without having been accepted: an accepted one
\* is in the queue, with one worker, or was run, and in only one of these.
THEOREM EveryJobOnce == Spec => []JobsAccounted
<1>1. Accounted => JobsAccounted
  BY DEF Accounted
<1> QED BY <1>1, AccountedInit, AccountedStep, PTL DEF Spec
=============================================================================
