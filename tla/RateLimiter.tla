----------------------------- MODULE RateLimiter -----------------------------
(***************************************************************************)
(* RateLimiter.Limit (http/middleware/ratelimit.go): a counter in Redis    *)
(* for each token and minute, and one for each token and day.  Requests    *)
(* run side by side; INCR and EXPIRE are two calls, either of which may    *)
(* fail, and Redis may drop a counter when it is short of memory or        *)
(* restarts.                                                               *)
(*                                                                         *)
(* The clock counts ticks of any length; each belongs to a minute and to a *)
(* date.  A request reads it for each of its two keys, and Redis executes  *)
(* the INCR of that key at any time after.                                 *)
(***************************************************************************)
EXTENDS Integers, FiniteSets

CONSTANTS
    Requests,       \* the requests that reach the middleware, each once
    Tokens,         \* the ids of token rows
    PerMinute,      \* Token.RateLimitPerMinute
    PerDay,         \* Token.RateLimitPerDay
    MinuteOf,       \* the minute of each tick
    DateOf,         \* the date of each tick, in the server's time zone
    Minute,         \* time.Minute, in ticks
    Day,            \* 24*time.Hour, in ticks
    MaxTime,        \* bound: the last tick
    MaxFaults,      \* bound: counters that Redis fails on, or loses
    None

\* What the theorems assume of the constants.
LimitConstants ==
    /\ PerMinute \in Nat /\ PerDay \in Nat
    /\ MaxTime \in Nat /\ MaxFaults \in Nat
    /\ Minute \in Nat /\ Day \in Nat
    /\ MinuteOf \in [0..MaxTime -> 0..MaxTime] /\ DateOf \in [0..MaxTime -> 0..MaxTime]
    /\ \A t, u \in 0..MaxTime :
           t <= u => MinuteOf[t] <= MinuteOf[u] /\ DateOf[t] <= DateOf[u]
    /\ None \notin Nat \cup Tokens
    /\ None \notin [token : Tokens, span : {"minute", "day"}, n : 0..MaxTime]
    /\ IsFiniteSet(Requests)

VARIABLES
    now,            \* time.Now()
    at,             \* where each request is
    token,          \* the token in its context
    key,            \* the counters it chose, by span
    seen,           \* what INCR answered, by span; 0 without an answer
    count,          \* Redis: the value of each counter, 0 when absent
    expires,        \* Redis: when each counter expires, or None
    failed,         \* history: counters of which some command failed
    repeated,       \* history: counters that counted one request twice
    late,           \* history: counters that began after their window's end
    dropped         \* history: counters that Redis lost

requests == <<at, token, key, seen>>
history == <<failed, repeated, late, dropped>>
redis == <<count, expires, history>>
vars == <<now, requests, redis>>

Span == {"minute", "day"}
Window == [token : Tokens, span : Span, n : 0..MaxTime]

\* Redis has not failed on, or lost, too many counters for the bound.
mayFail == Cardinality(failed) + Cardinality(dropped) < MaxFaults

-----------------------------------------------------------------------------
(* Keys and limits                                                         *)

\* The window of the time t.
windowAt(span, t) == IF span = "minute" THEN MinuteOf[t] ELSE DateOf[t]

minuteKey(t) == [token |-> t, span |-> "minute", n |-> windowAt("minute", now)]
dayKey(t) == [token |-> t, span |-> "day", n |-> windowAt("day", now)]

keyOf(t, span) == IF span = "minute" THEN minuteKey(t) ELSE dayKey(t)

isOver(w) == w.n < windowAt(w.span, now)

limitOf(span) == IF span = "minute" THEN PerMinute ELSE PerDay

\* Faulty variant: both counters live for a minute.
timeToLiveShort(span) == Minute
timeToLive(span) == IF span = "minute" THEN Minute ELSE Day

\* Faulty variant: the last request that the limit allows is refused.
exceedsEarly(span, n) == n >= limitOf(span)
exceeds(span, n) == n > limitOf(span)

refusal(span) == IF span = "minute" THEN "refused minute" ELSE "refused day"
expiring(span) == IF span = "minute" THEN "expire minute" ELSE "expire day"

\* Where a request goes that saw the value n.
decide(span, n) ==
    IF exceeds(span, n) THEN refusal(span)
    ELSE IF span = "minute" THEN "day key" ELSE "passed"

-----------------------------------------------------------------------------
(* The middleware                                                          *)

NoKey == [span \in Span |-> None]
NothingSeen == [span \in Span |-> 0]

Init ==
    /\ now = 0
    /\ at = [r \in Requests |-> "idle"]
    /\ token = [r \in Requests |-> None]
    /\ key = [r \in Requests |-> NoKey]
    /\ seen = [r \in Requests |-> NothingSeen]
    /\ count = [w \in Window |-> 0]
    /\ expires = [w \in Window |-> None]
    /\ failed = {} /\ repeated = {} /\ late = {} /\ dropped = {}

\* The clock is read for the key: r is about to send INCR.
choose(r, t, span) ==
    /\ at' = [at EXCEPT ![r] = span]
    /\ key' = [key EXCEPT ![r][span] = keyOf(t, span)]

\* A request arrives with the token t in its context.
arrive(r, t) ==
    /\ at[r] = "idle"
    /\ token' = [token EXCEPT ![r] = t]
    /\ choose(r, t, "minute")
    /\ UNCHANGED <<seen, redis>>

chooseDay(r) ==
    /\ at[r] = "day key"
    /\ choose(r, token[r], "day")
    /\ UNCHANGED <<token, seen, redis>>

\* Without a token in the context nothing is counted.
letThrough(r) ==
    /\ at[r] = "idle"
    /\ at' = [at EXCEPT ![r] = "passed"]
    /\ UNCHANGED <<token, key, seen, redis>>

\* r learns that its counter is n, or 0 if Redis did not answer.
learn(r, span, n, place) ==
    /\ at' = [at EXCEPT ![r] = place]
    /\ seen' = [seen EXCEPT ![r][span] = n]

\* Faulty variant: only the counter of the minute gets a time to live.
afterFirstMinute(span, n) ==
    IF n = 1 /\ span = "minute" THEN expiring(span) ELSE decide(span, n)
\* The request that creates a counter gives it a time to live.
afterFirst(span, n) == IF n = 1 THEN expiring(span) ELSE decide(span, n)

\* INCR, which creates the counter if there is none, or none any more.
increment(w) ==
    /\ count' = [count EXCEPT ![w] = @ + 1]
    /\ late' = IF count[w] = 0 /\ isOver(w) THEN late \cup {w} ELSE late
    /\ UNCHANGED <<expires, dropped>>

\* Redis counts, and answers.
incrAnswered(r, w) ==
    /\ increment(w)
    /\ learn(r, w.span, count[w] + 1, afterFirst(w.span, count[w] + 1))
    /\ UNCHANGED <<failed, repeated>>

\* Redis does not answer; it may have counted.  The count is then 0.
incrFailed(r, w) ==
    /\ mayFail
    /\ increment(w) \/ UNCHANGED <<count, expires, late, dropped>>
    /\ learn(r, w.span, 0, decide(w.span, 0))
    /\ failed' = failed \cup {w}
    /\ UNCHANGED repeated

\* Redis counts but its answer is lost, and the client library sends INCR again.
incrRepeated(w) ==
    /\ mayFail
    /\ increment(w)
    /\ failed' = failed \cup {w} /\ repeated' = repeated \cup {w}
    /\ UNCHANGED <<at, seen>>

incr(r, span) ==
    /\ at[r] = span
    /\ LET w == key[r][span]
       IN  incrAnswered(r, w) \/ incrFailed(r, w) \/ incrRepeated(w)
    /\ UNCHANGED <<token, key>>

incrMinute(r) == incr(r, "minute")
incrDay(r) == incr(r, "day")

\* EXPIRE, by the request that created the counter: without effect if the
\* command fails or the counter is gone.
expire(r, span) ==
    /\ at[r] = expiring(span)
    /\ LET w == key[r][span]
       IN  \/ /\ expires' = IF count[w] = 0 THEN expires
                            ELSE [expires EXCEPT ![w] = now + timeToLive(span)]
              /\ UNCHANGED failed
           \/ /\ mayFail
              /\ failed' = failed \cup {w}
              /\ UNCHANGED expires
    /\ at' = [at EXCEPT ![r] = decide(span, seen[r][span])]
    /\ UNCHANGED <<token, key, seen, count, repeated, late, dropped>>

expireMinute(r) == expire(r, "minute")
expireDay(r) == expire(r, "day")

\* Time passes, and the counters whose time has come are gone.
tick ==
    /\ now < MaxTime
    /\ now' = now + 1
    /\ LET over == {w \in Window : expires[w] # None /\ expires[w] <= now'}
       IN  /\ count' = [w \in Window |-> IF w \in over THEN 0 ELSE count[w]]
           /\ expires' = [w \in Window |-> IF w \in over THEN None ELSE expires[w]]
    /\ UNCHANGED <<requests, history>>

\* Redis drops a counter: memory is short, or it restarted without its data.
drop(w) ==
    /\ mayFail /\ count[w] > 0
    /\ count' = [count EXCEPT ![w] = 0]
    /\ expires' = [expires EXCEPT ![w] = None]
    /\ dropped' = dropped \cup {w}
    /\ UNCHANGED <<requests, failed, repeated, late>>

Limit(r) ==
    incrMinute(r) \/ expireMinute(r) \/ chooseDay(r) \/ incrDay(r) \/ expireDay(r)

Next ==
    \/ /\ \/ \E r \in Requests : Limit(r) \/ \E t \in Tokens : arrive(r, t)
          \/ \E w \in Window : drop(w)
       /\ UNCHANGED now
    \/ tick

Spec == Init /\ [][Next]_vars

-----------------------------------------------------------------------------
(* Properties                                                              *)

TypeOK ==
    /\ now \in 0..MaxTime
    /\ at \in [Requests -> {"idle", "minute", "expire minute", "day key", "day",
                            "expire day", "passed", "refused minute",
                            "refused day"}]
    /\ token \in [Requests -> Tokens \cup {None}]
    /\ \A r \in Requests : at[r] # "idle" => token[r] # None
    /\ key \in [Requests -> [Span -> Window \cup {None}]]
    /\ seen \in [Requests -> [Span -> Nat]]
    /\ count \in [Window -> Nat]
    /\ expires \in [Window -> Nat \cup {None}]
    /\ failed \subseteq Window /\ repeated \subseteq Window
    /\ late \subseteq Window /\ dropped \subseteq Window

\* The requests that Redis counted in window w, answered, and that were served.
served(w) ==
    {r \in Requests : /\ at[r] = "passed"
                      /\ key[r][w.span] = w /\ seen[r][w.span] > 0}

lengthOf(span) == IF span = "minute" THEN Minute ELSE Day

\* Window w is not longer than a minute, or than 24 hours: every window is but
\* the day of 25 hours when summer time ends.
ordinary(w) ==
    \A t, u \in 0..MaxTime :
        windowAt(w.span, t) = w.n /\ windowAt(w.span, u) = w.n => u - t < lengthOf(w.span)

\* However requests interleave, whenever Redis executes a command, whether it
\* answers others or not, and whatever becomes of EXPIRE: no more requests of a
\* token are served in a minute or a day than its limit allows.  The code does
\* not promise it for requests that Redis did not answer, and for a counter that
\* starts anew: Redis lost it, an INCR came when the window was over and the
\* counter had expired, or it expired before the end of a long day.
WithinLimit ==
    \A w \in Window \ (dropped \cup late) :
        ordinary(w) => Cardinality(served(w)) <= limitOf(w.span)

\* The other requests that were let through the check of window w.
admittedBesides(r, w) ==
    {q \in Requests \ {r} : key[q][w.span] = w /\ at[q] \notin {w.span, refusal(w.span)}}

\* A request is refused only when the limit is used up: at least as many others
\* of the same token and window as it allows got through the same check.  An
\* INCR that is sent again may have counted one request twice.
NoFalseRefusal ==
    \A r \in Requests, span \in Span :
        at[r] = refusal(span) /\ key[r][span] \notin repeated =>
            Cardinality(admittedBesides(r, key[r][span])) >= limitOf(span)

\* A counter stays for ever only if a command failed on it: otherwise it has a
\* time to live, or the request that created it is about to give it one.
CountersExpire ==
    \A w \in Window \ failed : count[w] > 0 /\ expires[w] = None =>
        \E r \in Requests : at[r] = expiring(w.span) /\ key[r][w.span] = w
=============================================================================
