------------------------- MODULE RateLimiterProofs -------------------------
(* What the rate limiter guarantees for any limits, any calendar, any       *)
(* number of tokens, requests and failures.                                 *)
EXTENDS RateLimiter, TLAPS, FiniteSetTheorems

-----------------------------------------------------------------------------
(* Windows                                                                 *)

\* The number of the window that it is now.
current(span) == windowAt(span, now)

\* Windows are numbered in the order of time.
LEMMA Windows ==
    ASSUME LimitConstants, NEW span \in Span, NEW a \in 0..MaxTime, NEW b \in 0..MaxTime
    PROVE  /\ windowAt(span, a) \in 0..MaxTime /\ windowAt(span, a) \in Nat
           /\ a <= b => windowAt(span, a) <= windowAt(span, b)
<1>1. /\ MinuteOf \in [0..MaxTime -> 0..MaxTime] /\ DateOf \in [0..MaxTime -> 0..MaxTime]
      /\ a <= b => MinuteOf[a] <= MinuteOf[b] /\ DateOf[a] <= DateOf[b]
      /\ MaxTime \in Nat
  BY DEF LimitConstants
<1>2. windowAt(span, a) \in 0..MaxTime
  BY <1>1 DEF windowAt
<1>3. a <= b => windowAt(span, a) <= windowAt(span, b)
  BY <1>1 DEF windowAt
<1> QED BY <1>1, <1>2, <1>3

LEMMA Clock ==
    ASSUME LimitConstants, TypeOK
    PROVE  /\ now \in 0..MaxTime /\ now \in Nat
           /\ \A span \in Span : current(span) \in 0..MaxTime /\ current(span) \in Nat
<1>1. now \in 0..MaxTime
  BY DEF TypeOK
<1>2. MaxTime \in Nat
  BY DEF LimitConstants
<1>3. \A span \in Span : windowAt(span, now) \in 0..MaxTime /\ windowAt(span, now) \in Nat
  BY <1>1, Windows
<1> QED BY <1>1, <1>2, <1>3 DEF current

LEMMA Lives ==
    ASSUME LimitConstants
    PROVE  \A span \in Span : timeToLive(span) \in Nat /\ lengthOf(span) = timeToLive(span)
BY DEF LimitConstants, timeToLive, lengthOf

LEMMA Names ==
    /\ Span = {"minute", "day"}
    /\ \A span \in Span :
        /\ expiring(span) \in {"expire minute", "expire day"}
        /\ refusal(span) \in {"refused minute", "refused day"}
        /\ \A n : decide(span, n) \in {refusal(span), "day key", "passed"}
    /\ \A s, t \in Span : /\ expiring(s) = expiring(t) => s = t
                          /\ refusal(s) = refusal(t) => s = t
BY DEF Span, expiring, refusal, decide

LEMMA NoneIsNoWindow == LimitConstants => None \notin Window /\ None \notin Nat
BY DEF LimitConstants, Window, Span

-----------------------------------------------------------------------------
(* Types, and which window a request is in                                 *)

Places == {"idle", "minute", "expire minute", "day key", "day", "expire day",
           "passed", "refused minute", "refused day"}

\* A request keeps the counters it chose, of their span, and never one of a
\* window to come.
KeyHeld ==
    \A r \in Requests, span \in Span :
        /\ at[r] \in {span, expiring(span)} => key[r][span] # None
        /\ key[r][span] # None => key[r][span].span = span /\ key[r][span].n <= current(span)

Typed == TypeOK /\ KeyHeld

\* The counter that a request chooses is that of its token and of the window
\* that it is in.
LEMMA Chosen ==
    ASSUME LimitConstants, TypeOK, NEW r \in Requests, NEW t \in Tokens,
           NEW span \in Span, choose(r, t, span)
    PROVE  \E w \in Window :
             /\ w.span = span /\ w.n = current(span)
             /\ at' \in [Requests -> Places]
             /\ key' \in [Requests -> [Span -> Window \cup {None}]]
             /\ at'[r] = span /\ key'[r][span] = w
             /\ \A s \in Span : s # span => key'[r][s] = key[r][s]
             /\ \A q \in Requests : q # r => at'[q] = at[q] /\ key'[q] = key[q]
<1> DEFINE w == keyOf(t, span)
<1>1. current(span) \in 0..MaxTime
  BY Clock
<1>2. w = [token |-> t, span |-> span, n |-> current(span)]
  BY DEF keyOf, minuteKey, dayKey, current, Span
<1>3. w \in Window /\ w.span = span /\ w.n = current(span)
  BY <1>1, <1>2 DEF Window, Span
<1>4. /\ at' = [at EXCEPT ![r] = span]
      /\ key' = [key EXCEPT ![r] = [key[r] EXCEPT ![span] = w]]
  BY DEF choose
<1> HIDE DEF w
<1>5. at \in [Requests -> Places] /\ key \in [Requests -> [Span -> Window \cup {None}]]
  BY DEF TypeOK, Places
<1>6. /\ at' \in [Requests -> Places] /\ at'[r] = span
      /\ \A q \in Requests : q # r => at'[q] = at[q]
  BY <1>4, <1>5 DEF Places, Span
<1>7. /\ key' \in [Requests -> [Span -> Window \cup {None}]] /\ key'[r][span] = w
      /\ \A s \in Span : s # span => key'[r][s] = key[r][s]
      /\ \A q \in Requests : q # r => key'[q] = key[q]
  BY <1>3, <1>4, <1>5
<1> QED BY <1>3, <1>6, <1>7

\* What an answer of Redis, or none, tells a request.
LEMMA Learned ==
    ASSUME TypeOK, NEW r \in Requests, NEW span \in Span, NEW n \in Nat,
           NEW place \in Places, learn(r, span, n, place)
    PROVE  /\ at' \in [Requests -> Places] /\ seen' \in [Requests -> [Span -> Nat]]
           /\ at'[r] = place /\ seen'[r][span] = n
           /\ \A s \in Span : s # span => seen'[r][s] = seen[r][s]
           /\ \A q \in Requests : q # r => at'[q] = at[q] /\ seen'[q] = seen[q]
<1>1. at \in [Requests -> Places] /\ seen \in [Requests -> [Span -> Nat]]
  BY DEF TypeOK, Places
<1>2. at' = [at EXCEPT ![r] = place]
  BY DEF learn
<1>3. seen' = [seen EXCEPT ![r] = [seen[r] EXCEPT ![span] = n]]
  BY DEF learn
<1>4. /\ at' \in [Requests -> Places] /\ at'[r] = place
      /\ \A q \in Requests : q # r => at'[q] = at[q]
  BY <1>1, <1>2
<1>5. /\ seen' \in [Requests -> [Span -> Nat]] /\ seen'[r][span] = n
      /\ \A s \in Span : s # span => seen'[r][s] = seen[r][s]
      /\ \A q \in Requests : q # r => seen'[q] = seen[q]
  BY <1>1, <1>3
<1> QED BY <1>4, <1>5

\* One more in a counter: it is late if it begins when its window is over.
LEMMA Counting ==
    ASSUME LimitConstants, TypeOK, NEW w \in Window, w.n <= current(w.span), increment(w)
    PROVE  /\ count' = [count EXCEPT ![w] = count[w] + 1]
           /\ late \subseteq late' /\ late' \subseteq Window
           /\ w \in late' \/ count[w] > 0 \/ w.n = current(w.span)
           /\ UNCHANGED <<expires, dropped>>
<1>1. /\ count' = [count EXCEPT ![w] = count[w] + 1]
      /\ late' = IF count[w] = 0 /\ isOver(w) THEN late \cup {w} ELSE late
      /\ UNCHANGED <<expires, dropped>>
  BY DEF increment
<1>2. w.span \in Span /\ w.n \in 0..MaxTime
  BY DEF Window
<1>3. current(w.span) \in Nat /\ w.n \in Nat /\ count[w] \in Nat /\ late \subseteq Window
  <2>1. current(w.span) \in Nat
    BY <1>2, Clock
  <2>2. MaxTime \in Nat
    BY DEF LimitConstants
  <2>3. count \in [Window -> Nat] /\ late \subseteq Window
    BY DEF TypeOK
  <2>4. w.n \in Nat
    BY <1>2, <2>2
  <2> QED BY <2>1, <2>3, <2>4
<1>4. isOver(w) \/ w.n = current(w.span)
  BY <1>3 DEF isOver, current
<1> QED BY <1>1, <1>3, <1>4

\* The ways an INCR can end: what the request learns, what the counter is, and
\* which histories it changes.  n is what the request has learned since it came,
\* m the new value of the counter v.
LEMMA Incremented ==
    ASSUME LimitConstants, Typed, NEW r \in Requests, NEW span \in Span, incr(r, span)
    PROVE  \E v \in Window, n \in Nat, m \in Nat, place \in Places :
             /\ v = key[r][span] /\ v.span = span /\ v.n <= current(span) /\ at[r] = span
             /\ at' \in [Requests -> Places] /\ seen' \in [Requests -> [Span -> Nat]]
             /\ at'[r] = place /\ seen'[r][span] = n
             /\ \A s \in Span : s # span => seen'[r][s] = seen[r][s]
             /\ \A q \in Requests : q # r => at'[q] = at[q] /\ seen'[q] = seen[q]
             /\ count' = [count EXCEPT ![v] = m]
             /\ \/ m = count[v]
                \/ m = count[v] + 1 /\ (v \in late' \/ count[v] > 0 \/ v.n = current(span))
             /\ late \subseteq late' /\ late' \subseteq Window
             /\ \/ /\ n = count[v] + 1 /\ m = n /\ failed' = failed /\ repeated' = repeated
                   /\ place = afterFirst(span, n)
                \/ /\ n = 0 /\ failed' = failed \cup {v} /\ repeated' = repeated
                   /\ place = afterFirst(span, n)
                \/ /\ n = seen[r][span]
                   /\ failed' = failed \cup {v} /\ repeated' = repeated \cup {v}
                   /\ place = span
             /\ UNCHANGED <<token, key, expires, dropped>>
<1> DEFINE v == key[r][span]
<1>t. TypeOK
  BY DEF Typed
<1>1. at[r] = span /\ UNCHANGED <<token, key>>
  BY DEF incr
<1>2. v # None /\ v.span = span /\ v.n <= current(span)
  BY <1>1 DEF Typed, KeyHeld
<1>3. v \in Window
  <2>1. key \in [Requests -> [Span -> Window \cup {None}]]
    BY <1>t DEF TypeOK
  <2> QED BY <1>2, <2>1
<1>4. incrAnswered(r, v) \/ incrFailed(r, v) \/ incrRepeated(v)
  BY DEF incr
<1> HIDE DEF v
<1>w. v = key[r][span]
  BY DEF v
<1>5. count \in [Window -> Nat] /\ count[v] \in Nat /\ late \subseteq Window
  BY <1>t, <1>3 DEF TypeOK
<1>6. \A n : afterFirst(span, n) \in Places /\ decide(span, n) \in Places
  BY DEF afterFirst, Places, decide, expiring, refusal
<1>7. ASSUME increment(v)
      PROVE  /\ count' = [count EXCEPT ![v] = count[v] + 1]
             /\ late \subseteq late' /\ late' \subseteq Window
             /\ v \in late' \/ count[v] > 0 \/ v.n = current(span)
             /\ UNCHANGED <<expires, dropped>>
  BY <1>2, <1>3, <1>7, <1>t, Counting
<1>8. CASE incrAnswered(r, v)
  <2> DEFINE n == count[v] + 1
  <2>1. /\ increment(v) /\ learn(r, span, n, afterFirst(span, n))
        /\ UNCHANGED <<failed, repeated>>
    BY <1>2, <1>8 DEF incrAnswered
  <2>2. n \in Nat
    BY <1>5
  <2>3. /\ count' = [count EXCEPT ![v] = n]
        /\ late \subseteq late' /\ late' \subseteq Window
        /\ v \in late' \/ count[v] > 0 \/ v.n = current(span)
        /\ UNCHANGED <<expires, dropped>>
    BY <1>7, <2>1
  <2> HIDE DEF n
  <2>4. n = count[v] + 1
    BY DEF n
  <2>5. /\ at' \in [Requests -> Places] /\ seen' \in [Requests -> [Span -> Nat]]
        /\ at'[r] = afterFirst(span, n) /\ seen'[r][span] = n
        /\ \A s \in Span : s # span => seen'[r][s] = seen[r][s]
        /\ \A q \in Requests : q # r => at'[q] = at[q] /\ seen'[q] = seen[q]
    <3>1. afterFirst(span, n) \in Places
      BY <1>6
    <3> QED BY <1>t, <2>1, <2>2, <3>1, Learned
  <2> QED BY <1>1, <1>2, <1>3, <1>6, <1>w, <2>1, <2>2, <2>3, <2>4, <2>5
<1>9. CASE incrFailed(r, v)
  <2>1. /\ learn(r, span, 0, decide(span, 0))
        /\ failed' = failed \cup {v} /\ repeated' = repeated
        /\ increment(v) \/ UNCHANGED <<count, expires, late, dropped>>
    BY <1>2, <1>9 DEF incrFailed
  <2>2. decide(span, 0) = afterFirst(span, 0) /\ 0 \in Nat
    BY DEF afterFirst
  <2>3. PICK m \in Nat :
           /\ count' = [count EXCEPT ![v] = m]
           /\ \/ m = count[v]
              \/ m = count[v] + 1 /\ (v \in late' \/ count[v] > 0 \/ v.n = current(span))
           /\ late \subseteq late' /\ late' \subseteq Window
           /\ UNCHANGED <<expires, dropped>>
    <3>1. CASE increment(v)
      <4>1. count[v] + 1 \in Nat
        BY <1>5
      <4> QED BY <1>7, <3>1, <4>1
    <3>2. CASE UNCHANGED <<count, expires, late, dropped>>
      <4>1. count' = [count EXCEPT ![v] = count[v]]
        BY <1>3, <1>5, <3>2
      <4> QED BY <1>5, <3>2, <4>1
    <3> QED BY <2>1, <3>1, <3>2
  <2>4. /\ at' \in [Requests -> Places] /\ seen' \in [Requests -> [Span -> Nat]]
        /\ at'[r] = afterFirst(span, 0) /\ seen'[r][span] = 0
        /\ \A s \in Span : s # span => seen'[r][s] = seen[r][s]
        /\ \A q \in Requests : q # r => at'[q] = at[q] /\ seen'[q] = seen[q]
    <3>1. afterFirst(span, 0) \in Places
      BY <1>6
    <3> QED BY <1>t, <2>1, <2>2, <3>1, Learned
  <2> QED BY <1>1, <1>2, <1>3, <1>6, <1>w, <2>1, <2>2, <2>3, <2>4
<1>10. CASE incrRepeated(v)
  <2>1. /\ increment(v) /\ failed' = failed \cup {v} /\ repeated' = repeated \cup {v}
        /\ UNCHANGED <<at, seen>>
    BY <1>10 DEF incrRepeated
  <2>2. at \in [Requests -> Places] /\ seen \in [Requests -> [Span -> Nat]]
    BY <1>t DEF TypeOK, Places
  <2>3. /\ at' \in [Requests -> Places] /\ seen' \in [Requests -> [Span -> Nat]]
        /\ at'[r] = span /\ span \in Places /\ seen'[r][span] = seen[r][span]
        /\ seen[r][span] \in Nat /\ count[v] + 1 \in Nat
    BY <1>1, <1>5, <2>1, <2>2
  <2>4. /\ \A s \in Span : s # span => seen'[r][s] = seen[r][s]
        /\ \A q \in Requests : q # r => at'[q] = at[q] /\ seen'[q] = seen[q]
    BY <2>1
  <2>5. /\ count' = [count EXCEPT ![v] = count[v] + 1]
        /\ late \subseteq late' /\ late' \subseteq Window
        /\ v \in late' \/ count[v] > 0 \/ v.n = current(span)
        /\ UNCHANGED <<expires, dropped>>
    BY <1>7, <2>1
  <2> DEFINE n == seen[r][span]
             m == count[v] + 1
  <2>6. /\ n \in Nat /\ m \in Nat /\ n = seen[r][span] /\ m = count[v] + 1
        /\ seen'[r][span] = n /\ count' = [count EXCEPT ![v] = m]
    BY <2>3, <2>5
  <2> HIDE DEF n, m
  <2> QED BY <1>1, <1>2, <1>3, <1>w, <2>1, <2>3, <2>4, <2>5, <2>6
<1> QED BY <1>4, <1>8, <1>9, <1>10

LEMMA TypedInit == LimitConstants /\ Init => Typed
<1> SUFFICES ASSUME LimitConstants, Init PROVE Typed
  OBVIOUS
<1>1. 0 \in 0..MaxTime
  BY DEF LimitConstants
<1>2. TypeOK
  BY <1>1 DEF Init, TypeOK, NoKey, NothingSeen
<1>3. KeyHeld
  BY Names DEF Init, KeyHeld, NoKey
<1> QED BY <1>2, <1>3 DEF Typed

\* The step of Limit that EXPIRE ends, whether it had an effect or not.
LEMMA Expiring ==
    ASSUME LimitConstants, Typed, NEW r \in Requests, NEW span \in Span, expire(r, span)
    PROVE  /\ at[r] = expiring(span)
           /\ key[r][span] \in Window /\ key[r][span].span = span
           /\ key[r][span].n <= current(span)
           /\ at' = [at EXCEPT ![r] = decide(span, seen[r][span])]
           /\ decide(span, seen[r][span]) \in Places
           /\ \/ expires' = expires /\ (count[key[r][span]] = 0 \/ key[r][span] \in failed')
              \/ /\ expires' = [expires EXCEPT ![key[r][span]] = now + timeToLive(span)]
                 /\ failed' = failed
           /\ failed' \in {failed, failed \cup {key[r][span]}}
           /\ UNCHANGED <<token, key, seen, count, repeated, late, dropped>>
<1> DEFINE w == key[r][span]
<1>1. at[r] = expiring(span)
  BY DEF expire
<1>2. w # None /\ w.span = span /\ w.n <= current(span)
  BY <1>1 DEF Typed, KeyHeld
<1>3. w \in Window
  <2>1. key \in [Requests -> [Span -> Window \cup {None}]]
    BY DEF Typed, TypeOK
  <2> QED BY <1>2, <2>1
<1>4. /\ at' = [at EXCEPT ![r] = decide(span, seen[r][span])]
      /\ UNCHANGED <<token, key, seen, count, repeated, late, dropped>>
  BY DEF expire
<1>5. decide(span, seen[r][span]) \in Places
  BY DEF Places, decide, refusal
<1>6. \/ /\ expires' = IF count[w] = 0 THEN expires
                       ELSE [expires EXCEPT ![w] = now + timeToLive(span)]
         /\ failed' = failed
      \/ failed' = failed \cup {w} /\ expires' = expires
  BY DEF expire
<1>7. \/ expires' = expires /\ (count[w] = 0 \/ w \in failed')
      \/ expires' = [expires EXCEPT ![w] = now + timeToLive(span)] /\ failed' = failed
  BY <1>6
<1>8. failed' \in {failed, failed \cup {w}}
  BY <1>6
<1> QED BY <1>1, <1>2, <1>3, <1>4, <1>5, <1>7, <1>8

\* What a tick does to each counter.
LEMMA Ticking ==
    ASSUME LimitConstants, TypeOK, tick
    PROVE  /\ now' = now + 1 /\ now' \in 0..MaxTime
           /\ count' \in [Window -> Nat] /\ expires' \in [Window -> Nat \cup {None}]
           /\ \A w \in Window :
                \/ count'[w] = count[w] /\ expires'[w] = expires[w]
                \/ /\ expires[w] \in Nat /\ expires[w] <= now'
                   /\ count'[w] = 0 /\ expires'[w] = None
           /\ UNCHANGED <<at, token, key, seen, failed, repeated, late, dropped>>
<1> DEFINE over == {w \in Window : expires[w] # None /\ expires[w] <= now'}
<1>1. /\ now < MaxTime /\ now' = now + 1
      /\ count' = [w \in Window |-> IF w \in over THEN 0 ELSE count[w]]
      /\ expires' = [w \in Window |-> IF w \in over THEN None ELSE expires[w]]
      /\ UNCHANGED <<at, token, key, seen, failed, repeated, late, dropped>>
  BY DEF tick, requests, history
<1>2. /\ now \in 0..MaxTime
      /\ count \in [Window -> Nat] /\ expires \in [Window -> Nat \cup {None}]
  BY DEF TypeOK
<1>3. now' \in 0..MaxTime
  <2>1. MaxTime \in Nat
    BY DEF LimitConstants
  <2> QED BY <1>1, <1>2, <2>1
<1>4. ASSUME NEW w \in Window
      PROVE  \/ count'[w] = count[w] /\ expires'[w] = expires[w]
             \/ /\ expires[w] \in Nat /\ expires[w] <= now'
                /\ count'[w] = 0 /\ expires'[w] = None
  BY <1>1, <1>2
<1>5. count' \in [Window -> Nat] /\ expires' \in [Window -> Nat \cup {None}]
  BY <1>1, <1>2
<1> QED BY <1>1, <1>3, <1>4, <1>5

\* Time moves on, and so do the windows.
LEMMA CurrentMoves ==
    ASSUME LimitConstants, TypeOK, tick, NEW span \in Span
    PROVE  current(span) <= current(span)' /\ current(span) \in Nat /\ current(span)' \in Nat
<1>1. now \in 0..MaxTime /\ now' \in 0..MaxTime /\ now <= now'
  <2>1. now \in Nat /\ now \in 0..MaxTime
    BY Clock
  <2> QED BY <2>1, Ticking
<1>2. ASSUME NEW t, t = now', t \in 0..MaxTime
      PROVE  /\ windowAt(span, now) <= windowAt(span, t)
             /\ windowAt(span, now) \in Nat /\ windowAt(span, t) \in Nat
  BY <1>1, <1>2, Windows
<1>3. windowAt(span, now') = current(span)'
  BY DEF current, windowAt
<1> QED BY <1>1, <1>2, <1>3 DEF current

LEMMA TypedStep == LimitConstants /\ Typed /\ [Next]_vars => Typed'
<1> SUFFICES ASSUME LimitConstants, Typed, [Next]_vars PROVE Typed'
  OBVIOUS
<1>t. TypeOK /\ KeyHeld
  BY DEF Typed
<1>c. ASSUME now' = now PROVE \A s : current(s)' = current(s)
  BY <1>c DEF current, windowAt
\* The clock is read for the counter of span.
<1>0. ASSUME NEW r \in Requests, NEW span \in Span, NEW t \in Tokens, choose(r, t, span),
             token' \in [Requests -> Tokens \cup {None}], token'[r] # None,
             \A q \in Requests : q # r => token'[q] = token[q],
             UNCHANGED <<seen, redis>>, now' = now
      PROVE  Typed'
  <2>1. PICK w \in Window :
             /\ w.span = span /\ w.n = current(span)
             /\ at' \in [Requests -> Places]
             /\ key' \in [Requests -> [Span -> Window \cup {None}]]
             /\ at'[r] = span /\ key'[r][span] = w
             /\ \A s \in Span : s # span => key'[r][s] = key[r][s]
             /\ \A q \in Requests : q # r => at'[q] = at[q] /\ key'[q] = key[q]
    BY <1>0, <1>t, Chosen
  <2>2. TypeOK'
    <3>1. \A q \in Requests : at'[q] # "idle" => token'[q] # None
      BY <1>0, <1>t, <2>1 DEF TypeOK
    <3> QED BY <1>0, <1>t, <2>1, <3>1 DEF TypeOK, Places, redis, history
  <2>3. KeyHeld'
    <3> SUFFICES ASSUME NEW q \in Requests, NEW s \in Span
                 PROVE  /\ at'[q] \in {s, expiring(s)} => key'[q][s] # None
                        /\ key'[q][s] # None =>
                             key'[q][s].span = s /\ key'[q][s].n <= current(s)'
      BY DEF KeyHeld, expiring
    <3>1. current(s)' = current(s) /\ current(s) \in Nat
      BY <1>0, <1>c, <1>t, Clock
    <3>2. CASE q = r /\ s = span
      BY <2>1, <3>1, <3>2, NoneIsNoWindow
    <3>3. CASE q = r /\ s # span
      <4>1. at'[q] \notin {s, expiring(s)} /\ key'[q][s] = key[q][s]
        BY <2>1, <3>3 DEF expiring, Span
      <4> QED BY <1>t, <3>1, <4>1 DEF KeyHeld
    <3>4. CASE q # r
      BY <1>t, <2>1, <3>1, <3>4 DEF KeyHeld
    <3> QED BY <3>2, <3>3, <3>4
  <2> QED BY <2>2, <2>3 DEF Typed
<1>1. ASSUME NEW r \in Requests, NEW span \in Span, incr(r, span), now' = now PROVE Typed'
  <2>1. PICK v \in Window, n \in Nat, m \in Nat, place \in Places :
             /\ v = key[r][span] /\ at[r] = span
             /\ at' \in [Requests -> Places] /\ seen' \in [Requests -> [Span -> Nat]]
             /\ at'[r] = place
             /\ \A q \in Requests : q # r => at'[q] = at[q]
             /\ count' = [count EXCEPT ![v] = m]
             /\ late' \subseteq Window
             /\ failed' \in {failed, failed \cup {v}} /\ repeated' \in {repeated, repeated \cup {v}}
             /\ place \in {span, afterFirst(span, n)}
             /\ UNCHANGED <<token, key, expires, dropped>>
    BY <1>1, Incremented
  <2>2. \A s \in Span : place \in {s, expiring(s)} => s = span
    <3>1. place \in {span, expiring(span), refusal(span), "day key", "passed"}
      <4>1. afterFirst(span, n) \in {expiring(span), refusal(span), "day key", "passed"}
        BY DEF afterFirst, decide
      <4> QED BY <2>1, <4>1
    <3>2. \A s \in Span : /\ s \notin {refusal(span), expiring(span), "day key", "passed"}
                          /\ expiring(s) \notin {span, refusal(span), "day key", "passed"}
      BY DEF expiring, refusal, Span
    <3>3. \A s \in Span : expiring(s) = expiring(span) => s = span
      BY Names
    <3> QED BY <3>1, <3>2, <3>3
  <2>3. TypeOK'
    <3>1. \A q \in Requests : at'[q] # "idle" => token'[q] # None
      BY <1>t, <2>1 DEF TypeOK, Span
    <3>2. count' \in [Window -> Nat] /\ failed' \subseteq Window /\ repeated' \subseteq Window
      BY <1>t, <2>1 DEF TypeOK
    <3> QED BY <1>1, <1>t, <2>1, <3>1, <3>2 DEF TypeOK, Places
  <2>4. KeyHeld'
    <3> SUFFICES ASSUME NEW q \in Requests, NEW s \in Span
                 PROVE  /\ at'[q] \in {s, expiring(s)} => key[q][s] # None
                        /\ key[q][s] # None =>
                             key[q][s].span = s /\ key[q][s].n <= current(s)
      BY <1>1, <2>1 DEF KeyHeld, current, windowAt, expiring
    <3>1. at'[q] \in {s, expiring(s)} => at[q] \in {s, expiring(s)} \/ (q = r /\ s = span)
      BY <2>1, <2>2
    <3> QED BY <1>t, <2>1, <3>1 DEF KeyHeld
  <2> QED BY <2>3, <2>4 DEF Typed
<1>2. ASSUME NEW r \in Requests, NEW span \in Span, expire(r, span), now' = now PROVE Typed'
  <2> DEFINE w == key[r][span]
             next == decide(span, seen[r][span])
  <2>1. /\ at[r] = expiring(span) /\ w \in Window
        /\ at' = [at EXCEPT ![r] = next] /\ next \in Places
        /\ failed' \in {failed, failed \cup {w}}
        /\ \/ expires' = expires
           \/ expires' = [expires EXCEPT ![w] = now + timeToLive(span)]
        /\ UNCHANGED <<token, key, seen, count, repeated, late, dropped>>
    BY <1>2, Expiring
  <2>2. now + timeToLive(span) \in Nat
    BY <1>t, Clock, Lives
  <2>3. \A s \in Span : next \notin {s, expiring(s)}
    BY DEF decide, expiring, refusal, Span
  <2> HIDE DEF w, next
  <2>4. at' \in [Requests -> Places] /\ \A q \in Requests : at'[q] # at[q] => q = r /\ at'[q] = next
    BY <1>t, <2>1 DEF TypeOK, Places
  <2>5. TypeOK'
    <3>1. \A q \in Requests : at'[q] # "idle" => token'[q] # None
      <4>1. at[r] # "idle"
        BY <2>1, Names
      <4> QED BY <1>t, <2>1, <2>4, <4>1 DEF TypeOK
    <3>2. expires' \in [Window -> Nat \cup {None}] /\ failed' \subseteq Window
      <4>1. expires \in [Window -> Nat \cup {None}] /\ failed \subseteq Window
        BY <1>t DEF TypeOK
      <4>2. /\ w \in Window /\ failed' \in {failed, failed \cup {w}}
            /\ \/ expires' = expires
               \/ expires' = [expires EXCEPT ![w] = now + timeToLive(span)]
        BY <2>1
      <4> QED BY <2>2, <4>1, <4>2
    <3> QED BY <1>2, <1>t, <2>1, <2>4, <3>1, <3>2 DEF TypeOK, Places
  <2>6. KeyHeld'
    <3> SUFFICES ASSUME NEW q \in Requests, NEW s \in Span
                 PROVE  /\ at'[q] \in {s, expiring(s)} => key[q][s] # None
                        /\ key[q][s] # None =>
                             key[q][s].span = s /\ key[q][s].n <= current(s)
      BY <1>2, <2>1 DEF KeyHeld, current, windowAt, expiring
    <3>1. at'[q] \in {s, expiring(s)} => at[q] \in {s, expiring(s)}
      BY <2>3, <2>4
    <3> QED BY <1>t, <3>1 DEF KeyHeld
  <2> QED BY <2>5, <2>6 DEF Typed
<1>3. ASSUME NEW r \in Requests, NEW t \in Tokens, arrive(r, t), now' = now PROVE Typed'
  <2>1. /\ choose(r, t, "minute") /\ token' = [token EXCEPT ![r] = t]
        /\ UNCHANGED <<seen, redis>>
    BY <1>3 DEF arrive
  <2>2. t # None /\ token \in [Requests -> Tokens \cup {None}]
    BY <1>t DEF LimitConstants, TypeOK
  <2>3. /\ token' \in [Requests -> Tokens \cup {None}] /\ token'[r] # None
        /\ \A q \in Requests : q # r => token'[q] = token[q]
    BY <2>1, <2>2
  <2> QED BY <1>0, <1>3, <2>1, <2>3 DEF Span
<1>4. ASSUME NEW r \in Requests, chooseDay(r), now' = now PROVE Typed'
  <2>1. /\ at[r] = "day key" /\ choose(r, token[r], "day")
        /\ UNCHANGED <<token, seen, redis>>
    BY <1>4 DEF chooseDay
  <2>2. token \in [Requests -> Tokens \cup {None}] /\ token[r] # None
    BY <1>t, <2>1 DEF TypeOK
  <2>3. token[r] \in Tokens
    BY <2>2
  <2> QED BY <1>0, <1>4, <2>1, <2>2, <2>3 DEF Span
<1>5. ASSUME NEW w \in Window, drop(w), now' = now PROVE Typed'
  <2>1. /\ count' = [count EXCEPT ![w] = 0] /\ expires' = [expires EXCEPT ![w] = None]
        /\ dropped' = dropped \cup {w}
        /\ UNCHANGED <<at, token, key, seen, failed, repeated, late>>
    BY <1>5 DEF drop, requests
  <2>2. TypeOK'
    BY <1>5, <1>t, <2>1 DEF TypeOK
  <2>3. KeyHeld'
    BY <1>5, <1>t, <2>1 DEF KeyHeld, current, windowAt, expiring
  <2> QED BY <2>2, <2>3 DEF Typed
<1>6. ASSUME tick PROVE Typed'
  <2>1. TypeOK'
    BY <1>6, <1>t, Ticking DEF TypeOK
  <2>2. KeyHeld'
    <3> SUFFICES ASSUME NEW q \in Requests, NEW s \in Span
                 PROVE  /\ at'[q] \in {s, expiring(s)} => key'[q][s] # None
                        /\ key'[q][s] # None =>
                             key'[q][s].span = s /\ key'[q][s].n <= current(s)'
      BY DEF KeyHeld, expiring
    <3>1. UNCHANGED <<at, key>>
      BY <1>6, <1>t, Ticking
    <3>2. current(s) <= current(s)' /\ current(s) \in Nat /\ current(s)' \in Nat
      BY <1>6, <1>t, CurrentMoves
    <3>3. key[q][s] # None => key[q][s].n \in Nat
      <4>1. key[q][s] \in Window \cup {None}
        <5>1. key \in [Requests -> [Span -> Window \cup {None}]]
          BY <1>t DEF TypeOK
        <5> QED BY <5>1
      <4>2. \A w \in Window : w.n \in Nat
        BY DEF Window, LimitConstants
      <4> QED BY <4>1, <4>2
    <3> QED BY <1>t, <3>1, <3>2, <3>3 DEF KeyHeld
  <2> QED BY <2>1, <2>2 DEF Typed
<1>7. CASE UNCHANGED vars
  <2>1. UNCHANGED <<now, at, token, key, seen, count, expires, failed, repeated, late, dropped>>
    BY <1>7 DEF vars, requests, redis, history
  <2>2. TypeOK'
    BY <1>t, <2>1 DEF TypeOK
  <2>3. KeyHeld'
    BY <1>t, <2>1 DEF KeyHeld, current, windowAt, expiring
  <2> QED BY <2>2, <2>3 DEF Typed
<1>8. ASSUME NEW r \in Requests, Limit(r), now' = now PROVE Typed'
  BY <1>1, <1>2, <1>4, <1>8 DEF Limit, incrMinute, incrDay, expireMinute, expireDay, Span
<1> QED BY <1>3, <1>5, <1>6, <1>7, <1>8 DEF Next

-----------------------------------------------------------------------------
(* Counters expire                                                         *)

LEMMA CountersExpireStep ==
    LimitConstants /\ Typed /\ CountersExpire /\ [Next]_vars => CountersExpire'
<1> SUFFICES ASSUME LimitConstants, Typed, CountersExpire, [Next]_vars,
                    NEW w \in Window, w \notin failed', count'[w] > 0, expires'[w] = None
             PROVE  \E r \in Requests : at'[r] = expiring(w.span) /\ key'[r][w.span] = w
  BY DEF CountersExpire, expiring
<1>s. w.span \in Span
  BY DEF Window
<1>t. TypeOK
  BY DEF Typed
<1>n. count \in [Window -> Nat] /\ expires \in [Window -> Nat \cup {None}]
  BY <1>t DEF TypeOK
\* A request about to give w a time to live stays there unless it takes a step.
<1>k. ASSUME w \notin failed, count[w] > 0, expires[w] = None,
             \A q \in Requests : at[q] = expiring(w.span) /\ key[q][w.span] = w =>
                 at'[q] = at[q] /\ key'[q] = key[q]
      PROVE  \E r \in Requests : at'[r] = expiring(w.span) /\ key'[r][w.span] = w
  <2>1. PICK q \in Requests : at[q] = expiring(w.span) /\ key[q][w.span] = w
    BY <1>k DEF CountersExpire
  <2> QED BY <1>k, <2>1
<1>0. ASSUME NEW r \in Requests, NEW t \in Tokens, NEW span \in Span, choose(r, t, span),
             at[r] \in {"idle", "day key"}, UNCHANGED <<count, expires, failed>>
      PROVE  \E q \in Requests : at'[q] = expiring(w.span) /\ key'[q][w.span] = w
  <2>1. \A q \in Requests : q # r => at'[q] = at[q] /\ key'[q] = key[q]
    BY <1>0, <1>t, Chosen
  <2>2. \A q \in Requests : at[q] = expiring(w.span) => q # r
    BY <1>0 DEF expiring
  <2> QED BY <1>0, <1>k, <2>1, <2>2
<1>1. ASSUME NEW r \in Requests, NEW span \in Span, incr(r, span)
      PROVE  \E q \in Requests : at'[q] = expiring(w.span) /\ key'[q][w.span] = w
  <2>1. PICK v \in Window, n \in Nat, m \in Nat, place \in Places :
             /\ v = key[r][span] /\ v.span = span /\ at[r] = span
             /\ at'[r] = place
             /\ \A q \in Requests : q # r => at'[q] = at[q]
             /\ count' = [count EXCEPT ![v] = m]
             /\ \/ /\ n = count[v] + 1 /\ m = n /\ failed' = failed
                   /\ place = afterFirst(span, n)
                \/ failed' = failed \cup {v}
             /\ UNCHANGED <<key, expires>>
    BY <1>1, Incremented
  <2>2. CASE v = w /\ n = 1
    BY <2>1, <2>2 DEF afterFirst
  <2>3. CASE ~(v = w /\ n = 1)
    <3>1. w \notin failed /\ expires[w] = None
      BY <2>1
    <3>2. count[w] > 0
      BY <1>n, <2>1, <2>3
    <3>3. \A q \in Requests : at[q] = expiring(w.span) => q # r
      BY <2>1 DEF expiring, Span
    <3> QED BY <1>k, <2>1, <3>1, <3>2, <3>3
  <2> QED BY <2>2, <2>3
<1>2. ASSUME NEW r \in Requests, NEW span \in Span, expire(r, span)
      PROVE  \E q \in Requests : at'[q] = expiring(w.span) /\ key'[q][w.span] = w
  <2> DEFINE v == key[r][span]
  <2>1. /\ at[r] = expiring(span) /\ v \in Window /\ v.span = span
        /\ at' = [at EXCEPT ![r] = decide(span, seen[r][span])]
        /\ \/ expires' = expires /\ (count[v] = 0 \/ v \in failed')
           \/ expires' = [expires EXCEPT ![v] = now + timeToLive(span)]
        /\ failed' \in {failed, failed \cup {v}}
        /\ UNCHANGED <<token, key, seen, count, dropped>>
    BY <1>2, Expiring
  <2>2. now + timeToLive(span) \in Nat
    BY <1>t, Clock, Lives
  <2>3. v # w
    BY <1>n, <2>1, <2>2, NoneIsNoWindow
  <2>4. w \notin failed /\ expires[w] = None /\ count[w] > 0
    BY <1>n, <2>1, <2>3
  <2>5. ASSUME NEW q \in Requests, at[q] = expiring(w.span), key[q][w.span] = w
        PROVE  q # r
    <3> SUFFICES ASSUME q = r PROVE FALSE
      OBVIOUS
    <3>1. expiring(w.span) = expiring(span) /\ w.span \in Span
      BY <1>s, <2>1, <2>5
    <3>2. w.span = span
      BY <3>1, Names
    <3> QED BY <2>3, <2>5, <3>2
  <2>6. \A q \in Requests : q # r => at'[q] = at[q]
    BY <1>t, <2>1 DEF TypeOK
  <2> QED BY <1>k, <2>1, <2>4, <2>5, <2>6
<1>3. ASSUME NEW r \in Requests, NEW t \in Tokens, arrive(r, t)
      PROVE  \E q \in Requests : at'[q] = expiring(w.span) /\ key'[q][w.span] = w
  BY <1>0, <1>3 DEF arrive, redis, history, Span
<1>4. ASSUME NEW r \in Requests, chooseDay(r)
      PROVE  \E q \in Requests : at'[q] = expiring(w.span) /\ key'[q][w.span] = w
  <2>1. at[r] = "day key" /\ choose(r, token[r], "day") /\ UNCHANGED <<count, expires, failed>>
    BY <1>4 DEF chooseDay, redis, history
  <2>2. token[r] \in Tokens
    BY <1>t, <2>1 DEF TypeOK
  <2> QED BY <1>0, <2>1, <2>2 DEF Span
<1>5. ASSUME NEW v \in Window, drop(v)
      PROVE  \E q \in Requests : at'[q] = expiring(w.span) /\ key'[q][w.span] = w
  <2>1. /\ count' = [count EXCEPT ![v] = 0] /\ expires' = [expires EXCEPT ![v] = None]
        /\ UNCHANGED <<at, key, failed>>
    BY <1>5 DEF drop, requests
  <2>2. v # w
    BY <1>n, <2>1
  <2> QED BY <1>k, <1>n, <2>1, <2>2
<1>6. CASE tick
  <2>1. /\ \/ count'[w] = count[w] /\ expires'[w] = expires[w]
           \/ count'[w] = 0
        /\ UNCHANGED <<at, key, failed>>
    BY <1>6, <1>t, Ticking
  <2> QED BY <1>k, <2>1
<1>7. CASE UNCHANGED vars
  BY <1>7, <1>k DEF vars, requests, redis, history
<1>8. ASSUME NEW r \in Requests, Limit(r)
      PROVE  \E q \in Requests : at'[q] = expiring(w.span) /\ key'[q][w.span] = w
  BY <1>1, <1>2, <1>4, <1>8 DEF Limit, incrMinute, incrDay, expireMinute, expireDay, Span
<1> QED BY <1>3, <1>5, <1>6, <1>7, <1>8 DEF Next

-----------------------------------------------------------------------------
(* The limit                                                               *)

\* The windows of which the limit is kept.
kept(w) == w \notin dropped /\ w \notin late /\ ordinary(w)

\* Two answers for one window differ, and while the window lasts, or its counter
\* is there, the counter is not behind an answer.
Numbered ==
    \A w \in Window, r \in Requests : kept(w) /\ key[r][w.span] = w =>
        /\ w.n = current(w.span) \/ count[w] > 0 => seen[r][w.span] <= count[w]
        /\ \A q \in Requests :
             key[q][w.span] = w /\ seen[q][w.span] = seen[r][w.span] /\ seen[r][w.span] > 0
                 => q = r

\* A counter that expires does so after its window.
Lasting ==
    \A w \in Window : ordinary(w) /\ expires[w] # None =>
        \A t \in 0..MaxTime : windowAt(w.span, t) = w.n => t < expires[w]

\* Where a request got to, it got within its limits.
Passing ==
    \A r \in Requests :
        /\ at[r] \in {"day key", "day", "expire day", "passed", "refused day"} =>
               seen[r]["minute"] <= PerMinute
        /\ at[r] = "passed" => seen[r]["day"] <= PerDay

\* An answer of Redis is known only after the key was chosen.
Unseen ==
    \A r \in Requests :
        /\ at[r] \in {"idle", "minute"} => seen[r]["minute"] = 0
        /\ at[r] \in {"idle", "minute", "expire minute", "day key", "day"} =>
               seen[r]["day"] = 0

Limited == Numbered /\ Lasting /\ Passing /\ Unseen

\* A request goes on only if what it saw is within the limit.
LEMMA PassesWithin ==
    ASSUME LimitConstants, NEW span \in Span, NEW n \in Nat, decide(span, n) # refusal(span)
    PROVE  n <= IF span = "minute" THEN PerMinute ELSE PerDay
<1>1. ~exceeds(span, n)
  BY DEF decide
<1>2. limitOf(span) \in Nat
  BY DEF limitOf, LimitConstants
<1>3. n <= limitOf(span)
  BY <1>1, <1>2 DEF exceeds
<1> QED BY <1>3 DEF limitOf

\* A time to live that starts when a window has come ends after it.
LEMMA Outlasting ==
    ASSUME LimitConstants, TypeOK, NEW w \in Window, ordinary(w), w.n <= current(w.span),
           NEW t \in 0..MaxTime, windowAt(w.span, t) = w.n
    PROVE  t < now + timeToLive(w.span)
<1>1. w.span \in Span
  BY DEF Window
<1>2. now \in 0..MaxTime /\ now \in Nat /\ t \in Nat
  <2>1. MaxTime \in Nat
    BY DEF LimitConstants
  <2> QED BY <2>1, Clock
<1>3. timeToLive(w.span) \in Nat /\ lengthOf(w.span) = timeToLive(w.span)
  BY <1>1, Lives
<1>4. CASE t <= now
  <2>1. t - t < lengthOf(w.span)
    BY DEF ordinary
  <2> QED BY <1>2, <1>3, <1>4, <2>1
<1>5. CASE now < t
  <2>1. /\ windowAt(w.span, now) <= windowAt(w.span, t)
        /\ windowAt(w.span, now) \in Nat /\ windowAt(w.span, t) \in Nat
    BY <1>1, <1>2, <1>5, Windows
  <2>2. windowAt(w.span, now) = w.n
    BY <2>1 DEF current
  <2>3. t - now < lengthOf(w.span)
    BY <1>2, <2>2 DEF ordinary
  <2> QED BY <1>2, <1>3, <2>3
<1> QED BY <1>2, <1>4, <1>5

LEMMA LimitedInit == LimitConstants /\ Init => Limited
<1> SUFFICES ASSUME LimitConstants, Init PROVE Limited
  OBVIOUS
<1>1. \A w \in Window : w.span \in Span /\ w # None
  BY NoneIsNoWindow DEF Window
<1>2. Numbered
  BY <1>1 DEF Init, Numbered, NoKey
<1>3. Lasting
  BY DEF Init, Lasting
<1>4. Passing
  BY DEF Init, Passing
<1>5. Unseen
  BY DEF Init, Unseen, NothingSeen, Span
<1> QED BY <1>2, <1>3, <1>4, <1>5 DEF Limited

LEMMA LimitedIncr ==
    ASSUME LimitConstants, Typed, Limited, NEW r \in Requests, NEW span \in Span,
           incr(r, span), now' = now
    PROVE  Limited'
<1>t. TypeOK
  BY DEF Typed
<1>1. PICK v \in Window, n \in Nat, m \in Nat, place \in Places :
           /\ v = key[r][span] /\ v.span = span /\ v.n <= current(span) /\ at[r] = span
           /\ at'[r] = place /\ seen'[r][span] = n
           /\ \A s \in Span : s # span => seen'[r][s] = seen[r][s]
           /\ \A q \in Requests : q # r => at'[q] = at[q] /\ seen'[q] = seen[q]
           /\ count' = [count EXCEPT ![v] = m]
           /\ \/ m = count[v]
              \/ m = count[v] + 1 /\ (v \in late' \/ count[v] > 0 \/ v.n = current(span))
           /\ late \subseteq late'
           /\ \/ n = count[v] + 1 /\ m = n /\ place = afterFirst(span, n)
              \/ n = 0 /\ place = afterFirst(span, n)
              \/ n = seen[r][span] /\ place = span
           /\ UNCHANGED <<key, expires, dropped>>
  BY Incremented
<1>2. /\ count \in [Window -> Nat]
      /\ \A q \in Requests, s \in Span : seen[q][s] \in Nat
  BY <1>t DEF TypeOK
<1>c. \A s : current(s)' = current(s)
  BY DEF current, windowAt
<1>k. \A w : kept(w)' => kept(w)
  BY <1>1 DEF kept, ordinary, windowAt, lengthOf
<1>3. ASSUME NEW w \in Window, kept(w)', NEW p \in Requests, key[p][w.span] = w
      PROVE  /\ w.n = current(w.span) \/ count'[w] > 0 => seen'[p][w.span] <= count'[w]
             /\ \A q \in Requests :
                  key[q][w.span] = w /\ seen'[q][w.span] = seen'[p][w.span]
                    /\ seen'[p][w.span] > 0 => q = p
  <2>1. w.span \in Span /\ kept(w)
    BY <1>3, <1>k DEF Window
  <2>0. \A p1, q \in Requests : key[p1][w.span] = w /\ key[q][w.span] = w =>
           /\ w.n = current(w.span) \/ count[w] > 0 => seen[p1][w.span] <= count[w]
           /\ seen[q][w.span] = seen[p1][w.span] /\ seen[p1][w.span] > 0 => q = p1
    BY <2>1 DEF Limited, Numbered
  <2>2. CASE w # v
    <3>1. \A q \in Requests : key[q][w.span] = w => seen'[q][w.span] = seen[q][w.span]
      BY <1>1, <2>1, <2>2
    <3>2. count'[w] = count[w]
      BY <1>1, <1>2, <2>2
    <3> QED BY <1>3, <2>0, <3>1, <3>2
  <2>3. CASE w = v
    <3>0. w.span = span /\ w \notin late'
      BY <1>1, <1>3, <2>3 DEF kept
    <3>1. count'[w] = m /\ count[w] \in Nat /\ count[w] <= m
      BY <1>1, <1>2, <2>3
    \* The counter was there, or its window has come, or nothing was counted.
    <3>2. w.n = current(w.span) \/ m > 0 => w.n = current(w.span) \/ count[w] > 0
      BY <1>1, <2>3, <3>0, <3>1
    <3>3. \A q \in Requests : key[q][span] = w =>
             /\ seen[q][span] \in Nat
             /\ w.n = current(w.span) \/ m > 0 => seen[q][span] <= count[w]
      BY <1>1, <1>2, <2>0, <3>0, <3>2
    <3>4. \A q \in Requests : key[q][span] = w /\ q # r => seen'[q][span] = seen[q][span]
      BY <1>1
    <3>5. (n = count[w] + 1 /\ m = n) \/ n = 0 \/ n = seen[r][span]
      BY <1>1, <2>3
    <3>6. n = count[w] + 1 /\ m = n => w.n = current(w.span) \/ m > 0
      BY <3>1
    <3>7. w.n = current(w.span) \/ m > 0 => seen'[r][span] <= m
      BY <1>1, <2>3, <3>1, <3>3, <3>5
    <3>8. ASSUME NEW q \in Requests, key[q][span] = w, q # r, n > 0, seen'[q][span] = n
          PROVE  FALSE
      <4>1. seen[q][span] = n /\ key[r][span] = w
        BY <1>1, <2>3, <3>4, <3>8
      <4>2. CASE n = count[w] + 1 /\ m = n
        <5>1. seen[q][span] <= count[w]
          BY <3>3, <3>6, <3>8, <4>2
        <5> QED BY <3>1, <4>1, <4>2, <5>1
      <4>3. CASE n = seen[r][span]
        BY <2>0, <3>0, <3>8, <4>1, <4>3
      <4> QED BY <3>5, <3>8, <4>2, <4>3
    <3>9. w.n = current(w.span) \/ count'[w] > 0 => seen'[p][w.span] <= count'[w]
      <4>1. CASE p = r
        BY <3>0, <3>1, <3>7, <4>1
      <4>2. CASE p # r
        <5>1. w.n = current(w.span) \/ m > 0 => seen[p][span] <= count[w] /\ seen[p][span] \in Nat
          BY <1>3, <3>0, <3>3
        <5>2. seen'[p][span] = seen[p][span]
          BY <1>3, <3>0, <3>4, <4>2
        <5> QED BY <3>0, <3>1, <5>1, <5>2
      <4> QED BY <4>1, <4>2
    <3>10. ASSUME NEW q \in Requests, key[q][w.span] = w,
                  seen'[q][w.span] = seen'[p][w.span], seen'[p][w.span] > 0
           PROVE  q = p
      <4>1. CASE q = r /\ p # r
        BY <1>1, <1>3, <3>0, <3>8, <3>10, <4>1
      <4>2. CASE q # r /\ p = r
        BY <1>1, <1>3, <3>0, <3>8, <3>10, <4>2
      <4>3. CASE q # r /\ p # r
        BY <1>3, <2>0, <3>0, <3>4, <3>10, <4>3
      <4> QED BY <4>1, <4>2, <4>3
    <3> QED BY <3>9, <3>10
  <2> QED BY <2>2, <2>3
<1>4. Numbered'
  <2> SUFFICES ASSUME NEW w \in Window, NEW p \in Requests, kept(w)', key'[p][w.span] = w
               PROVE  /\ w.n = current(w.span)' \/ count'[w] > 0 => seen'[p][w.span] <= count'[w]
                      /\ \A q \in Requests :
                           key'[q][w.span] = w /\ seen'[q][w.span] = seen'[p][w.span]
                             /\ seen'[p][w.span] > 0 => q = p
    BY DEF Numbered
  <2>1. current(w.span)' = current(w.span) /\ key' = key
    BY <1>1, <1>c
  <2> QED BY <1>3, <2>1
<1>5. Lasting'
  BY <1>1 DEF Limited, Lasting, windowAt, ordinary, lengthOf
<1>6. Passing'
  <2> SUFFICES ASSUME NEW q \in Requests
               PROVE  /\ at'[q] \in {"day key", "day", "expire day", "passed", "refused day"} =>
                             seen'[q]["minute"] <= PerMinute
                      /\ at'[q] = "passed" => seen'[q]["day"] <= PerDay
    BY DEF Passing
  <2>1. CASE q # r
    BY <1>1, <2>1 DEF Limited, Passing
  <2>2. CASE q = r /\ span = "minute"
    <3>1. place = "day key" => n <= PerMinute
      <4>1. place = "day key" => decide(span, n) = "day key"
        BY <1>1, <2>2 DEF afterFirst, expiring
      <4> QED BY <2>2, <4>1, PassesWithin DEF refusal
    <3>2. place \in {"minute", "day key", "expire minute", "refused minute"}
      BY <1>1, <2>2 DEF afterFirst, decide, expiring, refusal
    <3> QED BY <1>1, <2>2, <3>1, <3>2
  <2>3. CASE q = r /\ span = "day"
    <3>1. seen[r]["minute"] <= PerMinute
      BY <1>1, <2>3 DEF Limited, Passing
    <3>2. place = "passed" => n <= PerDay
      <4>1. place = "passed" => decide(span, n) = "passed"
        BY <1>1, <2>3 DEF afterFirst, expiring
      <4> QED BY <2>3, <4>1, PassesWithin DEF refusal
    <3> QED BY <1>1, <2>3, <3>1, <3>2 DEF Span
  <2> QED BY <2>1, <2>2, <2>3 DEF Span
<1>7. Unseen'
  <2> SUFFICES ASSUME NEW q \in Requests
               PROVE  /\ at'[q] \in {"idle", "minute"} => seen'[q]["minute"] = 0
                      /\ at'[q] \in {"idle", "minute", "expire minute", "day key", "day"} =>
                             seen'[q]["day"] = 0
    BY DEF Unseen
  <2>1. CASE q # r
    BY <1>1, <2>1 DEF Limited, Unseen
  <2>2. CASE q = r /\ span = "minute"
    <3>1. seen[r]["minute"] = 0 /\ seen[r]["day"] = 0
      BY <1>1, <2>2 DEF Limited, Unseen
    <3>2. place \notin {"idle"} /\ (place = "minute" => n = 0)
      BY <1>1, <2>2, <3>1 DEF afterFirst, decide, expiring, refusal
    <3> QED BY <1>1, <2>2, <3>1, <3>2 DEF Span
  <2>3. CASE q = r /\ span = "day"
    <3>1. seen[r]["day"] = 0
      BY <1>1, <2>3 DEF Limited, Unseen
    <3>2. /\ place \notin {"idle", "minute", "expire minute", "day key"}
          /\ place = "day" => n = 0
      BY <1>1, <2>3, <3>1 DEF afterFirst, decide, expiring, refusal
    <3> QED BY <1>1, <2>3, <3>2
  <2> QED BY <2>1, <2>2, <2>3 DEF Span
<1> QED BY <1>4, <1>5, <1>6, <1>7 DEF Limited

LEMMA LimitedExpire ==
    ASSUME LimitConstants, Typed, Limited, NEW r \in Requests, NEW span \in Span,
           expire(r, span), now' = now
    PROVE  Limited'
<1>t. TypeOK
  BY DEF Typed
<1> DEFINE v == key[r][span]
           next == decide(span, seen[r][span])
<1>1. /\ at[r] = expiring(span) /\ v \in Window /\ v.span = span /\ v.n <= current(span)
      /\ at' = [at EXCEPT ![r] = next]
      /\ expires' \in {expires, [expires EXCEPT ![v] = now + timeToLive(span)]}
      /\ UNCHANGED <<key, seen, count, late, dropped>>
  BY Expiring
<1>2. Numbered'
  BY <1>1 DEF Limited, Numbered, kept, ordinary, current, windowAt, lengthOf
<1>3. Lasting'
  <2> SUFFICES ASSUME NEW w \in Window, ordinary(w), expires'[w] # None,
                      NEW t \in 0..MaxTime, windowAt(w.span, t) = w.n
               PROVE  t < expires'[w]
    BY DEF Lasting, ordinary, windowAt, lengthOf
  <2>1. expires \in [Window -> Nat \cup {None}]
    BY <1>t DEF TypeOK
  <2>2. CASE expires'[w] = expires[w]
    BY <2>2 DEF Limited, Lasting
  <2>3. CASE expires'[w] # expires[w]
    <3>1. w = v /\ expires'[w] = now + timeToLive(span)
      BY <1>1, <2>1, <2>3
    <3> HIDE DEF v
    <3>2. w.span = span /\ w.n <= current(w.span)
      BY <1>1, <3>1
    <3>3. t < now + timeToLive(w.span)
      BY <1>t, <3>2, Outlasting
    <3> QED BY <3>1, <3>2, <3>3
  <2> QED BY <2>2, <2>3
<1>4. Passing'
  <2> SUFFICES ASSUME NEW q \in Requests
               PROVE  /\ at'[q] \in {"day key", "day", "expire day", "passed", "refused day"} =>
                             seen[q]["minute"] <= PerMinute
                      /\ at'[q] = "passed" => seen[q]["day"] <= PerDay
    BY <1>1 DEF Passing
  <2>1. at'[q] = IF q = r THEN next ELSE at[q]
    BY <1>1, <1>t DEF TypeOK
  <2>2. seen[r][span] \in Nat
    BY <1>t DEF TypeOK
  <2>3. CASE q # r
    BY <2>1, <2>3 DEF Limited, Passing
  <2>4. CASE q = r /\ span = "minute"
    <3>1. next = "day key" => seen[r][span] <= PerMinute
      BY <2>2, <2>4, PassesWithin DEF refusal
    <3>2. next \in {"day key", "refused minute"}
      BY <2>4 DEF decide, refusal
    <3> QED BY <2>1, <2>4, <3>1, <3>2
  <2>5. CASE q = r /\ span = "day"
    <3>1. seen[r]["minute"] <= PerMinute
      BY <1>1, <2>5 DEF Limited, Passing, expiring
    <3>2. next = "passed" => seen[r][span] <= PerDay
      BY <2>2, <2>5, PassesWithin DEF refusal
    <3> QED BY <2>1, <2>5, <3>1, <3>2
  <2> QED BY <2>3, <2>4, <2>5 DEF Span
<1>5. Unseen'
  <2> SUFFICES ASSUME NEW q \in Requests
               PROVE  /\ at'[q] \in {"idle", "minute"} => seen[q]["minute"] = 0
                      /\ at'[q] \in {"idle", "minute", "expire minute", "day key", "day"} =>
                             seen[q]["day"] = 0
    BY <1>1 DEF Unseen
  <2>1. at'[q] = IF q = r THEN next ELSE at[q]
    BY <1>1, <1>t DEF TypeOK
  <2>2. /\ next \notin {"idle", "minute", "day"}
        /\ next \in {"expire minute", "day key"} => at[r] = "expire minute"
    BY <1>1 DEF decide, refusal, expiring, Span
  <2>3. CASE q # r
    BY <2>1, <2>3 DEF Limited, Unseen
  <2>4. CASE q = r
    BY <2>1, <2>2, <2>4 DEF Limited, Unseen
  <2> QED BY <2>3, <2>4
<1> QED BY <1>2, <1>3, <1>4, <1>5 DEF Limited

LEMMA LimitedTick ==
    ASSUME LimitConstants, Typed, Limited, tick
    PROVE  Limited'
<1>t. TypeOK
  BY DEF Typed
<1>1. /\ now' \in 0..MaxTime
      /\ \A w \in Window : \/ count'[w] = count[w] /\ expires'[w] = expires[w]
                           \/ /\ expires[w] \in Nat /\ expires[w] <= now'
                              /\ count'[w] = 0 /\ expires'[w] = None
      /\ UNCHANGED <<at, key, seen, late, dropped>>
  BY <1>t, Ticking
<1>k. \A w : kept(w)' => kept(w)
  BY <1>1 DEF kept, ordinary, windowAt, lengthOf
<1>2. ASSUME NEW w \in Window, NEW r \in Requests, kept(w), key[r][w.span] = w,
             w.n = current(w.span)' \/ count'[w] > 0
      PROVE  seen[r][w.span] <= count'[w]
  <2>1. w.span \in Span /\ w.n \in Nat
    BY DEF Window, LimitConstants
  <2>2. CASE count'[w] > 0
    <3>1. count'[w] = count[w]
      BY <1>1, <2>2
    <3> QED BY <1>2, <2>2, <3>1 DEF Limited, Numbered
  <2>3. CASE w.n = current(w.span)'
    <3>1. current(w.span) = w.n
      <4>1. current(w.span) \in Nat /\ current(w.span) <= current(w.span)'
        BY <1>t, <2>1, CurrentMoves
      <4>2. w.n <= current(w.span)
        BY <1>2, <2>1, NoneIsNoWindow DEF Typed, KeyHeld
      <4> QED BY <2>1, <2>3, <4>1, <4>2
    <3>2. seen[r][w.span] <= count[w]
      BY <1>2, <3>1 DEF Limited, Numbered
    <3>3. ~(expires[w] \in Nat /\ expires[w] <= now')
      <4> SUFFICES ASSUME expires[w] \in Nat, expires[w] <= now' PROVE FALSE
        OBVIOUS
      <4>1. ordinary(w) /\ expires[w] # None
        BY <1>2, NoneIsNoWindow DEF kept
      <4>2. \A t \in 0..MaxTime : windowAt(w.span, t) = w.n => t < expires[w]
        BY <4>1 DEF Limited, Lasting
      <4>3. windowAt(w.span, now') = w.n
        BY <2>3 DEF current, windowAt
      <4>4. now' < expires[w]
        BY <1>1, <4>2, <4>3
      <4> QED BY <1>1, <4>4
    <3> QED BY <1>1, <3>2, <3>3
  <2> QED BY <1>2, <2>2, <2>3
<1>3. Numbered'
  <2> SUFFICES ASSUME NEW w \in Window, NEW p \in Requests, kept(w)', key'[p][w.span] = w
               PROVE  /\ w.n = current(w.span)' \/ count'[w] > 0 => seen'[p][w.span] <= count'[w]
                      /\ \A q \in Requests :
                           key'[q][w.span] = w /\ seen'[q][w.span] = seen'[p][w.span]
                             /\ seen'[p][w.span] > 0 => q = p
    BY DEF Numbered
  <2>1. kept(w) /\ key' = key /\ seen' = seen
    BY <1>1, <1>k
  <2>2. w.n = current(w.span)' \/ count'[w] > 0 => seen[p][w.span] <= count'[w]
    BY <1>2, <2>1
  <2>3. \A q \in Requests :
          key[q][w.span] = w /\ seen[q][w.span] = seen[p][w.span] /\ seen[p][w.span] > 0
            => q = p
    BY <2>1 DEF Limited, Numbered
  <2> QED BY <2>1, <2>2, <2>3
<1>4. Lasting'
  <2>1. \A w \in Window : expires'[w] # None => expires'[w] = expires[w]
    BY <1>1
  <2> QED BY <2>1 DEF Limited, Lasting, ordinary, windowAt, lengthOf
<1>5. Passing'
  BY <1>1 DEF Limited, Passing
<1>6. Unseen'
  BY <1>1 DEF Limited, Unseen
<1> QED BY <1>3, <1>4, <1>5, <1>6 DEF Limited

\* Where a request is that is about to choose a counter.
choosing(span) == IF span = "minute" THEN "idle" ELSE "day key"

\* The clock is read for a key: the request has seen nothing of the counter yet.
LEMMA LimitedChoose ==
    ASSUME LimitConstants, Typed, Limited, NEW r \in Requests, NEW span \in Span,
           NEW t \in Tokens, choose(r, t, span),
           at[r] = choosing(span),
           UNCHANGED <<now, seen, redis>>
    PROVE  Limited'
<1>t. TypeOK
  BY DEF Typed
<1>1. PICK v \in Window :
           /\ v.span = span
           /\ at'[r] = span /\ key'[r][span] = v
           /\ \A s \in Span : s # span => key'[r][s] = key[r][s]
           /\ \A q \in Requests : q # r => at'[q] = at[q] /\ key'[q] = key[q]
  BY <1>t, Chosen
<1>2. UNCHANGED <<now, seen, count, expires, late, dropped>>
  BY DEF redis, history
<1>3. seen[r][span] = 0
  BY DEF Limited, Unseen, Span, choosing
<1>4. Numbered'
  <2> SUFFICES ASSUME NEW w \in Window, NEW p \in Requests, kept(w)', key'[p][w.span] = w
               PROVE  /\ w.n = current(w.span)' \/ count'[w] > 0 => seen'[p][w.span] <= count'[w]
                      /\ \A q \in Requests :
                           key'[q][w.span] = w /\ seen'[q][w.span] = seen'[p][w.span]
                             /\ seen'[p][w.span] > 0 => q = p
    BY DEF Numbered
  <2>1. kept(w) /\ current(w.span)' = current(w.span) /\ count' = count /\ seen' = seen
    BY <1>2 DEF kept, ordinary, current, windowAt, lengthOf
  <2>2. w.span \in Span
    BY DEF Window
  <2>3. \A q \in Requests : key'[q][w.span] = w =>
          key[q][w.span] = w \/ seen[q][w.span] = 0
    BY <1>1, <1>3, <2>2
  <2>4. count[w] \in Nat /\ 0 <= count[w]
    <3>1. count \in [Window -> Nat]
      BY <1>t DEF TypeOK
    <3>2. count[w] \in Nat
      BY <3>1
    <3> QED BY <3>2
  <2>5. w.n = current(w.span) \/ count[w] > 0 => seen[p][w.span] <= count[w]
    <3>1. CASE key[p][w.span] = w
      BY <2>1, <3>1 DEF Limited, Numbered
    <3>2. CASE seen[p][w.span] = 0
      BY <2>4, <3>2
    <3> QED BY <2>3, <3>1, <3>2
  <2>6. ASSUME NEW q \in Requests, key'[q][w.span] = w,
               seen[q][w.span] = seen[p][w.span], seen[p][w.span] > 0
        PROVE  q = p
    <3>0. seen[p][w.span] # 0 /\ seen[q][w.span] # 0
      BY <2>6
    <3>1. key[p][w.span] = w /\ key[q][w.span] = w
      BY <2>3, <2>6, <3>0
    <3> QED BY <2>1, <2>6, <3>1 DEF Limited, Numbered
  <2> QED BY <2>1, <2>5, <2>6
<1>5. Lasting'
  BY <1>2 DEF Limited, Lasting, ordinary, windowAt, lengthOf
<1>6. \A q \in Requests : at'[q] = IF q = r THEN span ELSE at[q]
  BY <1>1
<1>7. Passing'
  <2> SUFFICES ASSUME NEW q \in Requests
               PROVE  /\ at'[q] \in {"day key", "day", "expire day", "passed", "refused day"} =>
                             seen[q]["minute"] <= PerMinute
                      /\ at'[q] = "passed" => seen[q]["day"] <= PerDay
    BY <1>2 DEF Passing
  <2> QED BY <1>6 DEF Limited, Passing, Span, choosing
<1>8. Unseen'
  <2> SUFFICES ASSUME NEW q \in Requests
               PROVE  /\ at'[q] \in {"idle", "minute"} => seen[q]["minute"] = 0
                      /\ at'[q] \in {"idle", "minute", "expire minute", "day key", "day"} =>
                             seen[q]["day"] = 0
    BY <1>2 DEF Unseen
  <2> QED BY <1>6 DEF Limited, Unseen, Span, choosing
<1> QED BY <1>4, <1>5, <1>7, <1>8 DEF Limited

LEMMA LimitedStep == LimitConstants /\ Typed /\ Limited /\ [Next]_vars => Limited'
<1> SUFFICES ASSUME LimitConstants, Typed, Limited, [Next]_vars PROVE Limited'
  OBVIOUS
<1>1. ASSUME NEW r \in Requests, chooseDay(r), now' = now PROVE Limited'
  <2>1. /\ at[r] = "day key" /\ choose(r, token[r], "day") /\ UNCHANGED <<now, seen, redis>>
    BY <1>1 DEF chooseDay
  <2>2. token[r] \in Tokens
    BY <2>1 DEF Typed, TypeOK
  <2> QED BY <2>1, <2>2, LimitedChoose DEF Span, choosing
<1>2. ASSUME NEW r \in Requests, Limit(r), now' = now PROVE Limited'
  BY <1>1, <1>2, LimitedIncr, LimitedExpire
     DEF Limit, incrMinute, incrDay, expireMinute, expireDay, Span
<1>3. ASSUME NEW r \in Requests, NEW t \in Tokens, arrive(r, t), now' = now PROVE Limited'
  BY <1>3, LimitedChoose DEF arrive, Span, choosing
<1>4. ASSUME NEW v \in Window, drop(v), now' = now PROVE Limited'
  <2>1. /\ count' = [count EXCEPT ![v] = 0] /\ expires' = [expires EXCEPT ![v] = None]
        /\ dropped' = dropped \cup {v}
        /\ UNCHANGED <<at, token, key, seen, failed, late>>
    BY <1>4 DEF drop, requests
  <2>2. \A w \in Window : /\ w # v => count'[w] = count[w]
                          /\ expires'[w] \in {expires[w], None}
    BY <2>1 DEF Typed, TypeOK
  <2>3. \A w : kept(w)' => kept(w) /\ w # v
    BY <2>1 DEF kept, ordinary, windowAt, lengthOf
  <2>4. Numbered'
    <3> SUFFICES ASSUME NEW w \in Window, NEW p \in Requests, kept(w)', key'[p][w.span] = w
                 PROVE  /\ w.n = current(w.span)' \/ count'[w] > 0 =>
                               seen'[p][w.span] <= count'[w]
                        /\ \A q \in Requests :
                             key'[q][w.span] = w /\ seen'[q][w.span] = seen'[p][w.span]
                               /\ seen'[p][w.span] > 0 => q = p
      BY DEF Numbered
    <3>1. kept(w) /\ current(w.span)' = current(w.span) /\ count'[w] = count[w]
      BY <1>4, <2>2, <2>3 DEF current, windowAt
    <3> QED BY <2>1, <3>1 DEF Limited, Numbered
  <2>5. Lasting'
    <3>1. \A w \in Window : expires'[w] # None => expires'[w] = expires[w]
      BY <2>2
    <3> QED BY <3>1 DEF Limited, Lasting, ordinary, windowAt, lengthOf
  <2>6. Passing'
    BY <2>1 DEF Limited, Passing
  <2>7. Unseen'
    BY <2>1 DEF Limited, Unseen
  <2> QED BY <2>4, <2>5, <2>6, <2>7 DEF Limited
<1>5. CASE UNCHANGED vars
  <2>1. UNCHANGED <<now, at, key, seen, count, expires, late, dropped>>
    BY <1>5 DEF vars, requests, redis, history
  <2>2. Numbered'
    BY <2>1 DEF Limited, Numbered, kept, ordinary, current, windowAt, lengthOf
  <2>3. Lasting'
    BY <2>1 DEF Limited, Lasting, ordinary, windowAt, lengthOf
  <2>4. Passing' /\ Unseen'
    BY <2>1 DEF Limited, Passing, Unseen
  <2> QED BY <2>2, <2>3, <2>4 DEF Limited
<1> QED BY <1>2, <1>3, <1>4, <1>5, LimitedTick DEF Next

\* The answers that the served requests got number them within the limit.
LEMMA LimitedIsEnough == LimitConstants /\ TypeOK /\ Limited => WithinLimit
<1> SUFFICES ASSUME LimitConstants, TypeOK, Limited, NEW w \in Window, kept(w)
             PROVE  Cardinality(served(w)) <= limitOf(w.span)
  BY DEF WithinLimit, kept
<1>1. w.span \in Span /\ limitOf(w.span) \in Nat
  BY DEF Window, limitOf, LimitConstants
<1> DEFINE f == [r \in served(w) |-> seen[r][w.span]]
           limit == limitOf(w.span)
<1>2. f \in [served(w) -> 1..limit]
  <2> SUFFICES ASSUME NEW r \in served(w) PROVE seen[r][w.span] \in 1..limit
    OBVIOUS
  <2>1. r \in Requests /\ at[r] = "passed" /\ seen[r][w.span] > 0
    BY DEF served
  <2>2. seen[r][w.span] \in Nat
    <3>1. seen \in [Requests -> [Span -> Nat]]
      BY DEF TypeOK
    <3> QED BY <1>1, <2>1, <3>1
  <2>3. seen[r][w.span] <= limit
    BY <1>1, <2>1 DEF Limited, Passing, limitOf, Span
  <2> QED BY <1>1, <2>1, <2>2, <2>3
<1>3. \A q, r \in served(w) : seen[q][w.span] = seen[r][w.span] => q = r
  BY DEF served, Limited, Numbered
<1>4. f \in Injection(served(w), 1..limit)
  BY <1>2, <1>3 DEF Injection, IsInjective
<1>5. IsFiniteSet(1..limit) /\ Cardinality(1..limit) = limit
  <2>1. 1 \in Int /\ limit \in Int
    BY <1>1
  <2>2. /\ IsFiniteSet(1..limit)
        /\ Cardinality(1..limit) = IF 1 > limit THEN 0 ELSE limit - 1 + 1
    BY <2>1, FS_Interval
  <2> QED BY <1>1, <2>2
<1> HIDE DEF f, limit
<1>6. Cardinality(served(w)) <= Cardinality(1..limit)
  BY <1>4, <1>5, FS_Injection
<1> QED BY <1>5, <1>6 DEF limit

-----------------------------------------------------------------------------
(* Refusals                                                                *)

\* The requests that are through the check of window w.
admitted(w) ==
    {q \in Requests : key[q][w.span] = w /\ at[q] \notin {w.span, refusal(w.span)}}

\* A request chooses each counter once, and creates it if it is to expire it.
Fresh ==
    \A r \in Requests :
        /\ at[r] = "idle" => key[r]["minute"] = None
        /\ at[r] \in {"idle", "minute", "expire minute", "day key", "refused minute"} =>
               key[r]["day"] = None
        /\ \A span \in Span : at[r] = expiring(span) => seen[r][span] = 1

\* A counter is not ahead of the requests it let through, up to the limit.
Counted ==
    \A w \in Window : w \notin repeated =>
        \/ count[w] <= Cardinality(admitted(w))
        \/ limitOf(w.span) <= Cardinality(admitted(w))

\* Where a request was refused, the limit was used up.
Justified ==
    \A r \in Requests :
        /\ \A span \in Span : at[r] = refusal(span) => key[r][span] # None
        /\ \A w \in Window :
             w \notin repeated /\ at[r] = refusal(w.span) /\ key[r][w.span] = w =>
                 limitOf(w.span) <= Cardinality(admitted(w))

Fair == Fresh /\ Counted /\ Justified

LEMMA AdmittedCard ==
    ASSUME LimitConstants
    PROVE  /\ \A w : IsFiniteSet(admitted(w)) /\ Cardinality(admitted(w)) \in Nat
           /\ \A w : IsFiniteSet(admitted(w)') /\ Cardinality(admitted(w)') \in Nat
<1>1. IsFiniteSet(Requests)
  BY DEF LimitConstants
<1>2. \A w : admitted(w) \in SUBSET Requests /\ admitted(w)' \in SUBSET Requests
  BY DEF admitted
<1>3. \A w : IsFiniteSet(admitted(w)) /\ IsFiniteSet(admitted(w)')
  BY <1>1, <1>2, FS_Subset
<1> QED BY <1>3, FS_CardinalityType

\* The number of admitted requests does not fall if none of them leaves.
LEMMA AdmittedGrows ==
    ASSUME LimitConstants, NEW w, admitted(w) \subseteq admitted(w)'
    PROVE  Cardinality(admitted(w)) <= Cardinality(admitted(w)')
<1>1. IsFiniteSet(admitted(w)')
  BY AdmittedCard
<1> QED BY <1>1, FS_Subset

LEMMA FairInit == LimitConstants /\ Init => Fair
<1> SUFFICES ASSUME LimitConstants, Init PROVE Fair
  OBVIOUS
<1>1. Fresh
  BY DEF Init, Fresh, NoKey, Span, expiring
<1>2. Counted
  <2>1. \A w \in Window : count[w] = 0
    BY DEF Init
  <2> QED BY <2>1, AdmittedCard DEF Counted
<1>3. Justified
  BY DEF Init, Justified, Span, refusal
<1> QED BY <1>1, <1>2, <1>3 DEF Fair

\* What holds when requests only join those admitted, and counters only fall.
LEMMA FairKept ==
    ASSUME LimitConstants, Typed, Fair, repeated' = repeated,
           \A w \in Window : count'[w] \in Nat /\ count'[w] <= count[w],
           \A w \in Window : limitOf(w.span) = 0 \/ admitted(w) \subseteq admitted(w)',
           \A r \in Requests, span \in Span : at'[r] = refusal(span) =>
               /\ key'[r] = key[r] /\ key[r][span] # None
               /\ at[r] = refusal(span) \/ limitOf(span) = 0
    PROVE  Counted' /\ Justified'
<1>1. /\ \A w \in Window : limitOf(w.span) \in Nat /\ count[w] \in Nat
      /\ \A span \in Span : limitOf(span) \in Nat
  BY DEF Typed, TypeOK, limitOf, LimitConstants
<1>2. \A w \in Window : \/ limitOf(w.span) = 0
                        \/ Cardinality(admitted(w)) <= Cardinality(admitted(w)')
  BY AdmittedGrows
<1>3. Counted'
  <2> SUFFICES ASSUME NEW w \in Window, w \notin repeated'
               PROVE  \/ count'[w] <= Cardinality(admitted(w)')
                      \/ limitOf(w.span) <= Cardinality(admitted(w)')
    BY DEF Counted, limitOf
  <2>1. /\ Cardinality(admitted(w)) \in Nat /\ Cardinality(admitted(w)') \in Nat
        /\ count[w] \in Nat /\ count'[w] \in Nat /\ count'[w] <= count[w]
        /\ limitOf(w.span) \in Nat
        /\ limitOf(w.span) = 0 \/ Cardinality(admitted(w)) <= Cardinality(admitted(w)')
    BY <1>1, <1>2, AdmittedCard
  <2>2. \/ count[w] <= Cardinality(admitted(w))
        \/ limitOf(w.span) <= Cardinality(admitted(w))
    BY DEF Fair, Counted
  <2> QED BY <2>1, <2>2
<1>4. Justified'
  <2>1. \A r \in Requests, span \in Span : at'[r] = refusal(span) => key'[r][span] # None
    OBVIOUS
  <2>2. ASSUME NEW r \in Requests, NEW w \in Window, w \notin repeated,
               at'[r] = refusal(w.span), key'[r][w.span] = w
        PROVE  limitOf(w.span) <= Cardinality(admitted(w)')
    <3>1. w.span \in Span
      BY DEF Window
    <3>2. key[r][w.span] = w /\ (at[r] = refusal(w.span) \/ limitOf(w.span) = 0)
      BY <2>2, <3>1
    <3>3. limitOf(w.span) = 0 \/ limitOf(w.span) <= Cardinality(admitted(w))
      BY <2>2, <3>2 DEF Fair, Justified
    <3>4. limitOf(w.span) = 0 \/ Cardinality(admitted(w)) <= Cardinality(admitted(w)')
      BY <1>2
    <3>5. /\ Cardinality(admitted(w)) \in Nat /\ Cardinality(admitted(w)') \in Nat
          /\ limitOf(w.span) \in Nat
      BY <1>1, AdmittedCard
    <3> QED BY <3>3, <3>4, <3>5
  <2> QED BY <2>1, <2>2 DEF Justified, limitOf, refusal
<1> QED BY <1>3, <1>4

LEMMA FairIncr ==
    ASSUME LimitConstants, Typed, Fair, NEW r \in Requests, NEW span \in Span, incr(r, span)
    PROVE  Fair'
<1>t. TypeOK
  BY DEF Typed
<1>1. PICK v \in Window, n \in Nat, m \in Nat, place \in Places :
           /\ v = key[r][span] /\ v.span = span /\ at[r] = span
           /\ at'[r] = place /\ seen'[r][span] = n
           /\ \A s \in Span : s # span => seen'[r][s] = seen[r][s]
           /\ \A q \in Requests : q # r => at'[q] = at[q] /\ seen'[q] = seen[q]
           /\ count' = [count EXCEPT ![v] = m]
           /\ m \in {count[v], count[v] + 1}
           /\ \/ n = count[v] + 1 /\ m = n /\ repeated' = repeated /\ place = afterFirst(span, n)
              \/ n = 0 /\ repeated' = repeated /\ place = afterFirst(span, n)
              \/ repeated' = repeated \cup {v} /\ place = span
           /\ UNCHANGED key
  BY Incremented
<1>3. /\ count \in [Window -> Nat] /\ count[v] \in Nat
      /\ limitOf(span) \in Nat /\ v # None
  BY <1>t, NoneIsNoWindow DEF TypeOK, limitOf, LimitConstants
<1>4. repeated \subseteq repeated' /\ (v \notin repeated' => place = afterFirst(span, n))
  BY <1>1
\* r joins those admitted to v, unless it is refused or sends INCR again.
<1>5. /\ place = refusal(span) => n > limitOf(span) /\ place = afterFirst(span, n)
      /\ place = expiring(span) => n = 1
      /\ place = afterFirst(span, n) => place # span
      /\ \A s \in Span : s # span => place \notin {s, refusal(s), expiring(s)}
  <2>1. decide(span, n) = refusal(span) => n > limitOf(span)
    BY DEF decide, exceeds, refusal
  <2>2. /\ \A s, t \in Span : expiring(s) \notin {t, refusal(t)} /\ refusal(s) # t
        /\ \A s \in Span : {s, refusal(s), expiring(s)} \cap {"day key", "passed"} = {}
    BY DEF expiring, refusal, Span
  <2>3. decide(span, n) \in {refusal(span), "day key", "passed"}
    BY DEF decide
  <2>4. afterFirst(span, n) = IF n = 1 THEN expiring(span) ELSE decide(span, n)
    BY DEF afterFirst
  <2>5. place \in {span, afterFirst(span, n)}
    BY <1>1
  <2>6. place = refusal(span) => n > limitOf(span) /\ place = afterFirst(span, n)
    BY <2>1, <2>2, <2>4, <2>5
  <2>7. place = expiring(span) => n = 1
    BY <2>2, <2>3, <2>4, <2>5
  <2>8. place = afterFirst(span, n) => place # span
    BY <2>2, <2>3, <2>4
  <2>9. ASSUME NEW s \in Span, s # span PROVE place \notin {s, refusal(s), expiring(s)}
    <3>1. refusal(s) # refusal(span) /\ expiring(s) # expiring(span)
      BY <2>9, Names
    <3> QED BY <2>2, <2>3, <2>4, <2>5, <2>9, <3>1
  <2> QED BY <2>6, <2>7, <2>8, <2>9
<1>6. \A w \in Window : w # v => admitted(w)' = admitted(w)
  <2> SUFFICES ASSUME NEW w \in Window, w # v PROVE admitted(w)' = admitted(w)
    OBVIOUS
  <2>1. w.span \in Span
    BY DEF Window
  <2>2. \A q \in Requests : key[q][w.span] = w =>
            (at'[q] \in {w.span, refusal(w.span)} <=> at[q] \in {w.span, refusal(w.span)})
    <3>1. CASE w.span = span
      <4>1. key[r][w.span] # w
        BY <1>1, <3>1
      <4> QED BY <1>1, <4>1
    <3>2. CASE w.span # span
      <4>1. at[r] \notin {w.span, refusal(w.span)}
        BY <1>1, <2>1, <3>2 DEF refusal, Span
      <4>2. place \notin {w.span, refusal(w.span)}
        BY <1>5, <2>1, <3>2
      <4> QED BY <1>1, <4>1, <4>2
    <3> QED BY <3>1, <3>2
  <2> QED BY <1>1, <2>2 DEF admitted, refusal
<1>7. v \notin repeated' =>
          admitted(v)' = IF place = refusal(span) THEN admitted(v) ELSE admitted(v) \cup {r}
  <2> SUFFICES ASSUME v \notin repeated'
               PROVE  admitted(v)' = IF place = refusal(span) THEN admitted(v)
                                     ELSE admitted(v) \cup {r}
    OBVIOUS
  <2>1. /\ v.span = span /\ key[r][span] = v /\ key' = key
        /\ at[r] = span /\ at'[r] = place /\ place # span
        /\ \A q \in Requests : q # r => at'[q] = at[q]
    BY <1>1, <1>4, <1>5
  <2> QED BY <2>1 DEF admitted, refusal
<1>8. r \notin admitted(v)
  BY <1>1 DEF admitted
<1> DEFINE before == Cardinality(admitted(v))
           after == Cardinality(admitted(v)')
<1>9. ASSUME v \notin repeated'
      PROVE  /\ before \in Nat /\ after \in Nat
             /\ after = IF place = refusal(span) THEN before ELSE before + 1
  BY <1>7, <1>8, <1>9, AdmittedCard, FS_AddElement
<1>10. v \notin repeated' => count[v] <= before \/ limitOf(span) <= before
  BY <1>1, <1>4 DEF Fair, Counted
<1> HIDE DEF before, after
<1>11. ASSUME v \notin repeated'
       PROVE  /\ m <= after \/ limitOf(span) <= after
              /\ place = refusal(span) => limitOf(span) <= after
              /\ limitOf(span) <= before => limitOf(span) <= after
  <2>1. /\ before \in Nat /\ after \in Nat /\ limitOf(span) \in Nat /\ count[v] \in Nat
        /\ after = IF place = refusal(span) THEN before ELSE before + 1
        /\ count[v] <= before \/ limitOf(span) <= before
        /\ m \in {count[v], count[v] + 1}
    BY <1>1, <1>3, <1>9, <1>10, <1>11
  <2>2. CASE place = refusal(span)
    <3>1. n > limitOf(span) /\ n # 0 /\ after = before
      BY <1>3, <1>5, <2>1, <2>2
    <3>2. n = count[v] + 1 /\ m = n
      <4>1. place = afterFirst(span, n) /\ place # span
        BY <1>5, <2>2
      <4> QED BY <1>1, <3>1, <4>1
    <3> QED BY <2>1, <3>1, <3>2
  <2>3. CASE place # refusal(span)
    BY <2>1, <2>3
  <2> QED BY <2>2, <2>3
<1>14. Fresh'
  <2> SUFFICES ASSUME NEW q \in Requests
               PROVE  /\ at'[q] = "idle" => key[q]["minute"] = None
                      /\ at'[q] \in {"idle", "minute", "expire minute", "day key",
                                     "refused minute"} => key[q]["day"] = None
                      /\ \A s \in Span : at'[q] = expiring(s) => seen'[q][s] = 1
    BY <1>1 DEF Fresh, expiring
  <2>1. CASE q # r
    <3>1. at'[q] = at[q] /\ seen'[q] = seen[q]
      BY <1>1, <2>1
    <3> QED BY <3>1 DEF Fair, Fresh
  <2>2. CASE q = r
    <3>1. place \in {span, expiring(span), refusal(span), "day key", "passed"}
      BY <1>1 DEF afterFirst, decide
    <3>2. place # "idle"
      BY <3>1 DEF Span, expiring, refusal
    <3>3. span = "day" => place \notin {"idle", "minute", "expire minute", "day key", "refused minute"}
      BY <1>1 DEF afterFirst, decide, expiring, refusal
    <3>4. span # "day" => key[r]["day"] = None
      BY <1>1 DEF Span, Fair, Fresh
    <3>5. \A s \in Span : place = expiring(s) => s = span /\ n = 1
      BY <1>5
    <3> QED BY <1>1, <2>2, <3>2, <3>3, <3>4, <3>5
  <2> QED BY <2>1, <2>2
<1>15. Counted'
  <2> SUFFICES ASSUME NEW w \in Window, w \notin repeated'
               PROVE  \/ count'[w] <= Cardinality(admitted(w)')
                      \/ limitOf(w.span) <= Cardinality(admitted(w)')
    BY DEF Counted, limitOf
  <2>1. CASE w = v
    BY <1>1, <1>3, <1>11, <2>1 DEF after
  <2>2. CASE w # v
    <3>1. count'[w] = count[w] /\ admitted(w)' = admitted(w) /\ w \notin repeated
      BY <1>1, <1>3, <1>4, <1>6, <2>2
    <3> QED BY <3>1 DEF Fair, Counted
  <2> QED BY <2>1, <2>2
<1>16. Justified'
  <2>1. \A q \in Requests, s \in Span : at'[q] = refusal(s) => key'[q][s] # None
    <3> SUFFICES ASSUME NEW q \in Requests, NEW s \in Span, at'[q] = refusal(s)
                 PROVE  key[q][s] # None
      BY <1>1
    <3>1. CASE q = r
      <4>1. s = span
        BY <1>1, <1>5, <3>1
      <4> QED BY <1>1, <1>3, <3>1, <4>1
    <3>2. CASE q # r
      BY <1>1, <3>2 DEF Fair, Justified
    <3> QED BY <3>1, <3>2
  <2>2. ASSUME NEW q \in Requests, NEW w \in Window, w \notin repeated',
               at'[q] = refusal(w.span), key[q][w.span] = w
        PROVE  limitOf(w.span) <= Cardinality(admitted(w)')
    <3>1. w.span \in Span
      BY DEF Window
    <3>2. CASE q = r
      <4>1. w.span = span
        BY <1>1, <1>5, <2>2, <3>1, <3>2
      <4>2. w = v /\ place = refusal(span)
        BY <1>1, <2>2, <3>2, <4>1
      <4> QED BY <1>11, <2>2, <4>1, <4>2 DEF after
    <3>3. CASE q # r
      <4>1. limitOf(w.span) <= Cardinality(admitted(w))
        BY <1>1, <1>4, <2>2, <3>3 DEF Fair, Justified
      <4>2. CASE w = v
        BY <1>1, <1>11, <2>2, <4>1, <4>2 DEF before, after
      <4>3. CASE w # v
        BY <1>6, <4>1, <4>3
      <4> QED BY <4>2, <4>3
    <3> QED BY <3>2, <3>3
  <2> QED BY <1>1, <2>1, <2>2 DEF Justified, limitOf, refusal
<1> QED BY <1>14, <1>15, <1>16 DEF Fair

LEMMA Refused ==
    \A s, t \in Span : refusal(s) \in {refusal(t), "day key", "passed"} => s = t
BY DEF Span, refusal

LEMMA FairExpire ==
    ASSUME LimitConstants, Typed, Fair, NEW r \in Requests, NEW span \in Span, expire(r, span)
    PROVE  Fair'
<1>t. TypeOK
  BY DEF Typed
<1> DEFINE next == decide(span, seen[r][span])
<1>1. /\ at[r] = expiring(span) /\ at' = [at EXCEPT ![r] = next]
      /\ key[r][span] \in Window
      /\ UNCHANGED <<key, seen, count, repeated>>
  BY Expiring
<1>2. \A q \in Requests : at'[q] = IF q = r THEN next ELSE at[q]
  BY <1>1, <1>t DEF TypeOK
<1>3. seen[r][span] = 1
  BY <1>1 DEF Fair, Fresh
<1>4. next \in {refusal(span), IF span = "minute" THEN "day key" ELSE "passed"}
  BY DEF decide
<1>5. next = refusal(span) => limitOf(span) = 0
  <2>1. limitOf(span) \in Nat
    BY DEF limitOf, LimitConstants
  <2>2. next = refusal(span) => 1 > limitOf(span)
    BY <1>3 DEF decide, exceeds, refusal
  <2> QED BY <2>1, <2>2
<1> HIDE DEF next
<1>6. Fresh'
  <2>1. \A s \in Span : next # expiring(s)
    BY <1>4 DEF expiring, refusal
  <2>2. /\ next \notin {"idle", "minute"}
        /\ next \in {"day key", "refused minute"} => at[r] = "expire minute"
    BY <1>1, <1>4 DEF expiring, refusal, Span
  <2> SUFFICES ASSUME NEW q \in Requests
               PROVE  /\ at'[q] = "idle" => key[q]["minute"] = None
                      /\ at'[q] \in {"idle", "minute", "expire minute", "day key",
                                     "refused minute"} => key[q]["day"] = None
                      /\ \A s \in Span : at'[q] = expiring(s) => seen[q][s] = 1
    BY <1>1 DEF Fresh, expiring
  <2>3. CASE q # r
    BY <1>2, <2>3 DEF Fair, Fresh
  <2>4. CASE q = r
    <3>1. next # "expire minute"
      BY <1>4 DEF refusal
    <3> QED BY <1>2, <2>1, <2>2, <2>4, <3>1 DEF Fair, Fresh
  <2> QED BY <2>3, <2>4
<1>7. \A w \in Window : limitOf(w.span) = 0 \/ admitted(w) \subseteq admitted(w)'
  <2> SUFFICES ASSUME NEW w \in Window, limitOf(w.span) # 0, NEW q \in Requests,
                      key[q][w.span] = w, at[q] \notin {w.span, refusal(w.span)}
               PROVE  at'[q] \notin {w.span, refusal(w.span)}
    BY <1>1 DEF admitted, refusal
  <2>1. w.span \in Span
    BY DEF Window
  <2>2. next = refusal(w.span) => w.span = span
    BY <1>4, <2>1, Refused
  <2>3. next # w.span
    BY <1>4, <2>1 DEF refusal, Span
  <2> QED BY <1>2, <1>5, <2>2, <2>3
<1>8. \A q \in Requests, s \in Span : at'[q] = refusal(s) =>
          /\ key'[q] = key[q] /\ key[q][s] # None
          /\ at[q] = refusal(s) \/ limitOf(s) = 0
  <2>1. \A s \in Span : next = refusal(s) => s = span
    BY <1>4, Refused
  <2>2. key[r][span] # None
    BY <1>1, NoneIsNoWindow
  <2> QED BY <1>1, <1>2, <1>5, <2>1, <2>2 DEF Fair, Justified
<1>9. \A w \in Window : count'[w] \in Nat /\ count'[w] <= count[w]
  <2>1. count \in [Window -> Nat] /\ count' = count
    BY <1>1, <1>t DEF TypeOK
  <2> QED BY <2>1
<1>10. Counted' /\ Justified'
  BY <1>1, <1>7, <1>8, <1>9, FairKept
<1> QED BY <1>6, <1>10 DEF Fair

\* A request that chooses a counter is not yet among those that are through.
LEMMA FairChoose ==
    ASSUME LimitConstants, Typed, Fair, NEW r \in Requests, NEW span \in Span,
           NEW t \in Tokens, choose(r, t, span), at[r] = choosing(span),
           UNCHANGED <<now, seen, redis>>
    PROVE  Fair'
<1>t. TypeOK
  BY DEF Typed
<1>1. PICK v \in Window :
           /\ v.span = span
           /\ at'[r] = span /\ key'[r][span] = v
           /\ \A s \in Span : s # span => key'[r][s] = key[r][s]
           /\ \A q \in Requests : q # r => at'[q] = at[q] /\ key'[q] = key[q]
  BY <1>t, Chosen
<1>2. UNCHANGED <<seen, count, repeated>>
  BY DEF redis, history
<1>3. /\ key[r][span] = None /\ key[r]["day"] = None
      /\ \A s \in Span : expiring(s) # span /\ refusal(s) # span
  BY DEF Fair, Fresh, choosing, Span, expiring, refusal
<1>4. Fresh'
  <2> SUFFICES ASSUME NEW q \in Requests
               PROVE  /\ at'[q] = "idle" => key'[q]["minute"] = None
                      /\ at'[q] \in {"idle", "minute", "expire minute", "day key",
                                     "refused minute"} => key'[q]["day"] = None
                      /\ \A s \in Span : at'[q] = expiring(s) => seen[q][s] = 1
    BY <1>2 DEF Fresh, expiring
  <2>1. CASE q # r
    BY <1>1, <2>1 DEF Fair, Fresh
  <2>2. CASE q = r
    <3>1. span = "minute" => key'[r]["day"] = None
      BY <1>1, <1>3 DEF Span
    <3> QED BY <1>1, <1>3, <2>2, <3>1 DEF Span
  <2> QED BY <2>1, <2>2
<1>5. ASSUME NEW w \in Window PROVE admitted(w) \subseteq admitted(w)'
  <2> SUFFICES ASSUME NEW q \in Requests, key[q][w.span] = w,
                      at[q] \notin {w.span, refusal(w.span)}
               PROVE  key'[q][w.span] = w /\ at'[q] \notin {w.span, refusal(w.span)}
    BY DEF admitted, refusal
  <2>1. w.span \in Span /\ w # None
    BY NoneIsNoWindow DEF Window
  <2>2. CASE q # r
    BY <1>1, <2>2
  <2>3. CASE q = r
    <3>1. w.span # span
      BY <1>3, <2>1, <2>3
    <3> QED BY <1>1, <1>3, <2>1, <2>3, <3>1
  <2> QED BY <2>2, <2>3
<1>6. \A q \in Requests, s \in Span : at'[q] = refusal(s) =>
          /\ key'[q] = key[q] /\ key[q][s] # None
          /\ at[q] = refusal(s) \/ limitOf(s) = 0
  <2>1. \A q \in Requests, s \in Span : at'[q] = refusal(s) => q # r
    BY <1>1, <1>3
  <2> QED BY <1>1, <2>1 DEF Fair, Justified
<1>7. \A w \in Window : count'[w] \in Nat /\ count'[w] <= count[w]
  <2>1. count \in [Window -> Nat] /\ count' = count
    BY <1>2, <1>t DEF TypeOK
  <2> QED BY <2>1
<1>8. Counted' /\ Justified'
  BY <1>2, <1>5, <1>6, <1>7, FairKept
<1> QED BY <1>4, <1>8 DEF Fair

LEMMA FairStep == LimitConstants /\ Typed /\ Fair /\ [Next]_vars => Fair'
<1> SUFFICES ASSUME LimitConstants, Typed, Fair, [Next]_vars PROVE Fair'
  OBVIOUS
<1>t. TypeOK /\ count \in [Window -> Nat]
  BY DEF Typed, TypeOK
<1>1. ASSUME NEW r \in Requests, chooseDay(r), now' = now PROVE Fair'
  <2>1. /\ at[r] = "day key" /\ choose(r, token[r], "day") /\ UNCHANGED <<now, seen, redis>>
    BY <1>1 DEF chooseDay
  <2>2. token[r] \in Tokens
    BY <1>t, <2>1 DEF TypeOK
  <2> QED BY <2>1, <2>2, FairChoose DEF Span, choosing
<1>2. ASSUME NEW r \in Requests, Limit(r), now' = now PROVE Fair'
  BY <1>1, <1>2, FairIncr, FairExpire
     DEF Limit, incrMinute, incrDay, expireMinute, expireDay, Span
<1>3. ASSUME NEW r \in Requests, NEW t \in Tokens, arrive(r, t), now' = now PROVE Fair'
  BY <1>3, FairChoose DEF arrive, Span, choosing
<1>4. ASSUME UNCHANGED <<at, key, seen, repeated>>,
             \A w \in Window : count'[w] \in Nat /\ count'[w] <= count[w]
      PROVE  Fair'
  <2>1. Fresh'
    BY <1>4 DEF Fair, Fresh, expiring
  <2>2. \A w \in Window : admitted(w) \subseteq admitted(w)'
    BY <1>4 DEF admitted, refusal
  <2>3. \A q \in Requests, s \in Span : at'[q] = refusal(s) => at[q] = refusal(s) /\ key[q][s] # None
    BY <1>4 DEF Fair, Justified
  <2> QED BY <1>4, <2>1, <2>2, <2>3, FairKept DEF Fair
<1>5. ASSUME NEW v \in Window, drop(v) PROVE Fair'
  <2>1. count' = [count EXCEPT ![v] = 0] /\ UNCHANGED <<at, token, key, seen, repeated>>
    BY <1>5 DEF drop, requests
  <2>2. \A w \in Window : count'[w] \in Nat /\ count'[w] <= count[w]
    BY <1>t, <2>1
  <2> QED BY <1>4, <2>1, <2>2
<1>6. CASE tick
  <2>1. /\ \A w \in Window : count'[w] = count[w] \/ count'[w] = 0
        /\ UNCHANGED <<at, key, seen, repeated>>
    BY <1>6, <1>t, Ticking
  <2>2. \A w \in Window : count'[w] \in Nat /\ count'[w] <= count[w]
    BY <1>t, <2>1
  <2> QED BY <1>4, <2>1, <2>2
<1>7. CASE UNCHANGED vars
  <2>1. UNCHANGED <<at, key, seen, count, repeated>>
    BY <1>7 DEF vars, requests, redis, history
  <2>2. \A w \in Window : count'[w] \in Nat /\ count'[w] <= count[w]
    BY <1>t, <2>1
  <2> QED BY <1>4, <2>1, <2>2
<1> QED BY <1>2, <1>3, <1>5, <1>6, <1>7 DEF Next

LEMMA FairIsEnough == LimitConstants /\ Typed /\ Fair => NoFalseRefusal
<1> SUFFICES ASSUME LimitConstants, Typed, Fair, NEW r \in Requests, NEW span \in Span,
                    at[r] = refusal(span), key[r][span] \notin repeated
             PROVE  Cardinality(admittedBesides(r, key[r][span])) >= limitOf(span)
  BY DEF NoFalseRefusal
<1> DEFINE w == key[r][span]
<1>1. w # None
  BY DEF Fair, Justified
<1>2. w \in Window /\ w.span = span
  <2>1. key \in [Requests -> [Span -> Window \cup {None}]]
    BY DEF Typed, TypeOK
  <2> QED BY <1>1, <2>1 DEF Typed, KeyHeld
<1> HIDE DEF w
<1>3. limitOf(span) <= Cardinality(admitted(w))
  BY <1>2 DEF Fair, Justified, w
<1>4. admittedBesides(r, w) = admitted(w)
  BY <1>2 DEF admitted, admittedBesides
<1>5. limitOf(span) \in Nat /\ Cardinality(admitted(w)) \in Nat
  BY AdmittedCard DEF limitOf, LimitConstants
<1>6. Cardinality(admitted(w)) >= limitOf(span)
  BY <1>3, <1>5
<1> QED BY <1>4, <1>6 DEF w

-----------------------------------------------------------------------------
\* Every variable keeps its type.
THEOREM Typing == LimitConstants => (Spec => []TypeOK)
<1> SUFFICES ASSUME LimitConstants PROVE Spec => []TypeOK
  OBVIOUS
<1>1. Init => Typed
  BY TypedInit
<1>2. Typed /\ [Next]_vars => Typed'
  BY TypedStep
<1>3. Typed => TypeOK
  BY DEF Typed
<1> QED BY <1>1, <1>2, <1>3, PTL DEF Spec

\* Whatever fails and however requests interleave, a counter on which no command
\* failed has a time to live, or is about to get one.
THEOREM Expiry == LimitConstants => (Spec => []CountersExpire)
<1> SUFFICES ASSUME LimitConstants PROVE Spec => []CountersExpire
  OBVIOUS
<1>1. Init => Typed /\ CountersExpire
  <2>1. Init => CountersExpire
    BY DEF Init, CountersExpire
  <2> QED BY <2>1, TypedInit
<1>2. Typed /\ CountersExpire /\ [Next]_vars => (Typed /\ CountersExpire)'
  BY TypedStep, CountersExpireStep
<1> QED BY <1>1, <1>2, PTL DEF Spec

\* A token's requests of a minute or a day that Redis counted, answered and that
\* were served are no more than the limit, however they interleave, whenever
\* Redis executes their commands and whichever others fail, as long as the window
\* is no longer than its counter lives, and the counter was not lost and did not
\* begin after the window.
THEOREM Limitation == LimitConstants => (Spec => []WithinLimit)
<1> SUFFICES ASSUME LimitConstants PROVE Spec => []WithinLimit
  OBVIOUS
<1>1. Init => Typed /\ Limited
  BY TypedInit, LimitedInit
<1>2. Typed /\ Limited /\ [Next]_vars => (Typed /\ Limited)'
  BY TypedStep, LimitedStep
<1>3. Typed /\ Limited => WithinLimit
  BY LimitedIsEnough DEF Typed
<1> QED BY <1>1, <1>2, <1>3, PTL DEF Spec

\* A request is refused only after as many others of its token and window as the
\* limit allows got through the same check, unless the client library sent an
\* INCR of that counter twice.
THEOREM Refusals == LimitConstants => (Spec => []NoFalseRefusal)
<1> SUFFICES ASSUME LimitConstants PROVE Spec => []NoFalseRefusal
  OBVIOUS
<1>1. Init => Typed /\ Fair
  BY TypedInit, FairInit
<1>2. Typed /\ Fair /\ [Next]_vars => (Typed /\ Fair)'
  BY TypedStep, FairStep
<1>3. Typed /\ Fair => NoFalseRefusal
  BY FairIsEnough
<1> QED BY <1>1, <1>2, <1>3, PTL DEF Spec
=============================================================================
