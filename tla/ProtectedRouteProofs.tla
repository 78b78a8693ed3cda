------------------------- MODULE ProtectedRouteProofs -------------------------
(* What holds on the way of a request to a protected route, for any users,   *)
(* sessions, limits and times to live, any number of requests and failures:  *)
(* accounts and limiter composed keep what each of them promises.            *)
EXTENDS ProtectedRoute, AccountsProofs

LimiterProofs == INSTANCE RateLimiterProofs WITH Tokens <- TokenIDs

-----------------------------------------------------------------------------
(* Accounts                                                                *)

LEMMA RouteInvStep == Inv /\ [Next]_vars => Inv'
<1> SUFFICES ASSUME Inv, [Next]_vars PROVE Inv'
  OBVIOUS
<1>1. CASE UNCHANGED vars
  BY <1>1, InvStep DEF vars
<1>2. ASSUME NEW r \in Requests, account(r) \/ protected(r) PROVE Inv'
  <2>1. step(r) \/ leaves(r) \/ UNCHANGED accountVars
    BY <1>2 DEF account, protected, leaves
  <2> QED BY <2>1, InvStep DEF AccountNext
<1>3. CASE time \/ elsewhere
  <2>1. tick \/ administer \/ UNCHANGED accountVars
    BY <1>3 DEF time, elsewhere
  <2> QED BY <2>1, InvStep DEF AccountNext
<1> QED BY <1>1, <1>2, <1>3 DEF Next

LEMMA RouteInv == Spec => []Inv
<1>1. RouteInit => Inv
  BY InvInit DEF RouteInit
<1> QED BY <1>1, RouteInvStep, PTL DEF Spec

\* Accounts keep their types on the way to a protected route.
THEOREM AccountTyping == Spec => []AccountTypeOK
BY RouteInv, InvIsEnough, PTL

\* No two users ever have the same address.
THEOREM UniqueEmails == Spec => []OneUserPerEmail
BY RouteInv, InvIsEnough, PTL

\* No request passes with a credential that has been void, for one reason, since
\* it came.
THEOREM RevocationWorks == Spec => []RevokedMeansOut
BY RouteInv, InvIsEnough, PTL

\* No session admits a request that comes after its end, however often it is
\* refreshed.
THEOREM SessionsEnd == Spec => []SessionBounded
BY RouteInv, InvIsEnough, PTL

-----------------------------------------------------------------------------
(* The limiter                                                             *)

LEMMA LimiterInit == RouteInit => LimiterProofs!Init
BY DEF RouteInit, Limiter!Init, Limiter!NoKey, Limiter!NothingSeen, Limiter!Window,
       Limiter!Span, LimiterProofs!Init, LimiterProofs!NoKey,
       LimiterProofs!NothingSeen, LimiterProofs!Window, LimiterProofs!Span

\* The two instances of the limiter are the same.
LEMMA SameSizes ==
    /\ \A S : Limiter!IsFiniteSet(S) <=> LimiterProofs!IsFiniteSet(S)
    /\ \A S : Limiter!Cardinality(S) = LimiterProofs!Cardinality(S)
BY DEF Limiter!IsFiniteSet, LimiterProofs!IsFiniteSet, Limiter!Cardinality,
       LimiterProofs!Cardinality

LEMMA SameConstants == Limiter!LimitConstants => LimiterProofs!LimitConstants
BY SameSizes DEF Limiter!LimitConstants, LimiterProofs!LimitConstants

LEMMA SameKeys ==
    /\ \A s, t : Limiter!windowAt(s, t) = LimiterProofs!windowAt(s, t)
    /\ \A t, s : Limiter!keyOf(t, s) = LimiterProofs!keyOf(t, s)
    /\ \A s, n : Limiter!decide(s, n) = LimiterProofs!decide(s, n)
    /\ \A s, n : Limiter!afterFirst(s, n) = LimiterProofs!afterFirst(s, n)
    /\ \A s : Limiter!expiring(s) = LimiterProofs!expiring(s)
    /\ \A s : Limiter!timeToLive(s) = LimiterProofs!timeToLive(s)
    /\ Limiter!Window = LimiterProofs!Window
BY DEF Limiter!windowAt, Limiter!keyOf, Limiter!minuteKey, Limiter!dayKey, Limiter!decide,
       Limiter!exceeds, Limiter!limitOf, Limiter!refusal, Limiter!expiring,
       Limiter!afterFirst, Limiter!timeToLive, Limiter!Window, Limiter!Span,
       LimiterProofs!windowAt, LimiterProofs!keyOf, LimiterProofs!minuteKey,
       LimiterProofs!dayKey, LimiterProofs!decide, LimiterProofs!exceeds,
       LimiterProofs!limitOf, LimiterProofs!refusal, LimiterProofs!expiring,
       LimiterProofs!afterFirst, LimiterProofs!timeToLive, LimiterProofs!Window,
       LimiterProofs!Span

LEMMA SameIncrement == \A w : Limiter!increment(w) <=> LimiterProofs!increment(w)
BY SameKeys DEF Limiter!increment, Limiter!isOver, LimiterProofs!increment, LimiterProofs!isOver

LEMMA SameIncr ==
    ASSUME NEW r \in Requests, NEW span, Limiter!incr(r, span)
    PROVE  LimiterProofs!incr(r, span)
<1>1. Limiter!mayFail <=> LimiterProofs!mayFail
  BY SameSizes DEF Limiter!mayFail, LimiterProofs!mayFail
<1>2. \A w : Limiter!incrAnswered(r, w) => LimiterProofs!incrAnswered(r, w)
  BY SameKeys, SameIncrement DEF Limiter!incrAnswered, Limiter!learn,
     LimiterProofs!incrAnswered, LimiterProofs!learn
<1>3. \A w : Limiter!incrFailed(r, w) => LimiterProofs!incrFailed(r, w)
  BY <1>1, SameKeys, SameIncrement DEF Limiter!incrFailed, Limiter!learn,
     LimiterProofs!incrFailed, LimiterProofs!learn
<1>4. \A w : Limiter!incrRepeated(w) => LimiterProofs!incrRepeated(w)
  BY <1>1, SameIncrement DEF Limiter!incrRepeated, LimiterProofs!incrRepeated
<1> QED BY <1>2, <1>3, <1>4 DEF Limiter!incr, LimiterProofs!incr

LEMMA SameChoose ==
    \A r, t, s : Limiter!choose(r, t, s) => LimiterProofs!choose(r, t, s)
BY SameKeys DEF Limiter!choose, LimiterProofs!choose

LEMMA SameExpire ==
    ASSUME NEW r \in Requests, NEW span, Limiter!expire(r, span)
    PROVE  LimiterProofs!expire(r, span)
BY SameKeys, SameSizes DEF Limiter!expire, Limiter!mayFail, LimiterProofs!expire, LimiterProofs!mayFail

LEMMA SameLimit ==
    ASSUME NEW r \in Requests, Limiter!Limit(r)
    PROVE  LimiterProofs!Limit(r)
<1>1. Limiter!chooseDay(r) => LimiterProofs!chooseDay(r)
  BY SameChoose DEF Limiter!chooseDay, Limiter!redis, Limiter!history,
     LimiterProofs!chooseDay, LimiterProofs!redis, LimiterProofs!history
<1> QED BY <1>1, SameIncr, SameExpire
   DEF Limiter!Limit, Limiter!incrMinute, Limiter!incrDay, Limiter!expireMinute,
       Limiter!expireDay, LimiterProofs!Limit, LimiterProofs!incrMinute,
       LimiterProofs!incrDay, LimiterProofs!expireMinute, LimiterProofs!expireDay

LEMMA SameOthers ==
    /\ \A r, t : Limiter!arrive(r, t) => LimiterProofs!arrive(r, t)
    /\ \A w : Limiter!drop(w) => LimiterProofs!drop(w)
    /\ Limiter!tick => LimiterProofs!tick
<1>1. \A r, t : Limiter!arrive(r, t) => LimiterProofs!arrive(r, t)
  BY SameChoose DEF Limiter!arrive, Limiter!redis, Limiter!history, LimiterProofs!arrive,
     LimiterProofs!redis, LimiterProofs!history
<1>2. \A w : Limiter!drop(w) => LimiterProofs!drop(w)
  BY SameSizes DEF Limiter!drop, Limiter!mayFail, Limiter!requests, LimiterProofs!drop,
     LimiterProofs!mayFail, LimiterProofs!requests
<1>3. Limiter!tick => LimiterProofs!tick
  BY SameKeys DEF Limiter!tick, Limiter!requests, Limiter!history, LimiterProofs!tick,
     LimiterProofs!requests, LimiterProofs!history
<1> QED BY <1>1, <1>2, <1>3

\* A step on the way is one of the limiter, for a token that exists, or none.
LEMMA LimiterStep ==
    Inv /\ [Next]_vars => [LimiterProofs!Next]_(LimiterProofs!vars)
<1> SUFFICES ASSUME Inv, [Next]_vars
             PROVE  LimiterProofs!Next \/ UNCHANGED <<now, limiterVars>>
  BY DEF LimiterProofs!vars, LimiterProofs!requests, LimiterProofs!redis,
         LimiterProofs!history, limiterVars
<1>1. ASSUME NEW r \in Requests, account(r) PROVE UNCHANGED <<now, limiterVars>>
  BY <1>1 DEF account, step, Register, Login, RefreshToken, Authenticate, badRequest,
              lookUpEmail, createUser, login, createToken, refresh, validate,
              validateAPIKey, validateJWT, presents, sign, findUser, fail
<1>2. ASSUME NEW r \in Requests, protected(r) PROVE LimiterProofs!Next
  <2>1. CASE req[r].place = "admitted" /\ enter(r) /\ UNCHANGED now
    <3>1. req[r].token \in TokenIDs
      BY <2>1 DEF Inv, Known
    <3> QED BY <2>1, <3>1, SameOthers DEF enter, LimiterProofs!Next
  <2>2. CASE Limiter!Limit(r) /\ UNCHANGED now
    BY <2>2, SameLimit DEF LimiterProofs!Next
  <2> QED BY <1>2, <2>1, <2>2 DEF protected, accountVars
<1>3. time => LimiterProofs!Next
  BY SameOthers DEF time, LimiterProofs!Next
<1>4. elsewhere => LimiterProofs!Next \/ UNCHANGED <<now, limiterVars>>
  <2>1. administer => UNCHANGED now
    BY DEF administer
  <2>2. (\E w \in Limiter!Window : Limiter!drop(w)) /\ UNCHANGED now => LimiterProofs!Next
    BY SameKeys, SameOthers DEF LimiterProofs!Next
  <2> QED BY <2>1, <2>2 DEF elsewhere, accountVars
<1> QED BY <1>1, <1>2, <1>3, <1>4 DEF Next, vars, accountVars

LEMMA LimiterRuns == Spec => LimiterProofs!Spec
BY RouteInv, LimiterInit, LimiterStep, PTL DEF Spec, LimiterProofs!Spec

\* Every variable has its type.
THEOREM RouteTyping == Spec => []TypeOK
<1>1. LimiterProofs!TypeOK => Limiter!TypeOK
  BY SameKeys DEF Limiter!TypeOK, LimiterProofs!TypeOK, Limiter!Span, LimiterProofs!Span
<1>2. LimiterProofs!Spec => []LimiterProofs!TypeOK
  BY LimitAssumption, SameConstants, LimiterProofs!Typing
<1> QED BY <1>1, <1>2, AccountTyping, LimiterRuns, PTL DEF TypeOK

\* On the way to a protected route the limits hold, of windows no longer than
\* their counters live and of counters neither lost nor begun too late.
THEOREM LimitsHold == Spec => []WithinLimit
<1>1. LimiterProofs!WithinLimit => WithinLimit
  <2>1. \A w : Limiter!ordinary(w) <=> LimiterProofs!ordinary(w)
    BY SameKeys DEF Limiter!ordinary, Limiter!lengthOf, LimiterProofs!ordinary,
       LimiterProofs!lengthOf
  <2> QED BY <2>1, SameKeys, SameSizes
          DEF WithinLimit, Limiter!WithinLimit, Limiter!served, Limiter!limitOf,
              LimiterProofs!WithinLimit, LimiterProofs!served, LimiterProofs!limitOf
<1>2. LimiterProofs!Spec => []LimiterProofs!WithinLimit
  BY LimitAssumption, SameConstants, LimiterProofs!Limitation
<1> QED BY <1>1, <1>2, LimiterRuns, PTL

\* On the way to a protected route nobody is refused before the limit is used up.
THEOREM RefusalsAreDue == Spec => []NoFalseRefusal
<1>1. LimiterProofs!NoFalseRefusal => NoFalseRefusal
  BY SameSizes DEF NoFalseRefusal, Limiter!NoFalseRefusal, Limiter!admittedBesides, Limiter!limitOf,
         Limiter!refusal, Limiter!Span, LimiterProofs!NoFalseRefusal,
         LimiterProofs!admittedBesides, LimiterProofs!limitOf, LimiterProofs!refusal,
         LimiterProofs!Span
<1>2. LimiterProofs!Spec => []LimiterProofs!NoFalseRefusal
  BY LimitAssumption, SameConstants, LimiterProofs!Refusals
<1> QED BY <1>1, <1>2, LimiterRuns, PTL

\* On the way to a protected route no counter is left without a time to live.
THEOREM CountersEnd == Spec => []CountersExpire
<1>1. LimiterProofs!CountersExpire => CountersExpire
  BY SameKeys DEF CountersExpire, Limiter!CountersExpire, LimiterProofs!CountersExpire
<1>2. LimiterProofs!Spec => []LimiterProofs!CountersExpire
  BY LimitAssumption, SameConstants, LimiterProofs!Expiry
<1> QED BY <1>1, <1>2, LimiterRuns, PTL
=============================================================================
