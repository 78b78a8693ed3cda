--------------------------- MODULE ProtectedRoute ---------------------------
(***************************************************************************)
(* The way of a request to a protected route (cmd/api/main.go): first      *)
(* Authenticate, then Limit with the token that Authenticate put in the    *)
(* context, then the handler.                                              *)
(***************************************************************************)
EXTENDS Accounts

CONSTANTS PerMinute, PerDay, MinuteOf, DateOf, Minute, Day, MaxFaults

VARIABLES at, token, key, seen, count, expires, failed, repeated, late, dropped

Limiter == INSTANCE RateLimiter WITH Tokens <- TokenIDs

ASSUME LimitAssumption == Limiter!LimitConstants

limiterVars ==
    <<at, token, key, seen, count, expires, failed, repeated, late, dropped>>
vars == <<accountVars, limiterVars>>

RouteInit == Init /\ Limiter!Init

\* Faulty variant: the limiter is in front of the authentication, so no token
\* is in the context yet.
enterUnknown(r) == Limiter!letThrough(r)

\* An admitted request goes on to the limiter with the token in its context.
enter(r) == Limiter!arrive(r, req[r].token)

\* The middleware of the protected group, in the order of r.Use.
protected(r) ==
    \/ /\ req[r].place = "admitted"
       /\ enter(r) /\ finish(r)
       /\ UNCHANGED <<now, tables, issued, history>>
    \/ Limiter!Limit(r) /\ UNCHANGED accountVars

account(r) == step(r) /\ UNCHANGED limiterVars

time == tick /\ Limiter!tick

\* What neither the server nor its clients do.
elsewhere ==
    \/ administer /\ UNCHANGED limiterVars
    \/ (\E w \in Limiter!Window : Limiter!drop(w)) /\ UNCHANGED accountVars

Next ==
    \/ \E r \in Requests : account(r) \/ protected(r)
    \/ time
    \/ elsewhere

Spec == RouteInit /\ [][Next]_vars

-----------------------------------------------------------------------------
(* Properties                                                              *)

\* Every variable has its type.
TypeOK == AccountTypeOK /\ Limiter!TypeOK

\* The limits hold on the way to a protected route, whatever logins, refreshes
\* and revocations go on, as far as the limiter keeps them at all.
WithinLimit == Limiter!WithinLimit

\* Only requests that were admitted use up a token's limit: who is refused was
\* preceded by that many others that got through.
NoFalseRefusal == Limiter!NoFalseRefusal

\* Counters come with a time to live, or some command failed on them.
CountersExpire == Limiter!CountersExpire
=============================================================================
