-------------------------- MODULE MCProtectedRoute --------------------------
(* One user, with an open session and an API key, and two requests.  A tick  *)
(* is a minute; the first day is as long as a counter of a day lives.        *)
EXTENDS ProtectedRoute, TLC

MCMinuteOf == [t \in 0..MaxTime |-> t]
MCDateOf == [t \in 0..MaxTime |-> IF t < 2 THEN 0 ELSE 1]

Symmetry == Permutations(Requests) \cup Permutations(Emails)
=============================================================================
