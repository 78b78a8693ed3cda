---------------------------- MODULE AccountsProofs ----------------------------
(* What accounts and sessions guarantee for any users, sessions, keys and    *)
(* times to live, any number of requests and of operations on the tables.    *)
EXTENDS Accounts, TLAPS

-----------------------------------------------------------------------------
(* The inductive invariant                                                 *)

\* What is known of a request with the fields of f.
Known(f) ==
    /\ f \in Request
    /\ f.place = "create user" => f.email \in Emails
    /\ f.place \in {"create token", "sign", "find user", "admitted"} => f.user \in UserIDs
    /\ f.place \in {"sign", "find user", "admitted"} =>
           /\ f.token \in TokenIDs
           /\ tokens[f.token] # None => tokens[f.token].UserID = f.user
    /\ f.place \in {"find user", "admitted"} =>
           /\ f.credential \in Credential /\ f.credential.TokenID = f.token
           /\ f.token \notin Keys => f.began <= opened[f.token] + SessionTTL
    /\ f.place = "find user" =>
           /\ f.barred \subseteq {"user"}
           /\ "user" \in f.barred => tokens[f.token] # None /\ ~active(f.user)
    /\ f.place = "admitted" => f.barred = {}

\* JWTs agree with the row they name, sessions with the login that opened them,
\* and no row outlives its user.
TablesAgree ==
    /\ \A c \in issued :
        /\ c \in Credential /\ c.UserID \in UserIDs
        /\ tokens[c.TokenID] # None => tokens[c.TokenID].UserID = c.UserID
    /\ \A t \in TokenIDs : tokens[t] # None => users[tokens[t].UserID] # None
    /\ \A t \in TokenIDs \ Keys :
        /\ tokens[t] # None => tokens[t].ExpiresAt = opened[t] + SessionTTL
        /\ opened[t] <= now

\* The types of everything but the requests.
TablesTyped ==
    /\ now \in 0..MaxTime
    /\ users \in [UserIDs -> User \cup {None}]
    /\ tokens \in [TokenIDs -> Token \cup {None}]
    /\ opened \in [TokenIDs -> Nat]
    /\ operations \in 0..MaxOperations

Early == {"idle", "create user", "create token"}

\* An id that a request has yet to make up is used nowhere.
Unused ==
    \A q \in Requests :
        /\ req[q].place \in Early =>
            /\ tokens[q] = None
            /\ \A c \in issued : c.TokenID # q
            /\ \A r \in Requests : req[r].token # q
        /\ req[q].place \in {"idle", "create user"} => users[q] = None

Inv ==
    /\ TablesTyped /\ TablesAgree /\ OneUserPerEmail /\ Unused
    /\ req \in [Requests -> Request]
    /\ \A r \in Requests : Known(req[r])

LEMMA Ids == /\ None \notin UserIDs /\ None \notin TokenIDs /\ None \notin Emails
             /\ Requests \subseteq UserIDs /\ Requests \subseteq TokenIDs /\ Keys \subseteq TokenIDs
             /\ \A r \in Requests : r \notin Keys /\ r \notin Sessions /\ r \notin Veterans
BY IdAssumption DEF UserIDs, TokenIDs

LEMMA Times == /\ SessionTTL \in Nat /\ KeyTTL \in Nat /\ AccessTTL \in Nat
               /\ RefreshTTL \in Nat /\ MaxTime \in Nat /\ MaxOperations \in Nat
BY TimeAssumption

\* A request that has ended, or not begun.
LEMMA AtRest ==
    /\ Idle \in Request /\ Ended \in Request
    /\ Idle.place = "idle" /\ Ended.place = "done"
    /\ Idle.token = None /\ Ended.token = None
    /\ Known(Idle) /\ Known(Ended)
<1>1. /\ Idle \in Request /\ Ended \in Request
      /\ Idle.place = "idle" /\ Ended.place = "done"
      /\ Idle.token = None /\ Ended.token = None
  BY DEF Idle, Ended, Request
<1> QED BY <1>1 DEF Known

-----------------------------------------------------------------------------
(* Steps that change one request and no table                              *)

LEMMA Quiet ==
    ASSUME Inv, NEW r \in Requests, NEW f, Known(f),
           req' = [req EXCEPT ![r] = f],
           f.place \in Early => req[r].place = "idle",
           \A q \in Requests : f.token = q => req[q].place \notin Early,
           UNCHANGED <<now, tables, issued, history>>
    PROVE  Inv'
<1>1. UNCHANGED <<now, users, tokens, issued, opened, operations>>
  BY DEF tables, history
<1>2. TablesTyped' /\ TablesAgree' /\ OneUserPerEmail'
  BY <1>1 DEF Inv, TablesTyped, TablesAgree, OneUserPerEmail
<1>3. /\ f \in Request
      /\ \A q \in Requests : req'[q] = IF q = r THEN f ELSE req[q]
      /\ req' \in [Requests -> Request]
  BY DEF Inv, Known
<1>4. Unused'
  <2> SUFFICES ASSUME NEW q \in Requests
               PROVE  /\ req'[q].place \in Early =>
                            /\ tokens[q] = None /\ \A c \in issued : c.TokenID # q
                            /\ \A p \in Requests : req'[p].token # q
                      /\ req'[q].place \in {"idle", "create user"} => users[q] = None
    BY <1>1 DEF Unused
  <2>1. req'[q].place \in Early => req[q].place \in Early
    BY <1>3 DEF Early
  <2>2. req'[q].place \in {"idle", "create user"} => req[q].place \in {"idle", "create user"}
    BY <1>3 DEF Early
  <2> QED BY <1>3, <2>1, <2>2 DEF Inv, Unused
<1>6. \A q \in Requests : Known(req'[q])
  BY <1>3 DEF Inv
<1>7. \A q \in Requests : Known(req[q])'
  BY <1>1, <1>6 DEF Known, active, activeIn
<1> QED BY <1>2, <1>3, <1>4, <1>7 DEF Inv

LEMMA Resting ==
    ASSUME Inv, NEW r \in Requests, req' = [req EXCEPT ![r] = Ended],
           UNCHANGED <<now, tables, issued, history>>
    PROVE  Inv'
<1>1. Known(Ended) /\ Ended.place \notin Early /\ \A q \in Requests : Ended.token # q
  BY AtRest, Ids DEF Early
<1> QED BY <1>1, Quiet

\* A request that arrives, with no token yet.
LEMMA Arriving ==
    ASSUME Inv, NEW r \in Requests, NEW f, arrive(r, f), Known(f), f.token = None,
           UNCHANGED <<now, tables, issued, history>>
    PROVE  Inv'
<1>1. req[r] = Idle /\ req' = [req EXCEPT ![r] = f]
  BY DEF arrive
<1>2. req[r].place = "idle" /\ \A q \in Requests : f.token # q
  BY <1>1, AtRest, Ids
<1> QED BY <1>1, <1>2, Quiet

LEMMA LookUp ==
    ASSUME Inv, NEW r \in Requests, NEW email \in Emails, lookUpEmail(r, email)
    PROVE  Inv'
<1> DEFINE f == [Idle EXCEPT !.place = "create user", !.op = "register", !.email = email]
<1>1. UNCHANGED <<now, tables, issued, history>>
  BY DEF lookUpEmail
<1>2. f \in Request /\ f.place = "create user" /\ f.token = None /\ f.email = email
  BY DEF Idle, Request
<1>3. Known(f)
  BY <1>2 DEF Known
<1>4. CASE arrive(r, Ended)
  BY <1>1, <1>4, Arriving, AtRest
<1>5. CASE arrive(r, f)
  BY <1>1, <1>2, <1>3, <1>5, Arriving
<1> QED BY <1>4, <1>5 DEF lookUpEmail

LEMMA LoggingIn ==
    ASSUME Inv, NEW r \in Requests, NEW email \in Emails, login(r, email)
    PROVE  Inv'
<1>1. UNCHANGED <<now, tables, issued, history>>
  BY DEF login
<1>2. CASE arrive(r, Ended)
  BY <1>1, <1>2, Arriving, AtRest
<1>3. ASSUME NEW u \in UserIDs,
             arrive(r, [Idle EXCEPT !.place = "create token", !.op = "login", !.user = u])
      PROVE  Inv'
  <2> DEFINE f == [Idle EXCEPT !.place = "create token", !.op = "login", !.user = u]
  <2>1. f \in Request /\ f.place = "create token" /\ f.token = None /\ f.user = u
    BY DEF Idle, Request
  <2>2. Known(f)
    BY <2>1 DEF Known
  <2> QED BY <1>1, <1>3, <2>1, <2>2, Arriving
<1> QED BY <1>2, <1>3 DEF login, FindByEmail

\* A credential whose row is valid: what the request that presents it knows.
LEMMA Presenting ==
    ASSUME Inv, NEW r \in Requests, NEW op \in {"refresh", "protected"},
           NEW c \in Credential, NEW accepted \in BOOLEAN, presents(r, op, c, accepted),
           accepted => /\ tokens[c.TokenID] # None /\ IsValid(tokens[c.TokenID])
                       /\ userOf(c, tokens[c.TokenID].UserID) = tokens[c.TokenID].UserID,
           \A q \in Requests : c.TokenID = q => req[q].place \notin Early
    PROVE  Inv'
<1> DEFINE t == c.TokenID
           f == [place |-> "find user", op |-> op, email |-> None, credential |-> c,
                 token |-> t, user |-> userOf(c, tokens[t].UserID),
                 began |-> now, barred |-> causes(users, tokens, c)]
<1>1. UNCHANGED <<now, tables, issued, history>>
  BY DEF presents
<1>2. CASE ~accepted
  <2>1. arrive(r, Ended)
    BY <1>2 DEF presents
  <2> QED BY <1>1, <2>1, Arriving, AtRest
<1>3. CASE accepted
  <2>1. arrive(r, f)
    BY <1>3 DEF presents
  <2>2. t \in TokenIDs /\ tokens[t] # None /\ IsValid(tokens[t])
    BY <1>3 DEF Credential
  <2>3. tokens[t] \in Token /\ tokens[t].UserID \in UserIDs /\ tokens[t].ExpiresAt \in Nat
    BY <2>2 DEF Inv, TablesTyped, Token
  <2>4. f.user = tokens[t].UserID
    BY <1>3
  <2>5. now \in Nat
    BY Times DEF Inv, TablesTyped
  <2>6. /\ causes(users, tokens, c) \subseteq {"user"}
        /\ "user" \in causes(users, tokens, c) => ~active(tokens[t].UserID)
    BY <2>2 DEF causes, IsValid, active, activeIn
  <2>7. t \notin Keys => now <= opened[t] + SessionTTL
    <3> SUFFICES ASSUME t \notin Keys PROVE now <= opened[t] + SessionTTL
      OBVIOUS
    <3>1. tokens[t].ExpiresAt = opened[t] + SessionTTL
      BY <2>2 DEF Inv, TablesAgree
    <3>2. ~(now > tokens[t].ExpiresAt)
      BY <2>2 DEF IsValid, IsExpired
    <3> QED BY <2>3, <2>5, <3>1, <3>2
  <2>8. f \in Request
    BY <2>2, <2>3, <2>4, <2>5, <2>6 DEF Request
  <2>9. Known(f)
    BY <2>2, <2>3, <2>4, <2>6, <2>7, <2>8 DEF Known
  <2>10. req[r].place = "idle" /\ req' = [req EXCEPT ![r] = f]
    BY <2>1, AtRest DEF arrive
  <2>11. f.place \in Early => req[r].place = "idle"
    BY <2>10
  <2>12. \A q \in Requests : f.token = q => req[q].place \notin Early
    OBVIOUS
  <2> HIDE DEF f
  <2> QED BY <1>1, <2>9, <2>10, <2>11, <2>12, Quiet
<1> QED BY <1>2, <1>3

LEMMA PresentingJWT ==
    ASSUME Inv, NEW r \in Requests, NEW c \in issued, refresh(r, c) \/ validateJWT(r, c)
    PROVE  Inv'
<1>1. c \in Credential /\ c.TokenID \in TokenIDs
  BY DEF Inv, TablesAgree, Credential
<1>2. ASSUME claimsLeadToToken(c)
      PROVE  /\ tokens[c.TokenID] # None /\ IsValid(tokens[c.TokenID])
             /\ tokens[c.TokenID].UserID = c.UserID
  BY <1>1, <1>2 DEF claimsLeadToToken, FindByID, scanToken, Inv, TablesAgree
<1>3. claimsLeadToToken(c) => userOf(c, tokens[c.TokenID].UserID) = tokens[c.TokenID].UserID
  BY <1>2 DEF userOf
<1>4. \A q \in Requests : c.TokenID = q => req[q].place \notin Early
  BY DEF Inv, Unused
<1>5. /\ claimsLeadToToken(c) \in BOOLEAN
      /\ (c.TokenType = "refresh" /\ claimsLeadToToken(c)) \in BOOLEAN
  BY DEF claimsLeadToToken
<1>6. CASE refresh(r, c)
  BY <1>1, <1>2, <1>3, <1>4, <1>5, <1>6, Presenting DEF refresh
<1>7. CASE validateJWT(r, c)
  BY <1>1, <1>2, <1>3, <1>4, <1>5, <1>7, Presenting DEF validateJWT
<1> QED BY <1>6, <1>7

LEMMA PresentingKey ==
    ASSUME Inv, NEW r \in Requests, NEW k \in Keys, validateAPIKey(r, k)
    PROVE  Inv'
<1> DEFINE c == APIKey(k)
<1>1. c \in Credential /\ c.TokenID = k /\ c.TokenType = "key"
  BY Ids DEF APIKey, NoCredential, Credential
<1> HIDE DEF c
<1>2. keyLeadsToToken(c) => /\ tokens[c.TokenID] # None /\ IsValid(tokens[c.TokenID])
                            /\ userOf(c, tokens[c.TokenID].UserID) = tokens[c.TokenID].UserID
  BY <1>1 DEF keyLeadsToToken, FindByHash, scanToken, userOf
<1>3. \A q \in Requests : c.TokenID # q
  BY <1>1, Ids
<1>4. keyLeadsToToken(c) \in BOOLEAN
  BY DEF keyLeadsToToken
<1>5. presents(r, "protected", c, keyLeadsToToken(c))
  BY DEF validateAPIKey, c
<1> QED BY <1>1, <1>2, <1>3, <1>4, <1>5, Presenting

LEMMA Finding ==
    ASSUME Inv, NEW r \in Requests, findUser(r)
    PROVE  Inv'
<1>1. UNCHANGED <<now, tables, issued, history>> /\ req[r].place = "find user"
  BY DEF findUser
<1>2. Known(req[r]) /\ req[r] \in Request
  BY DEF Inv
<1>3. CASE ~active(req[r].user)
  BY <1>1, <1>3, Resting DEF findUser, finish
<1>4. ASSUME active(req[r].user), NEW p \in {"sign", "admitted"},
             req' = [req EXCEPT ![r] = [req[r] EXCEPT !.place = p]]
      PROVE  Inv'
  <2> DEFINE f == [req[r] EXCEPT !.place = p]
  <2>1. /\ f \in Request /\ f.place = p /\ f.user = req[r].user /\ f.token = req[r].token
        /\ f.credential = req[r].credential /\ f.barred = req[r].barred
        /\ f.began = req[r].began
    BY <1>2 DEF Request
  <2>2. f.barred = {}
    BY <1>1, <1>2, <1>4, <2>1 DEF Known
  <2> HIDE DEF f
  <2>3. Known(f)
    BY <1>1, <1>2, <2>1, <2>2 DEF Known
  <2>4. \A q \in Requests : f.token = q => req[q].place \notin Early
    BY <2>1 DEF Inv, Unused
  <2>5. f.place \notin Early /\ req' = [req EXCEPT ![r] = f]
    BY <1>4, <2>1 DEF Early, f
  <2> QED BY <1>1, <2>3, <2>4, <2>5, Quiet
<1> QED BY <1>3, <1>4 DEF findUser, goTo

LEMMA Failing ==
    ASSUME Inv, NEW r \in Requests, fail(r)
    PROVE  Inv'
BY Resting DEF fail, finish

LEMMA BadRequest ==
    ASSUME Inv, NEW r \in Requests, badRequest(r)
    PROVE  Inv'
BY Arriving, AtRest DEF badRequest

-----------------------------------------------------------------------------
(* Steps that change a table                                               *)

\* What is known stays known while the rows concerned do not change.
LEMMA KnownKept ==
    ASSUME TablesAgree, NEW f, Known(f),
           f.token \in TokenIDs => /\ tokens'[f.token] = tokens[f.token]
                                   /\ opened'[f.token] = opened[f.token],
           \A u \in UserIDs : users[u] # None => users'[u] = users[u]
    PROVE  Known(f)'
<1>1. f.place = "find user" /\ "user" \in f.barred => ~active(f.user)'
  <2> SUFFICES ASSUME f.place = "find user", "user" \in f.barred PROVE ~active(f.user)'
    OBVIOUS
  <2>1. /\ f.user \in UserIDs /\ f.token \in TokenIDs /\ tokens[f.token] # None
        /\ tokens[f.token].UserID = f.user /\ ~active(f.user)
    BY DEF Known
  <2>2. users[f.user] # None
    BY <2>1 DEF TablesAgree
  <2>3. users'[f.user] = users[f.user]
    BY <2>1, <2>2
  <2> QED BY <2>1, <2>3 DEF active, activeIn
<1> QED BY <1>1 DEF Known, active, activeIn

LEMMA CreatingUser ==
    ASSUME Inv, NEW r \in Requests, createUser(r)
    PROVE  Inv'
<1> DEFINE user == NewUser(req[r].email)
<1>1. /\ req[r].place = "create user" /\ req' = [req EXCEPT ![r] = Ended]
      /\ UNCHANGED <<now, tokens, issued, opened, operations>>
  BY DEF createUser, finish, history
<1>2. users[r] = None /\ user \in User /\ user # None
  <2>1. users[r] = None
    BY <1>1 DEF Inv, Unused
  <2>2. user \in User
    BY <1>1 DEF Inv, Known, NewUser, User
  <2> QED BY <2>1, <2>2, RowAssumption
<1>3. /\ \A u \in UserIDs : u # r => users'[u] = users[u]
      /\ users' \in [UserIDs -> User \cup {None}]
      /\ \/ users'[r] = None
         \/ /\ users'[r] = user
            /\ \A u \in UserIDs : users[u] # None => users[u].Email # user.Email
  <2>1. users \in [UserIDs -> User \cup {None}] /\ r \in UserIDs
    BY Ids DEF Inv, TablesTyped
  <2>2. \/ users' = users
        \/ /\ users' = [users EXCEPT ![r] = user]
           /\ \A u \in UserIDs : users[u] # None => users[u].Email # user.Email
    BY DEF createUser, CreateRow, uniqueEmail, FindByEmail
  <2> HIDE DEF user
  <2> QED BY <1>2, <2>1, <2>2
<1> HIDE DEF user
<1>4. TablesTyped'
  BY <1>1, <1>3 DEF Inv, TablesTyped
<1>5. TablesAgree'
  <2>1. \A t \in TokenIDs : tokens[t] # None => users'[tokens[t].UserID] # None
    <3> SUFFICES ASSUME NEW t \in TokenIDs, tokens[t] # None
                 PROVE  users'[tokens[t].UserID] # None
      OBVIOUS
    <3>1. tokens[t].UserID \in UserIDs
      BY DEF Inv, TablesTyped, Token
    <3>2. users[tokens[t].UserID] # None
      BY DEF Inv, TablesAgree
    <3> QED BY <1>2, <1>3, <3>1, <3>2
  <2> QED BY <1>1, <2>1 DEF Inv, TablesAgree
<1>6. OneUserPerEmail'
  <2> SUFFICES ASSUME NEW u \in UserIDs, NEW v \in UserIDs,
                      users'[u] # None, users'[v] # None, users'[u].Email = users'[v].Email
               PROVE  u = v
    BY DEF OneUserPerEmail
  <2>1. CASE u # r /\ v # r
    BY <1>3, <2>1 DEF Inv, OneUserPerEmail
  <2>2. CASE u = r \/ v = r
    BY <1>2, <1>3, <2>2
  <2> QED BY <2>1, <2>2
<1>7. /\ req' \in [Requests -> Request]
      /\ \A q \in Requests : req'[q] = IF q = r THEN Ended ELSE req[q]
  BY <1>1, AtRest DEF Inv
<1>8. Unused'
  <2> SUFFICES ASSUME NEW q \in Requests
               PROVE  /\ req'[q].place \in Early =>
                            /\ tokens[q] = None /\ \A c \in issued : c.TokenID # q
                            /\ \A p \in Requests : req'[p].token # q
                      /\ req'[q].place \in {"idle", "create user"} => users'[q] = None
    BY <1>1 DEF Unused
  <2>1. CASE q = r
    BY <1>7, <2>1, AtRest DEF Early
  <2>2. CASE q # r
    <3>1. req[q].place \in Early =>
              /\ tokens[q] = None /\ \A c \in issued : c.TokenID # q
              /\ \A p \in Requests : req[p].token # q
      BY DEF Inv, Unused
    <3>2. \A p \in Requests : req'[p].token \in {None, req[p].token}
      BY <1>7, AtRest
    <3>3. q # None /\ req'[q] = req[q] /\ users'[q] = users[q]
      BY <1>3, <1>7, <2>2, Ids
    <3>4. req[q].place \in {"idle", "create user"} => users[q] = None
      BY DEF Inv, Unused
    <3> QED BY <3>1, <3>2, <3>3, <3>4
  <2> QED BY <2>1, <2>2
<1>9. ASSUME NEW q \in Requests, NEW f, f = req'[q] PROVE Known(f)'
  <2>1. Known(f)
    BY <1>7, <1>9, AtRest DEF Inv
  <2>2. \A u \in UserIDs : users[u] # None => users'[u] = users[u]
    BY <1>2, <1>3
  <2> QED BY <1>1, <2>1, <2>2, KnownKept DEF Inv
<1>10. \A q \in Requests : Known(req[q])'
  BY <1>9 DEF Known, active, activeIn
<1> QED BY <1>4, <1>5, <1>6, <1>7, <1>8, <1>10 DEF Inv

LEMMA CreatingToken ==
    ASSUME Inv, NEW r \in Requests, createToken(r)
    PROVE  Inv'
<1> DEFINE u == req[r].user
           row == NewAPIKey(u, now + SessionTTL)
           f == [[req[r] EXCEPT !.token = r] EXCEPT !.place = "sign"]
<1>1. CASE users[u] = None
  <2>1. req' = [req EXCEPT ![r] = Ended] /\ UNCHANGED <<now, tables, issued, history>>
    BY <1>1 DEF createToken, finish, tables, history
  <2> QED BY <2>1, Resting
<1>2. CASE users[u] # None
  <2>1. /\ req[r].place = "create token" /\ u \in UserIDs /\ req[r] \in Request
    BY DEF createToken, Inv, Known
  <2>2. /\ tokens' = [tokens EXCEPT ![r] = row] /\ opened' = [opened EXCEPT ![r] = now]
        /\ UNCHANGED <<now, users, issued, operations>>
    BY <1>2 DEF createToken, CreateToken
  <2>3. req' = [req EXCEPT ![r] = f]
    <3>1. req' = [req EXCEPT ![r].token = r, ![r].place = "sign"]
      BY <1>2 DEF createToken
    <3>2. req \in [Requests -> Request]
      BY DEF Inv
    <3> QED BY <3>1, <3>2
  <2>4. f \in Request /\ f.place = "sign" /\ f.token = r /\ f.user = u
    BY <2>1, Ids DEF Request
  <2>5. row \in Token /\ row.UserID = u /\ row.ExpiresAt = now + SessionTTL /\ now \in Nat
    <3>1. now \in Nat
      BY Times DEF Inv, TablesTyped
    <3>2. now + SessionTTL \in Nat
      BY <3>1, Times
    <3> QED BY <2>1, <3>1, <3>2 DEF NewAPIKey, Token
  <2>6. r \in TokenIDs /\ r \notin Keys /\ r # None
    BY Ids
  <2> HIDE DEF f, row, u
  <2>7. /\ tokens' \in [TokenIDs -> Token \cup {None}] /\ opened' \in [TokenIDs -> Nat]
        /\ tokens'[r] = row /\ opened'[r] = now
        /\ \A t \in TokenIDs : t # r => tokens'[t] = tokens[t] /\ opened'[t] = opened[t]
    BY <2>2, <2>5, <2>6 DEF Inv, TablesTyped
  <2>8. /\ req' \in [Requests -> Request]
        /\ \A q \in Requests : req'[q] = IF q = r THEN f ELSE req[q]
    BY <2>3, <2>4 DEF Inv
  <2>9. /\ \A c \in issued : c.TokenID # r
        /\ \A q \in Requests : req[q].token # r
    BY <2>1 DEF Inv, Unused, Early
  <2>10. TablesTyped'
    BY <2>2, <2>7 DEF Inv, TablesTyped
  <2>11. TablesAgree'
    <3>1. \A c \in issued : /\ c \in Credential /\ c.UserID \in UserIDs
                            /\ tokens'[c.TokenID] # None => tokens'[c.TokenID].UserID = c.UserID
      BY <2>7, <2>9 DEF Inv, TablesAgree, Credential
    <3>2. \A t \in TokenIDs : tokens'[t] # None => users[tokens'[t].UserID] # None
      BY <1>2, <2>5, <2>7 DEF Inv, TablesAgree
    <3>3. \A t \in TokenIDs \ Keys :
             /\ tokens'[t] # None => tokens'[t].ExpiresAt = opened'[t] + SessionTTL
             /\ opened'[t] <= now
      BY <2>5, <2>7 DEF Inv, TablesAgree
    <3> QED BY <2>2, <3>1, <3>2, <3>3 DEF TablesAgree
  <2>12. OneUserPerEmail'
    BY <2>2 DEF Inv, OneUserPerEmail
  <2>13. Unused'
    <3> SUFFICES ASSUME NEW q \in Requests
                 PROVE  /\ req'[q].place \in Early =>
                              /\ tokens'[q] = None /\ \A c \in issued : c.TokenID # q
                              /\ \A p \in Requests : req'[p].token # q
                        /\ req'[q].place \in {"idle", "create user"} => users[q] = None
      BY <2>2 DEF Unused
    <3>1. CASE q = r
      BY <2>4, <2>8, <3>1 DEF Early
    <3>2. CASE q # r
      <4>1. /\ req[q].place \in Early =>
                 /\ tokens[q] = None /\ \A c \in issued : c.TokenID # q
                 /\ \A p \in Requests : req[p].token # q
            /\ req[q].place \in {"idle", "create user"} => users[q] = None
        BY DEF Inv, Unused
      <4>2. q \in TokenIDs /\ tokens'[q] = tokens[q] /\ req'[q] = req[q]
        BY <2>7, <2>8, <3>2, Ids
      <4>3. \A p \in Requests : req'[p].token \in {r, req[p].token}
        BY <2>4, <2>8
      <4> QED BY <3>2, <4>1, <4>2, <4>3
    <3> QED BY <3>1, <3>2
  <2>14. ASSUME NEW q \in Requests, NEW g, g = req'[q] PROVE Known(g)'
    <3>1. CASE q = r
      <4>1. g \in Request /\ g.place = "sign" /\ g.token = r /\ g.user = u
        BY <2>4, <2>8, <2>14, <3>1
      <4>2. r \in TokenIDs /\ u \in UserIDs /\ tokens'[r].UserID = u
        BY <2>1, <2>5, <2>6, <2>7
      <4> QED BY <4>1, <4>2 DEF Known
    <3>2. CASE q # r
      <4>1. Known(g) /\ g.token # r
        BY <2>8, <2>9, <2>14, <3>2 DEF Inv
      <4> QED BY <2>2, <2>7, <4>1, KnownKept DEF Inv
    <3> QED BY <3>1, <3>2
  <2>15. \A q \in Requests : Known(req[q])'
    BY <2>14 DEF Known, active, activeIn
  <2> QED BY <2>8, <2>10, <2>11, <2>12, <2>13, <2>15 DEF Inv
<1> QED BY <1>1, <1>2

LEMMA Signing ==
    ASSUME Inv, NEW r \in Requests, sign(r)
    PROVE  Inv'
<1> DEFINE t == req[r].token
           u == req[r].user
<1>1. /\ req[r].place = "sign" /\ req' = [req EXCEPT ![r] = Ended]
      /\ issued' = issued \cup signed(req[r])
      /\ UNCHANGED <<now, users, tokens, opened, operations>>
  BY DEF sign, finish, tables, history
<1>2. t \in TokenIDs /\ u \in UserIDs /\ (tokens[t] # None => tokens[t].UserID = u)
  BY <1>1 DEF Inv, Known
<1>3. \A c \in signed(req[r]) : c \in Credential /\ c.TokenID = t /\ c.UserID = u
  <2>1. now + AccessTTL \in Nat /\ now + RefreshTTL \in Nat
    <3>1. now \in Nat
      BY Times DEF Inv, TablesTyped
    <3> QED BY <3>1, Times
  <2>2. \A c \in {GenerateAccessToken(u, t), GenerateRefreshToken(u, t)} :
            c \in Credential /\ c.TokenID = t /\ c.UserID = u
    BY <1>2, <2>1 DEF GenerateAccessToken, GenerateRefreshToken, Credential
  <2>3. signed(req[r]) \subseteq {GenerateAccessToken(u, t), GenerateRefreshToken(u, t)}
    BY DEF signed
  <2> QED BY <2>2, <2>3
<1>4. TablesTyped' /\ OneUserPerEmail'
  BY <1>1 DEF Inv, TablesTyped, OneUserPerEmail
<1>5. TablesAgree'
  <2>1. \A c \in issued' : /\ c \in Credential /\ c.UserID \in UserIDs
                           /\ tokens[c.TokenID] # None => tokens[c.TokenID].UserID = c.UserID
    BY <1>1, <1>2, <1>3 DEF Inv, TablesAgree
  <2> QED BY <1>1, <2>1 DEF Inv, TablesAgree
<1>6. /\ req' \in [Requests -> Request]
      /\ \A q \in Requests : req'[q] = IF q = r THEN Ended ELSE req[q]
  BY <1>1, AtRest DEF Inv
<1>7. Unused'
  <2> SUFFICES ASSUME NEW q \in Requests
               PROVE  /\ req'[q].place \in Early =>
                            /\ tokens[q] = None /\ \A c \in issued' : c.TokenID # q
                            /\ \A p \in Requests : req'[p].token # q
                      /\ req'[q].place \in {"idle", "create user"} => users[q] = None
    BY <1>1 DEF Unused
  <2>1. CASE q = r
    BY <1>6, <2>1, AtRest DEF Early
  <2>2. CASE q # r
    <3>1. req[q].place \in Early =>
              /\ tokens[q] = None /\ t # q
              /\ \A c \in issued : c.TokenID # q
              /\ \A p \in Requests : req[p].token # q
      BY DEF Inv, Unused
    <3>2. \A p \in Requests : req'[p].token \in {None, req[p].token}
      BY <1>6, AtRest
    <3>3. q # None /\ req'[q] = req[q]
      BY <1>6, <2>2, Ids
    <3>4. req[q].place \in {"idle", "create user"} => users[q] = None
      BY DEF Inv, Unused
    <3> QED BY <1>1, <1>3, <3>1, <3>2, <3>3, <3>4
  <2> QED BY <2>1, <2>2
<1>8. ASSUME NEW q \in Requests PROVE Known(req[q])'
  <2>1. Known(req'[q])
    BY <1>6, AtRest DEF Inv
  <2> QED BY <1>1, <2>1 DEF Known, active, activeIn
<1> QED BY <1>4, <1>5, <1>6, <1>7, <1>8 DEF Inv

LEMMA Ticking ==
    ASSUME Inv, tick
    PROVE  Inv'
<1>1. /\ now' = now + 1 /\ now < MaxTime
      /\ UNCHANGED <<users, tokens, issued, req, opened, operations>>
  BY DEF tick, tables, history
<1>2. now \in 0..MaxTime /\ now' \in 0..MaxTime /\ now <= now'
  BY <1>1, Times DEF Inv, TablesTyped
<1>3. TablesTyped' /\ OneUserPerEmail' /\ Unused'
  BY <1>1, <1>2 DEF Inv, TablesTyped, OneUserPerEmail, Unused
<1>4. TablesAgree'
  <2>1. \A t \in TokenIDs \ Keys : opened[t] <= now'
    <3>1. \A t \in TokenIDs \ Keys : opened[t] \in Nat /\ opened[t] <= now
      BY DEF Inv, TablesAgree, TablesTyped
    <3> QED BY <1>2, <3>1, Times
  <2> QED BY <1>1, <2>1 DEF Inv, TablesAgree
<1>5. \A q \in Requests : Known(req[q])'
  BY <1>1 DEF Inv, Known, active, activeIn
<1> QED BY <1>1, <1>3, <1>4, <1>5 DEF Inv

-----------------------------------------------------------------------------
(* The operations on the tables                                            *)

\* What every operation does: rows keep their user and their time, or go, and a
\* user's rows go with the user.
Administered ==
    /\ users' \in [UserIDs -> User \cup {None}]
    /\ tokens' \in [TokenIDs -> Token \cup {None}]
    /\ \A u \in UserIDs : users[u] = None => users'[u] = None
    /\ \A t \in TokenIDs :
        \/ tokens'[t] = None
        \/ /\ tokens[t] # None
           /\ tokens'[t].UserID = tokens[t].UserID /\ tokens'[t].ExpiresAt = tokens[t].ExpiresAt
           /\ users'[tokens[t].UserID] # None
    /\ OneUserPerEmail'

LEMMA Updating ==
    ASSUME Inv, NEW u \in UserIDs, NEW user \in User, Update(u, user)
    PROVE  Administered
<1>1. /\ users[u] # None /\ users' = [users EXCEPT ![u] = user] /\ tokens' = tokens
      /\ \A v \in UserIDs : users[v] # None /\ users[v].Email = user.Email => v = u
  BY DEF Update, FindByEmail
<1>2. user # None
  BY RowAssumption
<1>3. users \in [UserIDs -> User \cup {None}] /\ tokens \in [TokenIDs -> Token \cup {None}]
  BY DEF Inv, TablesTyped
<1>4. /\ users' \in [UserIDs -> User \cup {None}]
      /\ \A v \in UserIDs : users'[v] = IF v = u THEN user ELSE users[v]
  BY <1>1, <1>3
<1>5. OneUserPerEmail'
  BY <1>1, <1>4 DEF Inv, OneUserPerEmail
<1>6. \A t \in TokenIDs : tokens[t] # None => users'[tokens[t].UserID] # None
  <2> SUFFICES ASSUME NEW t \in TokenIDs, tokens[t] # None PROVE users'[tokens[t].UserID] # None
    OBVIOUS
  <2>1. tokens[t].UserID \in UserIDs
    BY <1>3 DEF Token
  <2>2. users[tokens[t].UserID] # None
    BY DEF Inv, TablesAgree
  <2> QED BY <1>2, <1>4, <2>1, <2>2
<1> QED BY <1>1, <1>3, <1>4, <1>5, <1>6 DEF Administered

LEMMA Deleting ==
    ASSUME Inv, NEW u \in UserIDs, Delete(u)
    PROVE  Administered
<1>1. /\ users' = [users EXCEPT ![u] = None]
      /\ tokens' = [t \in TokenIDs |->
             IF tokens[t] # None /\ tokens[t].UserID = u THEN None ELSE tokens[t]]
  BY DEF Delete, ownedBy
<1>2. users \in [UserIDs -> User \cup {None}] /\ tokens \in [TokenIDs -> Token \cup {None}]
  BY DEF Inv, TablesTyped
<1>3. /\ users' \in [UserIDs -> User \cup {None}]
      /\ \A v \in UserIDs : users'[v] = IF v = u THEN None ELSE users[v]
  BY <1>1, <1>2
<1>4. OneUserPerEmail'
  BY <1>3 DEF Inv, OneUserPerEmail
<1>5. \A t \in TokenIDs : tokens[t] # None =>
          tokens[t].UserID \in UserIDs /\ users[tokens[t].UserID] # None
  BY <1>2 DEF Inv, TablesAgree, Token
<1> QED BY <1>1, <1>2, <1>3, <1>4, <1>5 DEF Administered

\* Operations on tokens alone.
LEMMA TokensOnly ==
    ASSUME Inv, UNCHANGED users, tokens' \in [TokenIDs -> Token \cup {None}],
           \A t \in TokenIDs :
              \/ tokens'[t] = None
              \/ /\ tokens[t] # None
                 /\ tokens'[t].UserID = tokens[t].UserID
                 /\ tokens'[t].ExpiresAt = tokens[t].ExpiresAt
    PROVE  Administered
<1>1. users' \in [UserIDs -> User \cup {None}] /\ OneUserPerEmail'
  BY DEF Inv, TablesTyped, OneUserPerEmail
<1>2. \A t \in TokenIDs : tokens[t] # None => users[tokens[t].UserID] # None
  BY DEF Inv, TablesAgree
<1> QED BY <1>1, <1>2 DEF Administered

LEMMA Revoking ==
    ASSUME Inv, NEW T, tokens' = revokedAmong(T), UNCHANGED users
    PROVE  Administered
<1>1. tokens \in [TokenIDs -> Token \cup {None}]
  BY DEF Inv, TablesTyped
<1>2. \A t \in TokenIDs :
          tokens'[t] = IF t \in T /\ tokens[t] # None
                       THEN [tokens[t] EXCEPT !.IsRevoked = TRUE] ELSE tokens[t]
  BY DEF revokedAmong
<1>3. ASSUME NEW row \in Token
      PROVE  /\ [row EXCEPT !.IsRevoked = TRUE] \in Token
             /\ [row EXCEPT !.IsRevoked = TRUE].UserID = row.UserID
             /\ [row EXCEPT !.IsRevoked = TRUE].ExpiresAt = row.ExpiresAt
  BY DEF Token
<1>4. tokens' \in [TokenIDs -> Token \cup {None}]
  BY <1>1, <1>3 DEF revokedAmong
<1>5. \A t \in TokenIDs :
          \/ tokens'[t] = None
          \/ /\ tokens[t] # None
             /\ tokens'[t].UserID = tokens[t].UserID
             /\ tokens'[t].ExpiresAt = tokens[t].ExpiresAt
  BY <1>1, <1>2, <1>3
<1> QED BY <1>4, <1>5, TokensOnly

LEMMA DeletingExpired ==
    ASSUME Inv, DeleteExpired
    PROVE  Administered
<1>1. tokens \in [TokenIDs -> Token \cup {None}]
  BY DEF Inv, TablesTyped
<1>2. /\ tokens' = [t \in TokenIDs |->
             IF tokens[t] # None /\ tokens[t].ExpiresAt < now THEN None ELSE tokens[t]]
      /\ UNCHANGED users
  BY DEF DeleteExpired
<1>3. tokens' \in [TokenIDs -> Token \cup {None}]
  BY <1>1, <1>2
<1>4. \A t \in TokenIDs : tokens'[t] = None \/ (tokens[t] # None /\ tokens'[t] = tokens[t])
  BY <1>2
<1> QED BY <1>2, <1>3, <1>4, TokensOnly

LEMMA Administering ==
    ASSUME Inv, administer
    PROVE  Inv'
<1>1. /\ operations < MaxOperations /\ operations' = operations + 1
      /\ UNCHANGED <<now, issued, opened>>
      /\ req' = [r \in Requests |->
             [req[r] EXCEPT !.barred =
                  {b \in @ : b \in causes(users', tokens', req[r].credential)}]]
  BY DEF administer
<1>2. Administered
  BY Updating, Deleting, Revoking, DeletingExpired
     DEF administer, Revoke, RevokeAllForUser
<1>3. TablesTyped' /\ OneUserPerEmail'
  BY <1>1, <1>2, Times DEF Administered, Inv, TablesTyped
<1>4. TablesAgree'
  <2>1. \A c \in issued : /\ c \in Credential /\ c.UserID \in UserIDs
                          /\ tokens'[c.TokenID] # None => tokens'[c.TokenID].UserID = c.UserID
    BY <1>2 DEF Administered, Inv, TablesAgree, Credential
  <2>2. \A t \in TokenIDs : tokens'[t] # None => users'[tokens'[t].UserID] # None
    BY <1>2 DEF Administered
  <2>3. \A t \in TokenIDs \ Keys :
           /\ tokens'[t] # None => tokens'[t].ExpiresAt = opened[t] + SessionTTL
           /\ opened[t] <= now
    BY <1>2 DEF Administered, Inv, TablesAgree
  <2> QED BY <1>1, <2>1, <2>2, <2>3 DEF TablesAgree
<1>5. ASSUME NEW q \in Requests
      PROVE  /\ req'[q] \in Request
             /\ req'[q].place = req[q].place /\ req'[q].token = req[q].token
             /\ req'[q].user = req[q].user /\ req'[q].email = req[q].email
             /\ req'[q].credential = req[q].credential /\ req'[q].began = req[q].began
             /\ req'[q].barred \subseteq req[q].barred
             /\ req'[q].barred \subseteq causes(users', tokens', req[q].credential)
  <2>1. req[q] \in Request
    BY DEF Inv
  <2> DEFINE B == {b \in req[q].barred : b \in causes(users', tokens', req[q].credential)}
  <2>2. req'[q] = [req[q] EXCEPT !.barred = B]
    BY <1>1
  <2>3. B \subseteq req[q].barred /\ B \subseteq causes(users', tokens', req[q].credential)
    OBVIOUS
  <2> HIDE DEF B
  <2> QED BY <2>1, <2>2, <2>3 DEF Request
<1>6. req' \in [Requests -> Request]
  BY <1>1, <1>5
<1>7. Unused'
  <2>1. \A q \in Requests : /\ req[q].place \in Early => tokens'[q] = None
                            /\ req[q].place \in {"idle", "create user"} => users'[q] = None
    BY <1>2, Ids DEF Administered, Inv, Unused
  <2> SUFFICES ASSUME NEW q \in Requests
               PROVE  /\ req'[q].place \in Early =>
                            /\ tokens'[q] = None /\ \A c \in issued : c.TokenID # q
                            /\ \A p \in Requests : req'[p].token # q
                      /\ req'[q].place \in {"idle", "create user"} => users'[q] = None
    BY <1>1 DEF Unused
  <2>2. req[q].place \in Early =>
            /\ \A c \in issued : c.TokenID # q
            /\ \A p \in Requests : req[p].token # q
    BY DEF Inv, Unused
  <2> QED BY <1>5, <2>1, <2>2
<1>8. ASSUME NEW q \in Requests, NEW f, f = req'[q] PROVE Known(f)'
  <2> DEFINE g == req[q]
  <2>1. /\ f \in Request /\ f.place = g.place /\ f.token = g.token /\ f.user = g.user
        /\ f.email = g.email /\ f.credential = g.credential /\ f.began = g.began
        /\ f.barred \subseteq g.barred
        /\ f.barred \subseteq causes(users', tokens', g.credential)
    BY <1>5, <1>8
  <2>2. Known(g)
    BY DEF Inv
  <2> HIDE DEF g
  <2>3. f.token \in TokenIDs /\ tokens'[f.token] # None =>
            tokens'[f.token].UserID = tokens[f.token].UserID /\ tokens[f.token] # None
    BY <1>2 DEF Administered
  <2>4. f.place = "find user" /\ "user" \in f.barred =>
            tokens'[f.token] # None /\ ~active(f.user)'
    <3> SUFFICES ASSUME f.place = "find user", "user" \in f.barred
                 PROVE  tokens'[f.token] # None /\ ~active(f.user)'
      OBVIOUS
    <3>1. "user" \in causes(users', tokens', g.credential) /\ g.credential.TokenID = f.token
      BY <2>1, <2>2 DEF Known
    <3>2. tokens'[f.token] # None /\ ~activeIn(users', tokens'[f.token].UserID)
      BY <3>1 DEF causes
    <3>3. tokens'[f.token].UserID = f.user
      BY <2>1, <2>2, <2>3, <3>2 DEF Known
    <3> QED BY <3>2, <3>3 DEF active
  <2>5. opened' = opened
    BY <1>1
  <2> QED BY <2>1, <2>2, <2>3, <2>4, <2>5 DEF Known, active, activeIn
<1>9. \A q \in Requests : Known(req[q])'
  BY <1>8 DEF Known, active, activeIn
<1> QED BY <1>3, <1>4, <1>6, <1>7, <1>9 DEF Inv

-----------------------------------------------------------------------------
(* The invariant                                                           *)

LEMMA InvInit == Init => Inv
<1> SUFFICES ASSUME Init PROVE Inv
  OBVIOUS
<1>1. PICK e \in [Veterans -> Emails] :
          /\ \A u, v \in Veterans : e[u] = e[v] => u = v
          /\ users = [u \in UserIDs |-> IF u \in Veterans THEN NewUser(e[u]) ELSE None]
  BY DEF Init
<1>2. PICK owner \in [Sessions \cup Keys -> Veterans] :
          /\ tokens = [t \in TokenIDs |->
                  IF t \in Sessions THEN NewAPIKey(owner[t], SessionTTL)
                  ELSE IF t \in Keys THEN NewAPIKey(owner[t], KeyTTL)
                  ELSE None]
          /\ issued = {GenerateAccessToken(owner[s], s) : s \in Sessions}
                      \cup {GenerateRefreshToken(owner[s], s) : s \in Sessions}
  BY DEF Init
<1>3. /\ now = 0 /\ req = [r \in Requests |-> Idle]
      /\ opened = [t \in TokenIDs |-> 0] /\ operations = 0
  BY DEF Init
<1>4. /\ \A t \in Sessions : NewAPIKey(owner[t], SessionTTL) \in Token
      /\ \A t \in Keys : NewAPIKey(owner[t], KeyTTL) \in Token
      /\ \A u \in Veterans : NewUser(e[u]) \in User /\ NewUser(e[u]).Email = e[u]
  BY <1>1, <1>2, Times DEF NewAPIKey, NewUser, Token, User, UserIDs
<1>5. \A c \in issued : \E s \in Sessions :
          c \in Credential /\ c.TokenID = s /\ c.UserID = owner[s]
  <2>1. now + AccessTTL \in Nat /\ now + RefreshTTL \in Nat
    BY <1>3, Times
  <2>2. ASSUME NEW s \in Sessions
        PROVE  /\ GenerateAccessToken(owner[s], s) \in Credential
               /\ GenerateRefreshToken(owner[s], s) \in Credential
               /\ GenerateAccessToken(owner[s], s).TokenID = s
               /\ GenerateAccessToken(owner[s], s).UserID = owner[s]
               /\ GenerateRefreshToken(owner[s], s).TokenID = s
               /\ GenerateRefreshToken(owner[s], s).UserID = owner[s]
    BY <1>2, <2>1 DEF GenerateAccessToken, GenerateRefreshToken, Credential, UserIDs, TokenIDs
  <2> QED BY <1>2, <2>2
<1>6. TablesTyped
  <2>1. users \in [UserIDs -> User \cup {None}]
    BY <1>1, <1>4
  <2>2. tokens \in [TokenIDs -> Token \cup {None}]
    BY <1>2, <1>4
  <2>3. now \in 0..MaxTime /\ operations \in 0..MaxOperations
    BY <1>3, Times
  <2> QED BY <1>3, <2>1, <2>2, <2>3 DEF TablesTyped
<1>7. TablesAgree
  <2>1. \A t \in Sessions \cup Keys : t \in TokenIDs /\ owner[t] \in Veterans
    BY <1>2 DEF TokenIDs
  <2>2. /\ \A t \in Sessions : tokens[t].UserID = owner[t] /\ tokens[t].ExpiresAt = SessionTTL
        /\ \A t \in Keys : tokens[t].UserID = owner[t]
    BY <1>2, <2>1 DEF NewAPIKey
  <2>3. \A t \in TokenIDs : t \notin Sessions \cup Keys => tokens[t] = None
    BY <1>2
  <2>4. \A u \in Veterans : u \in UserIDs /\ users[u] # None
    BY <1>1, <1>4, RowAssumption DEF UserIDs
  <2>5. \A c \in issued : /\ c \in Credential /\ c.UserID \in UserIDs
                          /\ tokens[c.TokenID] # None => tokens[c.TokenID].UserID = c.UserID
    BY <1>5, <2>1, <2>2, <2>4
  <2>6. \A t \in TokenIDs : tokens[t] # None => users[tokens[t].UserID] # None
    BY <2>1, <2>2, <2>3, <2>4
  <2>7. \A t \in TokenIDs \ Keys :
           /\ tokens[t] # None => tokens[t].ExpiresAt = opened[t] + SessionTTL
           /\ opened[t] <= now
    BY <1>3, <2>2, <2>3, Times
  <2> QED BY <2>5, <2>6, <2>7 DEF TablesAgree
<1>8. OneUserPerEmail
  BY <1>1, <1>4 DEF OneUserPerEmail
<1>9. Unused
  <2>1. \A q \in Requests : tokens[q] = None /\ users[q] = None
    BY <1>1, <1>2, Ids
  <2>2. \A c \in issued, q \in Requests : c.TokenID # q
    BY <1>5, Ids
  <2>3. \A r, q \in Requests : req[r].token # q
    BY <1>3, AtRest, Ids
  <2> QED BY <2>1, <2>2, <2>3 DEF Unused
<1>10. req \in [Requests -> Request] /\ \A r \in Requests : Known(req[r])
  BY <1>3, AtRest
<1> QED BY <1>6, <1>7, <1>8, <1>9, <1>10 DEF Inv

\* A request that was admitted goes on to what the route is for.
leaves(r) ==
    /\ req[r].place = "admitted" /\ finish(r)
    /\ UNCHANGED <<now, tables, issued, history>>

LEMMA InvStep ==
    ASSUME Inv, AccountNext \/ (\E r \in Requests : leaves(r)) \/ UNCHANGED accountVars
    PROVE  Inv'
<1>1. ASSUME NEW r \in Requests, step(r) PROVE Inv'
  <2>1. CASE Register(r)
    BY <2>1, LookUp, CreatingUser, BadRequest DEF Register
  <2>2. CASE Login(r)
    BY <2>2, LoggingIn, CreatingToken, BadRequest DEF Login
  <2>3. CASE RefreshToken(r)
    BY <2>3, PresentingJWT, BadRequest DEF RefreshToken
  <2>4. CASE Authenticate(r)
    BY <2>4, PresentingJWT, PresentingKey, BadRequest DEF Authenticate, validate
  <2>5. CASE sign(r) \/ findUser(r) \/ fail(r)
    BY <2>5, Signing, Finding, Failing
  <2> QED BY <1>1, <2>1, <2>2, <2>3, <2>4, <2>5 DEF step
<1>2. ASSUME NEW r \in Requests, leaves(r) PROVE Inv'
  BY <1>2, Resting DEF leaves, finish
<1>3. CASE UNCHANGED accountVars
  <2>1. UNCHANGED <<now, users, tokens, issued, req, opened, operations>>
    BY <1>3 DEF accountVars, tables, history
  <2>2. TablesTyped' /\ TablesAgree' /\ OneUserPerEmail' /\ Unused'
    BY <2>1 DEF Inv, TablesTyped, TablesAgree, OneUserPerEmail, Unused
  <2>3. \A q \in Requests : Known(req[q])'
    BY <2>1 DEF Inv, Known, active, activeIn
  <2> QED BY <2>1, <2>2, <2>3 DEF Inv
<1> QED BY <1>1, <1>2, <1>3, Ticking, Administering DEF AccountNext

-----------------------------------------------------------------------------
(* What follows from it                                                    *)

LEMMA InvIsEnough ==
    Inv => AccountTypeOK /\ OneUserPerEmail /\ RevokedMeansOut /\ SessionBounded
<1> SUFFICES ASSUME Inv
             PROVE  AccountTypeOK /\ OneUserPerEmail /\ RevokedMeansOut /\ SessionBounded
  OBVIOUS
<1>1. AccountTypeOK
  BY DEF Inv, TablesTyped, TablesAgree, AccountTypeOK
<1>2. RevokedMeansOut
  BY DEF Inv, Known, RevokedMeansOut
<1>3. SessionBounded
  BY DEF Inv, Known, SessionBounded
<1> QED BY <1>1, <1>2, <1>3 DEF Inv
=============================================================================
