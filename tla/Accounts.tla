------------------------------ MODULE Accounts ------------------------------
(***************************************************************************)
(* Users, sessions and API keys: CreateUser, Login, RefreshToken and       *)
(* ValidateToken over the tables users and user_tokens and the clock.      *)
(*                                                                         *)
(* A JWT is its claims; the claims are checked and the row they name is    *)
(* read in one step.  Every other database call is a step of its own, so   *)
(* requests, the clock and the repositories' other operations (revocation, *)
(* deactivation, deletion) come between.  A password is right or wrong.    *)
(* The ids that a request makes up (uuid.New) are the request itself.      *)
(* Columns that nothing decides on are left out: last_used_at, names.      *)
(***************************************************************************)
EXTENDS Integers, FiniteSets

CONSTANTS
    Requests,       \* HTTP requests, each served once
    Veterans,       \* users who registered before
    Sessions,       \* sessions that were opened just before
    Keys,           \* API keys made before: src/ has no operation for it
    Emails,
    AccessTTL,      \* JWT_ACCESS_TTL
    RefreshTTL,     \* JWT_REFRESH_TTL
    SessionTTL,     \* the seven days of login.go
    KeyTTL,         \* when the API keys expire
    MaxTime,        \* bound: when the clock stops
    MaxOperations,  \* bound: operations on the tables besides the requests'
    None

ASSUME TimeAssumption ==
    {AccessTTL, RefreshTTL, SessionTTL, KeyTTL, MaxTime, MaxOperations} \subseteq Nat
ASSUME IdAssumption ==
    /\ None \notin Requests \cup Veterans \cup Sessions \cup Keys \cup Emails
    /\ Requests \cap (Veterans \cup Sessions \cup Keys) = {}

VARIABLES
    now,            \* time.Now()
    users,          \* table users, by id
    tokens,         \* table user_tokens, by id
    issued,         \* the JWTs that clients hold
    req,            \* what each request asks, has found and knows
    opened,         \* history: when each session was opened
    operations      \* history: how many operations there were

tables == <<users, tokens>>
history == <<opened, operations>>
accountVars == <<now, tables, issued, req, history>>

UserIDs == Veterans \cup Requests
TokenIDs == Sessions \cup Keys \cup Requests

User == [Email : Emails, IsActive : BOOLEAN]
Token == [UserID : UserIDs, ExpiresAt : Nat, IsRevoked : BOOLEAN]

ASSUME RowAssumption == None \notin User /\ None \notin Token

\* What a client presents: the claims of a JWT, or an API key.
Credential ==
    [TokenType : {"access", "refresh", "key"}, TokenID : TokenIDs,
     UserID : UserIDs \cup {None}, ExpiresAt : Nat]
NoCredential == [TokenType |-> "none", TokenID |-> None, UserID |-> None,
                 ExpiresAt |-> 0]
APIKey(k) == [NoCredential EXCEPT !.TokenType = "key", !.TokenID = k]

NewUser(email) == [Email |-> email, IsActive |-> TRUE]
NewAPIKey(user, expiresAt) ==
    [UserID |-> user, ExpiresAt |-> expiresAt, IsRevoked |-> FALSE]

GenerateAccessToken(user, token) ==
    [TokenType |-> "access", TokenID |-> token, UserID |-> user,
     ExpiresAt |-> now + AccessTTL]
GenerateRefreshToken(user, token) ==
    [TokenType |-> "refresh", TokenID |-> token, UserID |-> user,
     ExpiresAt |-> now + RefreshTTL]

-----------------------------------------------------------------------------
(* Reading the tables                                                      *)

\* Faulty variant: only the row of a JWT is looked at, never its age.
IsExpiredNever(t) == FALSE
IsExpired(t) == now > t.ExpiresAt

\* Faulty variant: revocation is not looked at.
IsValidUnlessExpired(t) == ~IsExpired(t)
IsValid(t) == ~t.IsRevoked /\ ~IsExpired(t)

\* UserRepository.FindByEmail: the user, of whom there is at most one.
FindByEmail(email) == {u \in UserIDs : users[u] # None /\ users[u].Email = email}

\* UserRepository.FindByID, and the user is active.
activeIn(us, u) == us[u] # None /\ us[u].IsActive
active(u) == activeIn(users, u)

\* There is such a row; TokenRepository.FindByHash, of an API key, and FindByID.
scanToken(t) == tokens[t] # None
FindByHash(key) == scanToken(key)
FindByID(t) == scanToken(t)

\* ValidateToken of the JWT manager: the signature is right, as clients present
\* what they were given, and it has not expired.
ValidateToken(c) == now < c.ExpiresAt

\* The credential leads to a row, and the row is valid.
keyLeadsToToken(c) == FindByHash(c.TokenID) /\ IsValid(tokens[c.TokenID])
claimsLeadToToken(c) ==
    ValidateToken(c) /\ FindByID(c.TokenID) /\ IsValid(tokens[c.TokenID])

\* FindByID of the user: claims.UserID, or the owner in the row read before.
userOf(c, owner) == IF c.TokenType = "key" THEN owner ELSE c.UserID

\* Why c is void in the tables us and ts: its row is revoked or gone, or the
\* row's user is not active.
causes(us, ts, c) ==
    LET t == ts[c.TokenID]
    IN  IF t = None THEN {"token"}
        ELSE (IF t.IsRevoked THEN {"token"} ELSE {})
             \cup (IF activeIn(us, t.UserID) THEN {} ELSE {"user"})

-----------------------------------------------------------------------------
(* Requests                                                                *)

\* A request: its place, what it asks, the ids in its *entity.User and
\* *entity.Token, and for properties when it came and why its credential has
\* been void since.
Request ==
    [place : {"idle", "create user", "create token", "sign", "find user",
              "admitted", "done"},
     op : {"none", "register", "login", "refresh", "protected"},
     email : Emails \cup {None}, credential : Credential \cup {NoCredential},
     user : UserIDs \cup {None}, token : TokenIDs \cup {None},
     began : Nat, barred : SUBSET {"token", "user"}]

Idle == [place |-> "idle", op |-> "none", email |-> None,
         credential |-> NoCredential, user |-> None, token |-> None,
         began |-> 0, barred |-> {}]
Ended == [Idle EXCEPT !.place = "done"]

Init ==
    /\ now = 0
    /\ \E e \in [Veterans -> Emails] :
        /\ \A u, v \in Veterans : e[u] = e[v] => u = v
        /\ users = [u \in UserIDs |-> IF u \in Veterans THEN NewUser(e[u]) ELSE None]
    /\ \E owner \in [Sessions \cup Keys -> Veterans] :
        /\ tokens = [t \in TokenIDs |->
                IF t \in Sessions THEN NewAPIKey(owner[t], SessionTTL)
                ELSE IF t \in Keys THEN NewAPIKey(owner[t], KeyTTL)
                ELSE None]
        /\ issued = {GenerateAccessToken(owner[s], s) : s \in Sessions}
                    \cup {GenerateRefreshToken(owner[s], s) : s \in Sessions}
    /\ req = [r \in Requests |-> Idle]
    /\ opened = [t \in TokenIDs |-> 0]
    /\ operations = 0

\* r, which was new, becomes `next`.
arrive(r, next) ==
    /\ req[r] = Idle
    /\ req' = [req EXCEPT ![r] = next]

goTo(r, place) == req' = [req EXCEPT ![r].place = place]

\* r is answered.
finish(r) == req' = [req EXCEPT ![r] = Ended]

\* Register: the address must be free.  A look-up that fails counts as one that
\* found nothing.
lookUpEmail(r, email) ==
    /\ \/ FindByEmail(email) # {} /\ arrive(r, Ended)
       \/ arrive(r, [Idle EXCEPT !.place = "create user", !.op = "register",
                                 !.email = email])
    /\ UNCHANGED <<now, tables, issued, history>>

\* Faulty variant: the table has no unique index.
uniqueEmailUnchecked(email) == TRUE
uniqueEmail(email) == FindByEmail(email) = {}

\* UserRepository.Create: no effect if another user has the address.
CreateRow(id, user) ==
    users' = IF uniqueEmail(user.Email) THEN [users EXCEPT ![id] = user] ELSE users

createUser(r) ==
    /\ req[r].place = "create user"
    /\ CreateRow(r, NewUser(req[r].email))
    /\ finish(r)
    /\ UNCHANGED <<now, tokens, issued, history>>

\* Login: the user is found, the password is right and the user is active, or
\* the client is refused.
login(r, email) ==
    /\ \/ \E u \in FindByEmail(email) :
            /\ users[u].IsActive
            /\ arrive(r, [Idle EXCEPT !.place = "create token", !.op = "login",
                                     !.user = u])
       \/ arrive(r, Ended)
    /\ UNCHANGED <<now, tables, issued, history>>

\* TokenRepository.Create
CreateToken(id, token) == tokens' = [tokens EXCEPT ![id] = token]

\* The row of a session refers to its user, who must still exist.
createToken(r) ==
    /\ req[r].place = "create token"
    /\ IF users[req[r].user] # None
       THEN /\ CreateToken(r, NewAPIKey(req[r].user, now + SessionTTL))
            /\ opened' = [opened EXCEPT ![r] = now]
            /\ req' = [req EXCEPT ![r].token = r, ![r].place = "sign"]
       ELSE finish(r) /\ UNCHANGED <<tokens, opened>>
    /\ UNCHANGED <<now, users, issued, operations>>

\* The JWTs of a login, or the new access token of a refresh.
signed(f) ==
    {GenerateAccessToken(f.user, f.token)} \cup
    IF f.op = "login" THEN {GenerateRefreshToken(f.user, f.token)} ELSE {}

sign(r) ==
    /\ req[r].place = "sign"
    /\ issued' = issued \cup signed(req[r])
    /\ finish(r)
    /\ UNCHANGED <<now, tables, history>>

\* Refresh, validateJWT and validateAPIKey up to the token row.
presents(r, op, c, accepted) ==
    /\ arrive(r, IF accepted
                 THEN [place |-> "find user", op |-> op, email |-> None,
                       credential |-> c, token |-> c.TokenID,
                       user |-> userOf(c, tokens[c.TokenID].UserID),
                       began |-> now, barred |-> causes(users, tokens, c)]
                 ELSE Ended)
    /\ UNCHANGED <<now, tables, issued, history>>

refresh(r, c) ==
    presents(r, "refresh", c, c.TokenType = "refresh" /\ claimsLeadToToken(c))
validateJWT(r, c) == presents(r, "protected", c, claimsLeadToToken(c))
validateAPIKey(r, k) == presents(r, "protected", APIKey(k), keyLeadsToToken(APIKey(k)))

\* FindByID of the user, and whether it is active.  A protected route then has
\* the user and the token in its context.
findUser(r) ==
    /\ req[r].place = "find user"
    /\ IF ~active(req[r].user) THEN finish(r)
       ELSE goTo(r, IF req[r].op = "refresh" THEN "sign" ELSE "admitted")
    /\ UNCHANGED <<now, tables, issued, history>>

\* A database call fails, or the server dies.
fail(r) ==
    /\ req[r].place \in {"create user", "create token", "sign", "find user"}
    /\ finish(r)
    /\ UNCHANGED <<now, tables, issued, history>>

-----------------------------------------------------------------------------
(* The operations of the repositories that no request uses                 *)

\* Update writes every column; another user's address is refused.
Update(u, user) ==
    /\ users[u] # None /\ FindByEmail(user.Email) \subseteq {u}
    /\ users' = [users EXCEPT ![u] = user]
    /\ UNCHANGED tokens

\* DELETE cascades to the user's tokens.
ownedBy(u) == {t \in TokenIDs : tokens[t] # None /\ tokens[t].UserID = u}

Delete(u) ==
    /\ users[u] # None
    /\ users' = [users EXCEPT ![u] = None]
    /\ tokens' = [t \in TokenIDs |-> IF t \in ownedBy(u) THEN None ELSE tokens[t]]

revokedAmong(T) ==
    [t \in TokenIDs |-> IF t \in T /\ tokens[t] # None
                        THEN [tokens[t] EXCEPT !.IsRevoked = TRUE] ELSE tokens[t]]

Revoke(t) == tokens' = revokedAmong({t}) /\ UNCHANGED users

RevokeAllForUser(u) == tokens' = revokedAmong(ownedBy(u)) /\ UNCHANGED users

DeleteExpired ==
    /\ tokens' = [t \in TokenIDs |->
           IF tokens[t] # None /\ tokens[t].ExpiresAt < now THEN None ELSE tokens[t]]
    /\ UNCHANGED users

administer ==
    /\ operations < MaxOperations
    /\ operations' = operations + 1
    /\ \/ \E u \in UserIDs, user \in User : Update(u, user)
       \/ \E u \in UserIDs : Delete(u) \/ RevokeAllForUser(u)
       \/ \E t \in TokenIDs : Revoke(t)
       \/ DeleteExpired
    /\ req' = [r \in Requests |->
           [req[r] EXCEPT !.barred =
                {b \in @ : b \in causes(users', tokens', req[r].credential)}]]
    /\ UNCHANGED <<now, issued, opened>>

tick ==
    /\ now < MaxTime
    /\ now' = now + 1
    /\ UNCHANGED <<tables, issued, req, history>>

-----------------------------------------------------------------------------
\* The handlers and the middleware.

\* The body does not parse, or there is no credential.
badRequest(r) == arrive(r, Ended) /\ UNCHANGED <<now, tables, issued, history>>

Register(r) ==
    badRequest(r) \/ (\E email \in Emails : lookUpEmail(r, email)) \/ createUser(r)
Login(r) ==
    badRequest(r) \/ (\E email \in Emails : login(r, email)) \/ createToken(r)
RefreshToken(r) == badRequest(r) \/ \E c \in issued : refresh(r, c)

validate(r) ==
    \/ \E k \in Keys : validateAPIKey(r, k)
    \/ \E c \in issued : validateJWT(r, c)
Authenticate(r) == badRequest(r) \/ validate(r)

step(r) == \/ Register(r) \/ Login(r) \/ RefreshToken(r) \/ Authenticate(r)
           \/ sign(r) \/ findUser(r) \/ fail(r)

AccountNext == tick \/ administer \/ \E r \in Requests : step(r)

AccountSpec == Init /\ [][AccountNext]_accountVars

-----------------------------------------------------------------------------
(* Properties                                                              *)

AccountTypeOK ==
    /\ now \in 0..MaxTime
    /\ users \in [UserIDs -> User \cup {None}]
    /\ tokens \in [TokenIDs -> Token \cup {None}]
    /\ issued \subseteq Credential
    /\ req \in [Requests -> Request]
    /\ opened \in [TokenIDs -> Nat]
    /\ operations \in 0..MaxOperations

\* Registrations that run side by side, and whose look-up fails, never leave two
\* users with one address.
OneUserPerEmail ==
    \A u, v \in UserIDs :
        users[u] # None /\ users[v] # None /\ users[u].Email = users[v].Email => u = v

\* Revoking a token, deactivating its user or deleting either takes effect at
\* once: a request whose credential is void, for one reason, from when it comes to
\* when it would be admitted is not admitted, whichever JWTs were signed meanwhile.
RevokedMeansOut == \A r \in Requests : req[r].place = "admitted" => req[r].barred = {}

\* However often its JWTs are renewed, a session admits no request that comes
\* after the time the login gave it.
SessionBounded ==
    \A r \in Requests :
        LET t == req[r].token
        IN  req[r].place = "admitted" /\ t \notin Keys =>
                req[r].began <= opened[t] + SessionTTL
=============================================================================
