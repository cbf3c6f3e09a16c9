------------------------------- MODULE Accounts -------------------------------
(***************************************************************************)
(* Accounts and sessions: the users table in PostgreSQL, the refresh keys  *)
(* in Redis, the access tokens that clients hold, and the requests that    *)
(* register, log in, refresh and are let in by the middleware.             *)
(*                                                                         *)
(* An access token is signed: the server keeps nothing of it, and accepts  *)
(* it until it expires.  A refresh token is the name of a Redis key.  Each *)
(* access to PostgreSQL, to Redis or to the clock is one step of a request,*)
(* and the SET of a login may be sent again when its reply does not come.  *)
(* Time is relative, as in LinkStore: Tick counts ttl and left down.       *)
(***************************************************************************)
EXTENDS Integers

CONSTANTS
  Workers,     \* concurrent requests
  Emails,      \* addresses, as they may be typed
  Clean,       \* strings.ToLower and strings.TrimSpace, at registration only
  Citext,      \* what PostgreSQL compares a CITEXT by: it lowers letters and trims nothing
  Passwords,
  Digest,      \* what bcrypt makes of a password: it looks at 72 bytes of it
  TooLong,     \* the passwords it refuses to hash
  MaxId,       \* the last value of the sequence behind users.id
  Sessions,    \* refresh tokens, which uuid.New never gives twice
  NoSession,
  AccessTTL,   \* 15 minutes
  RefreshTTL,  \* 7 days
  MaxLag,      \* time between looking up the user and reading the clock for a token
  Faults       \* which of "redis" and "db" may fail

Ids == 1..MaxId
Digests == {Digest[p] : p \in Passwords}

ASSUME AccountsAssumption ==
  /\ Clean \in [Emails -> Emails] /\ Citext \in [Emails -> Emails]
  /\ Emails # {} /\ Passwords # {} /\ TooLong \subseteq Passwords
  /\ DOMAIN Digest = Passwords
  /\ MaxId \in Nat /\ MaxLag \in Nat
  /\ AccessTTL \in Nat \ {0} /\ RefreshTTL \in Nat \ {0}
  /\ NoSession \notin Sessions

VARIABLES
  users,    \* ids of the rows of users
  account,  \* the row under each id; any value while there is none
  nextId,   \* the sequence users_id_seq
  key,      \* Redis: the refresh keys
  held,     \* refresh tokens that were given to a client
  tokens,   \* access tokens that were given to a client and have not expired
  opened,   \* history: the e-mail and password that a session was opened with
  age,      \* history: time since the tokens were given out, counted up to Lifetime
  pc, req   \* where each request is, and its local variables

db == <<users, account, nextId>>
vars == <<users, account, nextId, key, held, tokens, opened, age, pc, req>>

----------------------------------------------------------------------------
\* Data and helpers

Accounts == [email : Emails, digest : Digests]
NoKey == [user |-> 0, ttl |-> 0]
Someone == CHOOSE a \in Accounts : TRUE

\* The longest that a client can be let in on one login.
Lifetime == RefreshTTL + MaxLag + AccessTTL

Idle == [op |-> "none", given |-> Someone, known |-> FALSE, user |-> 0,
         session |-> NoSession, left |-> 0, lag |-> 0, status |-> 0]
Requests == [op : {"none", "register", "login", "refresh", "me"}, given : Accounts,
             known : BOOLEAN, user : Ids \cup {0}, session : Sessions \cup {NoSession},
             left : 0..AccessTTL, lag : 0..MaxLag,
             status : {0, 200, 201, 400, 401, 404, 409, 500}]

Goto(w, step) == pc' = [pc EXCEPT ![w] = step]
\* The response is decided: a registration and a refused login keep what was given.
Answer(w, status) ==
  /\ Goto(w, "done")
  /\ req' = [req EXCEPT ![w] =
       IF req[w].op = "register" \/ status = 401
         THEN [Idle EXCEPT !.op = req[w].op, !.given = req[w].given,
                           !.known = req[w].known, !.status = status]
         ELSE [Idle EXCEPT !.status = status]]

\* A request arrives with what it carries, or is refused for its body or its header.
Begin(w, step, r) == pc[w] = "idle" /\ Goto(w, step) /\ req' = [req EXCEPT ![w] = r]
Refuse(w, status) == Begin(w, "done", [Idle EXCEPT !.status = status])

\* users.email is CITEXT.
SameAsTyped(i, e) == account[i].email = e
SameEmail(i, e) == Citext[account[i].email] = Citext[e]

\* Whoever registers with e is found when e is typed again.
Intact(e) == Citext[Clean[e]] = Citext[e]

\* The unique index on users.email.
InUseNever(e) == FALSE
InUse(e) == \E i \in users : SameEmail(i, e)

\* comparePassword
MatchesAny(i, digest) == TRUE
Matches(i, digest) == account[i].digest = digest

Drop(n) == IF n > 0 THEN n - 1 ELSE 0

Init ==
  /\ users = {} /\ account = [i \in Ids |-> Someone] /\ nextId = 1
  /\ key = [s \in Sessions |-> NoKey]
  /\ held = {} /\ tokens = {}
  /\ opened = [s \in Sessions |-> Someone]
  /\ age = [s \in Sessions |-> 0]
  /\ pc = [w \in Workers |-> "idle"]
  /\ req = [w \in Workers |-> Idle]

----------------------------------------------------------------------------
\* POST /auth/register

\* The handler and CreateUser, up to the call of the repository.
Register(w) ==
  /\ \/ Refuse(w, 400)
     \/ \E e \in Emails, p \in Passwords :
          \/ p \in TooLong /\ Refuse(w, 500)
          \/ p \notin TooLong /\ Begin(w, "insert",
               [Idle EXCEPT !.op = "register", !.given = [email |-> Clean[e], digest |-> Digest[p]]])
  /\ UNCHANGED <<db, key, held, tokens, opened, age>>

\* The row of the request is in the table.
Added(w) ==
  /\ ~InUse(req[w].given.email)
  /\ users' = users \cup {nextId}
  /\ account' = [account EXCEPT ![nextId] = req[w].given]

\* INSERT.  An id is drawn either way, and an index that refuses the e-mail is 23505.
Insert(w) ==
  /\ pc[w] = "insert" /\ nextId <= MaxId
  /\ nextId' = nextId + 1
  /\ \/ Added(w) /\ Answer(w, 201)
     \/ InUse(req[w].given.email) /\ Answer(w, 409) /\ UNCHANGED <<users, account>>
  /\ UNCHANGED <<key, held, tokens, opened, age>>

\* The statement fails, or takes effect and its reply is lost.
InsertFailsInUse(w) ==
  /\ pc[w] = "insert"
  /\ "db" \in Faults \/ nextId > MaxId
  /\ Answer(w, 409)
  /\ UNCHANGED <<db, key, held, tokens, opened, age>>
InsertFails(w) ==
  /\ pc[w] = "insert"
  /\ \/ ("db" \in Faults \/ nextId > MaxId) /\ UNCHANGED db
     \/ "db" \in Faults /\ nextId <= MaxId /\ nextId' = nextId + 1 /\ UNCHANGED <<users, account>>
     \/ "db" \in Faults /\ nextId <= MaxId /\ nextId' = nextId + 1 /\ Added(w)
  /\ Answer(w, 500)
  /\ UNCHANGED <<key, held, tokens, opened, age>>

----------------------------------------------------------------------------
\* POST /auth/login

\* The e-mail goes to the query as it was typed.  known says whether an account was made
\* from these credentials.
Login(w) ==
  /\ \/ Refuse(w, 400)
     \/ \E e \in Emails, p \in Passwords :
          Begin(w, "find",
            [Idle EXCEPT !.op = "login", !.given = [email |-> e, digest |-> Digest[p]],
               !.known = \E i \in users : account[i] = [email |-> Clean[e], digest |-> Digest[p]]])
  /\ UNCHANGED <<db, key, held, tokens, opened, age>>

\* SELECT ... WHERE email = $1, then comparePassword.
FindAsTyped(w) ==
  /\ pc[w] = "find"
  /\ LET found == {i \in users : SameAsTyped(i, req[w].given.email)
                                   /\ Matches(i, req[w].given.digest)}
     IN  \/ \E i \in found : Goto(w, "issue") /\ req' = [req EXCEPT ![w].user = i]
         \/ found = {} /\ Answer(w, 401)
  /\ UNCHANGED <<db, key, held, tokens, opened, age>>
Find(w) ==
  /\ pc[w] = "find"
  /\ LET found == {i \in users : SameEmail(i, req[w].given.email)
                                   /\ Matches(i, req[w].given.digest)}
     IN  \/ \E i \in found : Goto(w, "issue") /\ req' = [req EXCEPT ![w].user = i]
         \/ found = {} /\ Answer(w, 401)
         \/ "db" \in Faults /\ Answer(w, 500)
  /\ UNCHANGED <<db, key, held, tokens, opened, age>>

\* A refresh token that no login has drawn yet; one that is sent again stays the same.
Fresh(s) ==
  /\ s \notin held /\ key[s] = NoKey
  /\ \A w \in Workers : req[w].session # s
Draws(w, s) == IF req[w].session = NoSession THEN Fresh(s) ELSE s = req[w].session

\* SET refresh:<uuid> with the id of the user.
SetKey(w, s) ==
  /\ key' = [key EXCEPT ![s] = [user |-> req[w].user, ttl |-> RefreshTTL]]
  /\ opened' = [opened EXCEPT ![s] = req[w].given]

\* SET takes effect and its reply is lost: it will be sent again, or given up.
SetLost(w) ==
  /\ pc[w] = "store" /\ "redis" \in Faults
  /\ \E s \in Sessions :
       Draws(w, s) /\ SetKey(w, s) /\ req' = [req EXCEPT ![w].session = s]
  /\ UNCHANGED <<db, held, tokens, age, pc>>

\* Only when SET succeeds does the client get its two tokens.
Store(w) ==
  /\ pc[w] = "store"
  /\ \/ \E s \in Sessions :
          /\ Draws(w, s) /\ SetKey(w, s)
          /\ held' = held \cup {s}
          /\ tokens' = tokens \cup {[user |-> req[w].user, session |-> s, left |-> req[w].left]}
          /\ Answer(w, 200)
     \/ "redis" \in Faults /\ Answer(w, 500) /\ UNCHANGED <<key, opened, held, tokens>>
  /\ UNCHANGED <<db, age>>

----------------------------------------------------------------------------
\* POST /auth/refresh, and the clock

\* The token is one that a client has, or a string that is no key.
Refresh(w) ==
  /\ \/ Refuse(w, 400)
     \/ \E s \in held \cup {NoSession} :
          Begin(w, "get", [Idle EXCEPT !.op = "refresh", !.session = s])
  /\ UNCHANGED <<db, key, held, tokens, opened, age>>

\* GET refresh:<token>.  Any error is taken for an expired token.
GetSliding(w) ==
  /\ pc[w] = "get"
  /\ LET s == req[w].session
         alive == s # NoSession /\ key[s] # NoKey
     IN  IF alive
           THEN /\ Goto(w, "issue") /\ req' = [req EXCEPT ![w].user = key[s].user]
                /\ key' = [key EXCEPT ![s].ttl = RefreshTTL]
           ELSE Answer(w, 401) /\ UNCHANGED key
  /\ UNCHANGED <<db, held, tokens, opened, age>>
GetIgnoresError(w) ==
  /\ pc[w] = "get"
  /\ Goto(w, "issue")
  /\ req' = [req EXCEPT ![w].user = IF req[w].session = NoSession THEN 0
                                 ELSE key[req[w].session].user]
  /\ UNCHANGED <<db, key, held, tokens, opened, age>>
Get(w) ==
  /\ pc[w] = "get"
  /\ LET s == req[w].session
         alive == s # NoSession /\ key[s] # NoKey
     IN  \/ alive /\ Goto(w, "issue") /\ req' = [req EXCEPT ![w].user = key[s].user]
         \/ (~alive \/ "redis" \in Faults) /\ Answer(w, 401)
  /\ UNCHANGED <<db, key, held, tokens, opened, age>>

\* generateAccessToken reads the clock.  A refresh hands the token out, a login goes on.
Issue(w) ==
  /\ pc[w] = "issue"
  /\ \/ /\ req[w].op = "login"
        /\ Goto(w, "store")
        /\ req' = [req EXCEPT ![w].left = AccessTTL, ![w].lag = 0]
        /\ UNCHANGED tokens
     \/ /\ req[w].op = "refresh"
        /\ tokens' = tokens \cup {[user |-> req[w].user, session |-> req[w].session,
                                   left |-> AccessTTL]}
        /\ Answer(w, 200)
  /\ UNCHANGED <<db, key, held, opened, age>>

----------------------------------------------------------------------------
\* GET /auth/me, behind the middleware that all authenticated routes share

\* No Bearer token, or one that was not signed here or has expired, is refused.
Call(w) ==
  /\ \/ Refuse(w, 401)
     \/ \E t \in tokens :
          Begin(w, "verify", [Idle EXCEPT !.op = "me", !.user = t.user,
                                !.session = t.session, !.left = t.left])
  /\ UNCHANGED <<db, key, held, tokens, opened, age>>

\* VerifyAccessToken compares exp with the clock; IsAuthenticated sets user_id.
IsAuthenticated(w) ==
  /\ pc[w] = "verify"
  /\ IF req[w].left > 0
       THEN Goto(w, "admitted") /\ req' = [req EXCEPT ![w].left = 0]
       ELSE Answer(w, 401)
  /\ UNCHANGED <<db, key, held, tokens, opened, age>>

MeStatus(i) == IF i \in users THEN 200 ELSE 404

\* SELECT ... WHERE id = $1
GetByID(w) ==
  /\ pc[w] = "admitted"
  /\ \/ Answer(w, MeStatus(req[w].user))
     \/ "db" \in Faults /\ Answer(w, 500)
  /\ UNCHANGED <<db, key, held, tokens, opened, age>>

Reply(w) ==
  /\ pc[w] = "done"
  /\ Goto(w, "idle")
  /\ req' = [req EXCEPT ![w] = Idle]
  /\ UNCHANGED <<db, key, held, tokens, opened, age>>

----------------------------------------------------------------------------
\* Environment

\* Redis loses a key: a restart, an eviction, or DELETE /urls/:code, which sends DEL for any
\* string in its path.
Evict(s) ==
  /\ "redis" \in Faults /\ key[s] # NoKey
  /\ key' = [key EXCEPT ![s] = NoKey]
  /\ UNCHANGED <<db, held, tokens, opened, age, pc, req>>

Tick ==
  /\ \A w \in Workers : pc[w] = "issue" => req[w].lag < MaxLag
  /\ key' = [s \in Sessions |-> IF key[s].ttl > 1 THEN [key[s] EXCEPT !.ttl = @ - 1] ELSE NoKey]
  /\ tokens' = {[t EXCEPT !.left = @ - 1] : t \in {u \in tokens : u.left > 1}}
  /\ age' = [s \in Sessions |-> IF s \in held /\ age[s] < Lifetime THEN age[s] + 1 ELSE age[s]]
  /\ req' = [w \in Workers |->
       [req[w] EXCEPT !.left = Drop(@), !.lag = IF pc[w] = "issue" THEN @ + 1 ELSE @]]
  /\ UNCHANGED <<db, held, opened, pc>>

Next ==
  \/ \E w \in Workers :
       \/ Register(w) \/ Insert(w) \/ InsertFails(w)
       \/ Login(w) \/ Find(w) \/ SetLost(w) \/ Store(w)
       \/ Refresh(w) \/ Get(w) \/ Issue(w)
       \/ Call(w) \/ IsAuthenticated(w) \/ GetByID(w) \/ Reply(w)
  \/ \E s \in Sessions : Evict(s)
  \/ Tick

Spec == Init /\ [][Next]_vars

----------------------------------------------------------------------------
\* Properties

TypeOK ==
  /\ users \subseteq Ids
  /\ account \in [Ids -> Accounts]
  /\ nextId \in 1..(MaxId + 1)
  /\ key \in [Sessions -> [user : Ids, ttl : 1..RefreshTTL] \cup {NoKey}]
  /\ held \subseteq Sessions
  /\ tokens \subseteq [user : Ids, session : Sessions, left : 0..AccessTTL]
  /\ opened \in [Sessions -> Accounts]
  /\ age \in [Sessions -> 0..Lifetime]
  /\ pc \in [Workers -> {"idle", "insert", "find", "issue", "store", "get", "verify",
                         "admitted", "done"}]
  /\ req \in [Workers -> Requests]

\* However registrations interleave and fail, one address, in any spelling, means one
\* account: a login never has two rows to choose from.
UniqueEmail == \A i, j \in users : SameEmail(i, account[j].email) => i = j

\* What a registration is told is so: 201 that its account is there with its password,
\* 409 that another has the address, also when statements fail or their replies are lost.
RegisterAnswersTrue ==
  \A w \in Workers : pc[w] = "done" /\ req[w].op = "register" =>
    /\ req[w].status = 201 => \E i \in users : account[i] = req[w].given
    /\ req[w].status = 409 => InUse(req[w].given.email)

\* Registration stores an address cleaned, login looks for it as it is typed: of those who
\* type what they registered with, only those are told that it is wrong whose address was
\* cleaned into one that CITEXT takes for another (and some are: a space that it does not
\* trim, a letter that it does not lower).
KnownUserLogsIn ==
  \A w \in Workers : pc[w] = "done" /\ req[w].op = "login" /\ req[w].known =>
    (req[w].status = 401 => ~Intact(req[w].given.email))

\* A request is let in as the user whose address and password opened the session that its
\* token stems from, at whatever remove: login, refreshes, the key and the signed token.
AdmittedAsOpened ==
  \A w \in Workers : pc[w] = "admitted" =>
    LET i == req[w].user
        o == opened[req[w].session]
    IN  i \in users /\ SameEmail(i, o.email) /\ account[i].digest = o.digest

\* One login lets a client in for a bounded time after it has its tokens, though it may
\* refresh at any moment and a refresh may dawdle between its GET and the clock: nothing
\* extends the refresh key.
SessionBounded ==
  [][\A w \in Workers : pc[w] = "verify" /\ pc'[w] = "admitted" =>
       age[req[w].session] < Lifetime]_vars

=============================================================================
