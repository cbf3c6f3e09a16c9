---------------------------- MODULE AccountsProofs ----------------------------
(***************************************************************************)
(* Proofs about Accounts, for every set of requests, addresses, passwords  *)
(* and sessions, every Clean, Citext and Digest of their types, with no    *)
(* relation between them, all lifetimes and every choice of faults.        *)
(***************************************************************************)
EXTENDS Accounts, TLAPS

----------------------------------------------------------------------------
\* The inductive invariant

\* Whoever knows the credentials a is user i.
Knows(i, a) == i \in users /\ SameEmail(i, a.email) /\ account[i].digest = a.digest

\* Ids come from the sequence.
Drawn == \A i \in users : i < nextId

\* A refresh key, and an access token, are for the user whose credentials opened the session.
KeysRight == \A s \in Sessions : key[s] # NoKey => Knows(key[s].user, opened[s])
TokensRight == \A t \in tokens : t.session \in held /\ Knows(t.user, opened[t.session])

\* Where a request stands for a user, and from where it knows that.
Vouched(w) ==
  /\ pc[w] \in {"issue", "store"} /\ req[w].op = "login" => Knows(req[w].user, req[w].given)
  /\ \/ pc[w] = "issue" /\ req[w].op = "refresh"
     \/ pc[w] \in {"verify", "admitted"}
     => req[w].session \in Sessions /\ Knows(req[w].user, opened[req[w].session])

\* Some account was made from the credentials a.
Registered(a) ==
  \E i \in users : account[i].email = Clean[a.email] /\ account[i].digest = a.digest

\* The session of a login is nobody else's until its tokens are given out.
Private(w) ==
  req[w].op = "login" /\ req[w].session # NoSession =>
    /\ req[w].session \notin held
    /\ \A v \in Workers \ {w} : req[v].session # req[w].session

\* What else the variables of a request say at its steps, and its answer when it is given.
Carried(w) ==
  /\ pc[w] = "insert" => req[w].op = "register"
  /\ pc[w] \in {"find", "store"} => req[w].op = "login"
  /\ pc[w] = "issue" => req[w].op \in {"login", "refresh"}
  /\ pc[w] \in {"get", "issue"} /\ req[w].op = "refresh" => req[w].session \in held \cup {NoSession}
  /\ pc[w] = "get" => req[w].op = "refresh"
  /\ pc[w] \in {"verify", "admitted"} => req[w].op = "me"
  /\ req[w].op = "login" /\ req[w].known => Registered(req[w].given)
Answered(w) ==
  pc[w] = "done" =>
    /\ req[w].op = "register" /\ req[w].status = 201 =>
         \E i \in users : account[i] = req[w].given
    /\ req[w].op = "register" /\ req[w].status = 409 => InUse(req[w].given.email)
    /\ req[w].op = "login" /\ req[w].known =>
         (req[w].status = 401 => ~Intact(req[w].given.email))

Sound(w) == Vouched(w) /\ Carried(w) /\ Answered(w)
IInv == /\ TypeOK /\ Drawn /\ UniqueEmail /\ KeysRight /\ TokensRight
        /\ \A w \in Workers : Sound(w) /\ Private(w)

----------------------------------------------------------------------------
\* The variables of a request

Stations == {"idle", "insert", "find", "issue", "store", "get", "verify", "admitted", "done"}
Statuses == {0, 200, 201, 400, 401, 404, 409, 500}

\* The value of known in a request that is no login; a name, since the provers take FALSE
\* for a formula.
Unknown == FALSE

\* A request that has not read the clock.
Made(op, given, known, user, session, left, status) ==
  [op |-> op, given |-> given, known |-> known, user |-> user, session |-> session,
   left |-> left, lag |-> 0, status |-> status]

\* There are accounts to speak of.
LEMMA SomeoneExists == Someone \in Accounts
<1>1. PICK e \in Emails, p \in Passwords : TRUE
  BY AccountsAssumption
<1>2. Digest[p] \in Digests
  BY DEF Digests
<1>3. [email |-> e, digest |-> Digest[p]] \in Accounts
  BY <1>2 DEF Accounts
<1> QED BY <1>3 DEF Someone

\* What a request holds that has nothing.
LEMMA Nothing ==
  /\ 0 \in Statuses /\ 0 \in 0..AccessTTL /\ 0 \in Ids \cup {0} /\ Unknown \in BOOLEAN
  /\ NoSession \in Sessions \cup {NoSession} /\ Someone \in Accounts
BY AccountsAssumption, SomeoneExists DEF Statuses, Unknown

\* Such a request is well-typed.
LEMMA MadeTypes ==
  ASSUME NEW op \in {"none", "register", "login", "refresh", "me"}, NEW given \in Accounts,
         NEW known \in BOOLEAN, NEW user \in Ids \cup {0}, NEW session \in Sessions \cup {NoSession},
         NEW left \in 0..AccessTTL, NEW status \in Statuses
  PROVE  Made(op, given, known, user, session, left, status) \in Requests
BY AccountsAssumption DEF Made, Requests, Statuses

\* Every request starts, and ends, as one of these.
LEMMA Shapes ==
  /\ Idle = Made("none", Someone, Unknown, 0, NoSession, 0, 0)
  /\ \A status : [Idle EXCEPT !.status = status]
                  = Made("none", Someone, Unknown, 0, NoSession, 0, status)
  /\ \A op, given : [Idle EXCEPT !.op = op, !.given = given]
                     = Made(op, given, Unknown, 0, NoSession, 0, 0)
  /\ \A op, session : [Idle EXCEPT !.op = op, !.session = session]
                       = Made(op, Someone, Unknown, 0, session, 0, 0)
<1>1. ASSUME NEW status, NEW r, r = [Idle EXCEPT !.status = status]
      PROVE  r = Made("none", Someone, Unknown, 0, NoSession, 0, status)
  BY <1>1 DEF Idle, Made, Unknown
<1>2. ASSUME NEW op, NEW given, NEW r, r = [Idle EXCEPT !.op = op, !.given = given]
      PROVE  r = Made(op, given, Unknown, 0, NoSession, 0, 0)
  BY <1>2 DEF Idle, Made, Unknown
<1>3. ASSUME NEW op, NEW session, NEW r, r = [Idle EXCEPT !.op = op, !.session = session]
      PROVE  r = Made(op, Someone, Unknown, 0, session, 0, 0)
  BY <1>3 DEF Idle, Made, Unknown
<1>5. Idle = Made("none", Someone, Unknown, 0, NoSession, 0, 0)
  BY DEF Idle, Made, Unknown
<1>6. \A status : [Idle EXCEPT !.status = status]
                   = Made("none", Someone, Unknown, 0, NoSession, 0, status)
  BY <1>1, Zenon
<1>7. \A op, given : [Idle EXCEPT !.op = op, !.given = given]
                      = Made(op, given, Unknown, 0, NoSession, 0, 0)
  BY <1>2, Zenon
<1>8. \A op, session : [Idle EXCEPT !.op = op, !.session = session]
                        = Made(op, Someone, Unknown, 0, session, 0, 0)
  BY <1>3, Zenon
<1> QED BY <1>5, <1>6, <1>7, <1>8

\* Request w goes on to a step, with the variables r.
Moves(w, step, r) ==
  /\ step \in Stations /\ r \in Requests
  /\ pc' = [pc EXCEPT ![w] = step] /\ req' = [req EXCEPT ![w] = r]

\* What an answer keeps of a request.
LEMMA AnswerMoves ==
  ASSUME TypeOK, NEW w \in Workers, NEW status \in Statuses, Answer(w, status)
  PROVE  \/ /\ req[w].op = "register" \/ status = 401
            /\ Moves(w, "done", Made(req[w].op, req[w].given, req[w].known, 0, NoSession, 0, status))
         \/ /\ req[w].op # "register" /\ status # 401
            /\ Moves(w, "done", Made("none", Someone, Unknown, 0, NoSession, 0, status))
<1>1. req[w] \in Requests
  BY DEF TypeOK
<1>2. /\ req[w].op \in {"none", "register", "login", "refresh", "me"}
      /\ req[w].given \in Accounts /\ req[w].known \in BOOLEAN
  BY <1>1 DEF Requests
<1>3. 0 \in 0..AccessTTL
  BY AccountsAssumption
<1>4. CASE req[w].op = "register" \/ status = 401
  <2>1. req' = [req EXCEPT ![w] = [Idle EXCEPT !.op = req[w].op, !.given = req[w].given,
                                     !.known = req[w].known, !.status = status]]
    BY <1>4 DEF Answer
  <2>2. req' = [req EXCEPT ![w] = Made(req[w].op, req[w].given, req[w].known, 0, NoSession, 0, status)]
    <3>1. [Idle EXCEPT !.op = req[w].op, !.given = req[w].given,
                       !.known = req[w].known, !.status = status]
            = Made(req[w].op, req[w].given, req[w].known, 0, NoSession, 0, status)
      <4>1. PICK r : r = [Idle EXCEPT !.op = req[w].op, !.given = req[w].given,
                                      !.known = req[w].known, !.status = status]
        OBVIOUS
      <4>2. r = Made(req[w].op, req[w].given, req[w].known, 0, NoSession, 0, status)
        BY <4>1 DEF Idle, Made
      <4> QED BY <4>1, <4>2, Zenon
    <3> QED BY <2>1, <3>1, Zenon
  <2>3. Made(req[w].op, req[w].given, req[w].known, 0, NoSession, 0, status) \in Requests
    BY <1>2, <1>3, MadeTypes
  <2> QED BY <1>4, <2>2, <2>3 DEF Moves, Answer, Goto, Stations
<1>5. CASE ~(req[w].op = "register" \/ status = 401)
  <2>1. req' = [req EXCEPT ![w] = [Idle EXCEPT !.status = status]]
    BY <1>5 DEF Answer
  <2>2. req' = [req EXCEPT ![w] = Made("none", Someone, Unknown, 0, NoSession, 0, status)]
    BY <2>1, Shapes
  <2>3. Made("none", Someone, Unknown, 0, NoSession, 0, status) \in Requests
    BY Nothing, MadeTypes
  <2> QED BY <1>5, <2>2, <2>3 DEF Moves, Answer, Goto, Stations
<1> QED BY <1>4, <1>5

\* A request that is refused as it arrives.
LEMMA RefuseMoves ==
  ASSUME NEW w \in Workers, NEW status \in Statuses, Refuse(w, status)
  PROVE  Moves(w, "done", Made("none", Someone, Unknown, 0, NoSession, 0, status))
<1>1. req' = [req EXCEPT ![w] = Made("none", Someone, Unknown, 0, NoSession, 0, status)]
  BY Shapes DEF Refuse, Begin
<1>2. Made("none", Someone, Unknown, 0, NoSession, 0, status) \in Requests
  BY Nothing, MadeTypes
<1> QED BY <1>1, <1>2 DEF Moves, Refuse, Begin, Goto, Stations

----------------------------------------------------------------------------
\* What is kept

\* Rows stay as they are, and clients do not give tokens back.
Grown ==
  /\ users \subseteq users' /\ \A i \in users : account'[i] = account[i]
  /\ held \subseteq held'

\* Credentials that are known stay so.
LEMMA KnowsKept ==
  ASSUME Grown, NEW i, NEW a, Knows(i, a)
  PROVE  Knows(i, a)'
BY DEF Grown, Knows, SameEmail

\* A move keeps the types.
LEMMA MoveTypes ==
  ASSUME TypeOK, NEW w \in Workers, NEW step, NEW r, Moves(w, step, r)
  PROVE  /\ pc' \in [Workers -> Stations] /\ req' \in [Workers -> Requests]
         /\ pc'[w] = step /\ req'[w] = r
         /\ \A v \in Workers \ {w} : pc'[v] = pc[v] /\ req'[v] = req[v]
BY DEF TypeOK, Moves, Stations

\* A request that stands still stays sound, if its session is not opened anew.
LEMMA StillSound ==
  ASSUME IInv, NEW v \in Workers, Grown, pc'[v] = pc[v],
         req'[v].op = req[v].op, req'[v].given = req[v].given, req'[v].known = req[v].known,
         req'[v].user = req[v].user, req'[v].session = req[v].session,
         req'[v].status = req[v].status,
         req[v].session \in Sessions => opened'[req[v].session] = opened[req[v].session]
  PROVE  Sound(v)'
<1>1. Sound(v)
  BY DEF IInv
<1>2. Vouched(v)'
  BY <1>1, KnowsKept DEF Sound, Vouched
<1>3. Carried(v)'
  <2>1. ASSUME req[v].op = "login", req[v].known
        PROVE  Registered(req[v].given)'
    BY <1>1, <2>1 DEF Sound, Carried, Grown, Registered
  <2>2. ASSUME pc[v] \in {"get", "issue"}, req[v].op = "refresh"
        PROVE  req[v].session \in held' \cup {NoSession}
    BY <1>1, <2>2 DEF Sound, Carried, Grown
  <2> QED BY <1>1, <2>1, <2>2 DEF Sound, Carried
<1>4. Answered(v)'
  BY <1>1 DEF Sound, Answered, Grown, InUse, SameEmail
<1> QED BY <1>2, <1>3, <1>4 DEF Sound

\* Sessions stay private when a request keeps its own, takes one that a client has, or none.
Keeps(w, r) ==
  \/ r.session = NoSession
  \/ r.session = req[w].session /\ (r.op = "login" => req[w].op = "login")
  \/ r.session \in held /\ r.op # "login"

LEMMA PrivateKept ==
  ASSUME IInv, NEW w \in Workers, NEW step, NEW r, Moves(w, step, r), Keeps(w, r), held' = held
  PROVE  \A v \in Workers : Private(v)'
<1>1. /\ req'[w] = r /\ \A v \in Workers \ {w} : req'[v] = req[v]
      /\ \A v \in Workers : Private(v)
  BY MoveTypes DEF IInv
<1>2. Private(w)'
  BY <1>1 DEF Private, Keeps
<1>3. ASSUME NEW v \in Workers \ {w} PROVE Private(v)'
  BY <1>1 DEF Private, Keeps
<1> QED BY <1>2, <1>3

\* A step that moves one request and touches nothing else.
LEMMA QuietHolds ==
  ASSUME IInv, NEW w \in Workers, NEW step, NEW r, Moves(w, step, r), Keeps(w, r),
         UNCHANGED <<db, key, held, tokens, opened, age>>, Sound(w)'
  PROVE  IInv'
<1>1. UNCHANGED <<users, account, nextId, key, held, tokens, opened, age>> /\ Grown
  BY DEF db, Grown
<1>2. TypeOK'
  BY <1>1, MoveTypes DEF IInv, TypeOK, Stations
<1>3. Drawn' /\ UniqueEmail' /\ KeysRight' /\ TokensRight'
  BY <1>1 DEF IInv, Drawn, UniqueEmail, KeysRight, TokensRight, Knows, SameEmail
<1>4. \A v \in Workers \ {w} : Sound(v)'
  BY <1>1, MoveTypes, StillSound DEF IInv
<1>5. \A v \in Workers : Private(v)'
  BY <1>1, PrivateKept
<1> QED BY <1>2, <1>3, <1>4, <1>5 DEF IInv

----------------------------------------------------------------------------
\* The steps that move one request only

\* A request that is refused as it arrives says nothing.
LEMMA RefusedHolds ==
  ASSUME IInv, NEW w \in Workers, NEW status \in Statuses, Refuse(w, status),
         UNCHANGED <<db, key, held, tokens, opened, age>>
  PROVE  IInv'
<1> DEFINE r == Made("none", Someone, Unknown, 0, NoSession, 0, status)
<1>1. Moves(w, "done", r)
  BY RefuseMoves
<1>2. pc'[w] = "done" /\ req'[w] = r
  BY <1>1, MoveTypes DEF IInv
<1>3. Sound(w)'
  BY <1>2 DEF Sound, Vouched, Carried, Answered, Made, Unknown
<1>4. Keeps(w, r)
  BY DEF Keeps, Made
<1> QED BY <1>1, <1>3, <1>4, QuietHolds

\* An answer that says what is so.
LEMMA AnswerSound ==
  ASSUME IInv, NEW w \in Workers, NEW status \in Statuses, Answer(w, status), Grown,
         req[w].op = "register" /\ status = 201 => \E i \in users' : account'[i] = req[w].given,
         req[w].op = "register" /\ status = 409 =>
           \E i \in users' : Citext[account'[i].email] = Citext[req[w].given.email],
         req[w].op = "login" /\ req[w].known => (status = 401 => ~Intact(req[w].given.email))
  PROVE  \E r : Moves(w, "done", r) /\ Sound(w)' /\ r.session = NoSession
<1>0. TypeOK /\ Sound(w)
  BY DEF IInv
<1>1. ASSUME Moves(w, "done",
               Made(req[w].op, req[w].given, req[w].known, 0, NoSession, 0, status))
      PROVE  \E r : Moves(w, "done", r) /\ Sound(w)' /\ r.session = NoSession
  <2> DEFINE r == Made(req[w].op, req[w].given, req[w].known, 0, NoSession, 0, status)
  <2>1. pc'[w] = "done" /\ req'[w] = r
    BY <1>0, <1>1, MoveTypes
  <2>2. /\ r.op = req[w].op /\ r.given = req[w].given /\ r.known = req[w].known
        /\ r.status = status /\ r.session = NoSession
    BY DEF Made
  <2>3. Vouched(w)' /\ Answered(w)'
    BY <2>1, <2>2 DEF Vouched, Answered, InUse, SameEmail
  <2>4. ASSUME NEW given, given = req[w].given, req[w].op = "login", req[w].known
        PROVE  Registered(given)'
    BY <1>0, <2>4 DEF Sound, Carried, Grown, Registered
  <2>5. Carried(w)'
    BY <2>1, <2>2, <2>4 DEF Carried
  <2> QED BY <1>1, <2>2, <2>3, <2>5 DEF Sound
<1>2. ASSUME Moves(w, "done", Made("none", Someone, Unknown, 0, NoSession, 0, status))
      PROVE  \E r : Moves(w, "done", r) /\ Sound(w)' /\ r.session = NoSession
  <2> DEFINE r == Made("none", Someone, Unknown, 0, NoSession, 0, status)
  <2>1. pc'[w] = "done" /\ req'[w] = r
    BY <1>0, <1>2, MoveTypes
  <2>2. Sound(w)'
    BY <2>1 DEF Sound, Vouched, Carried, Answered, Made, Unknown
  <2>3. r.session = NoSession
    BY DEF Made
  <2> QED BY <1>2, <2>2, <2>3
<1> QED BY <1>0, <1>1, <1>2, AnswerMoves

\* An answer that is no promise, or is refused rightly, and changes nothing else.
LEMMA AnsweredHolds ==
  ASSUME IInv, NEW w \in Workers, NEW status \in Statuses, Answer(w, status),
         UNCHANGED <<db, key, held, tokens, opened, age>>,
         req[w].op = "register" => status \notin {201, 409},
         req[w].op = "login" /\ req[w].known => (status = 401 => ~Intact(req[w].given.email))
  PROVE  IInv'
<1>1. Grown
  BY DEF Grown, db
<1>2. PICK r : Moves(w, "done", r) /\ Sound(w)' /\ r.session = NoSession
  BY <1>1, AnswerSound
<1> QED BY <1>2, QuietHolds DEF Keeps

\* A registration arrives, and its address is cleaned.
LEMMA RegisterHolds == ASSUME IInv, NEW w \in Workers, Register(w) PROVE IInv'
<1>1. UNCHANGED <<db, key, held, tokens, opened, age>>
  BY DEF Register
<1>2. ASSUME NEW status \in Statuses, Refuse(w, status) PROVE IInv'
  BY <1>1, <1>2, RefusedHolds
<1>3. ASSUME NEW e \in Emails, NEW p \in Passwords,
             Begin(w, "insert",
               [Idle EXCEPT !.op = "register", !.given = [email |-> Clean[e], digest |-> Digest[p]]])
      PROVE  IInv'
  <2> DEFINE given == [email |-> Clean[e], digest |-> Digest[p]]
             r == Made("register", given, Unknown, 0, NoSession, 0, 0)
  <2>1. given \in Accounts /\ 0 \in 0..AccessTTL
    BY AccountsAssumption DEF Accounts, Digests
  <2>2. r \in Requests
    BY <2>1, Nothing, MadeTypes
  <2>a. req' = [req EXCEPT ![w] = r]
    BY <1>3, Shapes, Zenon DEF Begin
  <2>3. Moves(w, "insert", r)
    BY <1>3, <2>2, <2>a DEF Begin, Goto, Moves, Stations
  <2>4. pc'[w] = "insert" /\ req'[w] = r
    BY <2>3, MoveTypes DEF IInv
  <2>5. Sound(w)'
    BY <2>4 DEF Sound, Vouched, Carried, Answered, Made, Unknown
  <2>6. Keeps(w, r)
    BY DEF Keeps, Made
  <2> QED BY <1>1, <2>3, <2>5, <2>6, QuietHolds
<1>4. 400 \in Statuses /\ 500 \in Statuses
  BY DEF Statuses
<1> QED BY <1>2, <1>3, <1>4, Zenon DEF Register

\* A login arrives; that it is known means that an account was made from its credentials.
LEMMA LoginHolds == ASSUME IInv, NEW w \in Workers, Login(w) PROVE IInv'
<1>1. UNCHANGED <<db, key, held, tokens, opened, age>>
  BY DEF Login
<1>2. ASSUME NEW status \in Statuses, Refuse(w, status) PROVE IInv'
  BY <1>1, <1>2, RefusedHolds
<1>3. ASSUME NEW given \in Accounts, NEW known \in BOOLEAN,
             known => Registered(given),
             Begin(w, "find", [Idle EXCEPT !.op = "login", !.given = given, !.known = known])
      PROVE  IInv'
  <2> DEFINE r == Made("login", given, known, 0, NoSession, 0, 0)
  <2>1. r \in Requests
    BY Nothing, MadeTypes
  <2>2. req' = [req EXCEPT ![w] = r]
    <3>1. PICK q : q = [Idle EXCEPT !.op = "login", !.given = given, !.known = known]
      OBVIOUS
    <3>2. q = r
      BY <3>1 DEF Idle, Made
    <3> QED BY <1>3, <3>1, <3>2, Zenon DEF Begin
  <2>3. Moves(w, "find", r)
    BY <1>3, <2>1, <2>2 DEF Begin, Goto, Moves, Stations
  <2>4. pc'[w] = "find" /\ req'[w] = r
    BY <2>3, MoveTypes DEF IInv
  <2>5. known => Registered(given)'
    BY <1>1, <1>3 DEF Registered, db
  <2>6. Sound(w)'
    BY <2>4, <2>5 DEF Sound, Vouched, Carried, Answered, Made
  <2>7. Keeps(w, r)
    BY DEF Keeps, Made
  <2> QED BY <1>1, <2>3, <2>6, <2>7, QuietHolds
<1>4. ASSUME NEW e \in Emails, NEW p \in Passwords,
             Begin(w, "find",
               [Idle EXCEPT !.op = "login", !.given = [email |-> e, digest |-> Digest[p]],
                  !.known = \E i \in users :
                              account[i] = [email |-> Clean[e], digest |-> Digest[p]]])
      PROVE  IInv'
  <2> DEFINE given == [email |-> e, digest |-> Digest[p]]
  <2>1. given \in Accounts /\ given.email = e /\ given.digest = Digest[p]
    BY DEF Accounts, Digests
  <2>2. PICK known \in BOOLEAN :
          known = \E i \in users : account[i] = [email |-> Clean[e], digest |-> Digest[p]]
    OBVIOUS
  <2>3. known => Registered(given)
    <3>1. known => \E i \in users : account[i] = [email |-> Clean[e], digest |-> Digest[p]]
      BY <2>2, Zenon
    <3> QED BY <2>1, <3>1 DEF Registered
  <2>4. Begin(w, "find", [Idle EXCEPT !.op = "login", !.given = given, !.known = known])
    BY <1>4, <2>2
  <2> QED BY <1>3, <2>1, <2>3, <2>4
<1>5. 400 \in Statuses
  BY DEF Statuses
<1> QED BY <1>2, <1>4, <1>5, Zenon DEF Login

\* The lookup of a login: who registered is refused only if the address was not intact.
LEMMA FindHolds == ASSUME IInv, NEW w \in Workers, Find(w) PROVE IInv'
<1> DEFINE found == {i \in users : SameEmail(i, req[w].given.email)
                                     /\ Matches(i, req[w].given.digest)}
<1>0. /\ UNCHANGED <<db, key, held, tokens, opened, age>>
      /\ pc[w] = "find" /\ TypeOK /\ Sound(w) /\ req[w] \in Requests
  BY DEF Find, IInv, TypeOK
<1>1. req[w].op = "login"
  BY <1>0 DEF Sound, Carried
<1>2. ASSUME NEW i \in found, Goto(w, "issue"), req' = [req EXCEPT ![w].user = i] PROVE IInv'
  <2> DEFINE r == [req[w] EXCEPT !.user = i]
  <2>1. r \in Requests
    BY <1>0, <1>2 DEF IInv, TypeOK, Requests
  <2>2. Moves(w, "issue", r)
    BY <1>0, <1>2, <2>1 DEF TypeOK, Goto, Moves, Stations
  <2>3. pc'[w] = "issue" /\ req'[w] = r
    BY <1>0, <2>2, MoveTypes
  <2>4. r.op = "login" /\ r.user = i /\ r.given = req[w].given /\ r.known = req[w].known
    BY <1>0, <1>1 DEF Requests
  <2>5. Knows(i, req[w].given)
    BY <1>2 DEF Knows, Matches
  <2>6. Sound(w)'
    BY <1>0, <2>3, <2>4, <2>5
       DEF Sound, Vouched, Carried, Answered, Knows, Registered, SameEmail, db
  <2>7. Keeps(w, r)
    BY <1>0, <1>1 DEF Keeps, Requests
  <2> QED BY <1>0, <2>2, <2>6, <2>7, QuietHolds
<1>3. ASSUME found = {}, Answer(w, 401) PROVE IInv'
  <2>1. ASSUME req[w].known, Intact(req[w].given.email) PROVE FALSE
    <3>1. PICK i \in users : /\ account[i].email = Clean[req[w].given.email]
                            /\ account[i].digest = req[w].given.digest
      BY <1>0, <1>1, <2>1 DEF Sound, Carried, Registered
    <3>2. i \in found
      BY <2>1, <3>1 DEF Intact, SameEmail, Matches
    <3> QED BY <1>3, <3>2
  <2> QED BY <1>0, <1>1, <1>3, <2>1, AnsweredHolds DEF Statuses
<1>4. ASSUME Answer(w, 500) PROVE IInv'
  BY <1>0, <1>1, <1>4, AnsweredHolds DEF Statuses
<1> QED BY <1>2, <1>3, <1>4 DEF Find

\* A refresh arrives, with a token that a client has, or another.
LEMMA RefreshHolds == ASSUME IInv, NEW w \in Workers, Refresh(w) PROVE IInv'
<1>1. UNCHANGED <<db, key, held, tokens, opened, age>>
  BY DEF Refresh
<1>2. ASSUME NEW status \in Statuses, Refuse(w, status) PROVE IInv'
  BY <1>1, <1>2, RefusedHolds
<1>3. ASSUME NEW s \in held \cup {NoSession},
             Begin(w, "get", [Idle EXCEPT !.op = "refresh", !.session = s])
      PROVE  IInv'
  <2> DEFINE r == Made("refresh", Someone, Unknown, 0, s, 0, 0)
  <2>1. s \in Sessions \cup {NoSession} /\ 0 \in 0..AccessTTL
    BY AccountsAssumption DEF IInv, TypeOK
  <2>2. r \in Requests
    BY <2>1, Nothing, MadeTypes
  <2>a. req' = [req EXCEPT ![w] = r]
    BY <1>3, Shapes, Zenon DEF Begin
  <2>3. Moves(w, "get", r)
    BY <1>3, <2>2, <2>a DEF Begin, Goto, Moves, Stations
  <2>4. pc'[w] = "get" /\ req'[w] = r
    BY <2>3, MoveTypes DEF IInv
  <2>5. r.op = "refresh" /\ r.session = s /\ r.known = Unknown
    BY DEF Made
  <2> HIDE DEF r
  <2>6. s \in held' \cup {NoSession}
    BY <1>1, <1>3
  <2>7. Sound(w)'
    BY <2>4, <2>5, <2>6 DEF Sound, Vouched, Carried, Answered, Unknown
  <2>8. Keeps(w, r)
    BY <1>3, <2>5 DEF Keeps
  <2> QED BY <1>1, <2>3, <2>7, <2>8, QuietHolds
<1>4. 400 \in Statuses /\ 500 \in Statuses
  BY DEF Statuses
<1> QED BY <1>2, <1>3, <1>4, Zenon DEF Refresh

\* GET of a refresh key: the user it names opened the session.
LEMMA GetHolds == ASSUME IInv, NEW w \in Workers, Get(w) PROVE IInv'
<1> DEFINE s == req[w].session
<1>0. /\ UNCHANGED <<db, key, held, tokens, opened, age>>
      /\ pc[w] = "get" /\ TypeOK /\ Sound(w) /\ req[w] \in Requests
  BY DEF Get, IInv, TypeOK
<1>1. req[w].op # "login" /\ req[w].op # "register"
  BY <1>0 DEF Sound, Carried
<1>2. ASSUME s # NoSession, key[s] # NoKey, Goto(w, "issue"),
             req' = [req EXCEPT ![w].user = key[s].user]
      PROVE  IInv'
  <2> DEFINE r == [req[w] EXCEPT !.user = key[s].user]
  <2>1. s \in Sessions
    BY <1>0, <1>2 DEF Requests
  <2>2. Knows(key[s].user, opened[s]) /\ key[s].user \in Ids
    BY <1>2, <2>1 DEF IInv, KeysRight, Knows, TypeOK
  <2>3. r \in Requests
    BY <1>0, <2>2 DEF Requests
  <2>4. Moves(w, "issue", r)
    BY <1>0, <1>2, <2>3 DEF TypeOK, Goto, Moves, Stations
  <2>5. pc'[w] = "issue" /\ req'[w] = r
    BY <1>0, <2>4, MoveTypes
  <2>6. r.op = req[w].op /\ r.user = key[s].user /\ r.session = s
    BY <1>0 DEF Requests
  <2>7. Sound(w)'
    BY <1>0, <1>1, <2>1, <2>2, <2>5, <2>6
       DEF Sound, Vouched, Carried, Answered, Knows, SameEmail, db
  <2>8. Keeps(w, r)
    BY <2>6 DEF Keeps
  <2> QED BY <1>0, <2>4, <2>7, <2>8, QuietHolds
<1>3. ASSUME Answer(w, 401) PROVE IInv'
  BY <1>0, <1>1, <1>3, AnsweredHolds DEF Statuses
<1> QED BY <1>2, <1>3 DEF Get

\* A call with an access token that some client has: its user is who opened the session.
LEMMA CallHolds == ASSUME IInv, NEW w \in Workers, Call(w) PROVE IInv'
<1>1. UNCHANGED <<db, key, held, tokens, opened, age>> /\ TypeOK
  BY DEF Call, IInv
<1>2. ASSUME NEW status \in Statuses, Refuse(w, status) PROVE IInv'
  BY <1>1, <1>2, RefusedHolds
<1>3. ASSUME NEW t \in tokens,
             Begin(w, "verify", [Idle EXCEPT !.op = "me", !.user = t.user,
                                   !.session = t.session, !.left = t.left])
      PROVE  IInv'
  <2> DEFINE r == Made("me", Someone, Unknown, t.user, t.session, t.left, 0)
  <2>1. t.user \in Ids /\ t.session \in Sessions /\ t.left \in 0..AccessTTL
    BY <1>1, <1>3 DEF TypeOK
  <2>2. Knows(t.user, opened[t.session])
    BY <1>3 DEF IInv, TokensRight
  <2>3. r \in Requests
    BY <2>1, Nothing, MadeTypes
  <2>4. req' = [req EXCEPT ![w] = r]
    <3>1. PICK q : q = [Idle EXCEPT !.op = "me", !.user = t.user,
                                    !.session = t.session, !.left = t.left]
      OBVIOUS
    <3>2. q = r
      BY <3>1 DEF Idle, Made, Unknown
    <3> QED BY <1>3, <3>1, <3>2, Zenon DEF Begin
  <2>5. Moves(w, "verify", r)
    BY <1>3, <2>3, <2>4 DEF Begin, Goto, Moves, Stations
  <2>6. pc'[w] = "verify" /\ req'[w] = r
    BY <1>1, <2>5, MoveTypes
  <2>7. r.op = "me" /\ r.user = t.user /\ r.session = t.session
    BY DEF Made
  <2>8. Sound(w)'
    BY <1>1, <2>1, <2>2, <2>6, <2>7 DEF Sound, Vouched, Carried, Answered, Knows, SameEmail, db
  <2>9. Keeps(w, r)
    BY <1>3, <2>7 DEF IInv, TokensRight, Keeps
  <2> QED BY <1>1, <2>5, <2>8, <2>9, QuietHolds
<1>4. 401 \in Statuses
  BY DEF Statuses
<1> QED BY <1>2, <1>3, <1>4, Zenon DEF Call

\* The middleware lets a request in, for the user of its token.
LEMMA IsAuthenticatedHolds == ASSUME IInv, NEW w \in Workers, IsAuthenticated(w) PROVE IInv'
<1>0. /\ UNCHANGED <<db, key, held, tokens, opened, age>>
      /\ pc[w] = "verify" /\ TypeOK /\ Sound(w) /\ req[w] \in Requests
  BY DEF IsAuthenticated, IInv, TypeOK
<1>1. req[w].op = "me"
  BY <1>0 DEF Sound, Carried
<1>2. ASSUME Goto(w, "admitted"), req' = [req EXCEPT ![w].left = 0] PROVE IInv'
  <2> DEFINE r == [req[w] EXCEPT !.left = 0]
  <2>1. r \in Requests
    BY <1>0, Nothing DEF Requests
  <2>2. Moves(w, "admitted", r)
    BY <1>0, <1>2, <2>1 DEF TypeOK, Goto, Moves, Stations
  <2>3. pc'[w] = "admitted" /\ req'[w] = r
    BY <1>0, <2>2, MoveTypes
  <2>4. r.op = req[w].op /\ r.user = req[w].user /\ r.session = req[w].session
    BY <1>0 DEF Requests
  <2>5. Sound(w)'
    BY <1>0, <1>1, <2>3, <2>4 DEF Sound, Vouched, Carried, Answered, Knows, SameEmail, db
  <2>6. Keeps(w, r)
    BY <2>4 DEF Keeps
  <2> QED BY <1>0, <2>2, <2>5, <2>6, QuietHolds
<1>3. ASSUME Answer(w, 401) PROVE IInv'
  BY <1>0, <1>1, <1>3, AnsweredHolds DEF Statuses
<1> QED BY <1>2, <1>3 DEF IsAuthenticated

\* The row of a user who was let in is read.
LEMMA GetByIDHolds == ASSUME IInv, NEW w \in Workers, GetByID(w) PROVE IInv'
<1>0. /\ UNCHANGED <<db, key, held, tokens, opened, age>> /\ pc[w] = "admitted" /\ Sound(w)
  BY DEF GetByID, IInv
<1>1. req[w].op = "me"
  BY <1>0 DEF Sound, Carried
<1>2. MeStatus(req[w].user) \in Statuses /\ 500 \in Statuses
  BY DEF MeStatus, Statuses
<1> QED BY <1>0, <1>1, <1>2, AnsweredHolds DEF GetByID

\* A request that ends keeps nothing.
LEMMA ReplyHolds == ASSUME IInv, NEW w \in Workers, Reply(w) PROVE IInv'
<1> DEFINE r == Made("none", Someone, Unknown, 0, NoSession, 0, 0)
<1>1. UNCHANGED <<db, key, held, tokens, opened, age>> /\ TypeOK
  BY DEF Reply, IInv
<1>2. r \in Requests
  BY Nothing, MadeTypes
<1>3. Moves(w, "idle", r)
  BY <1>2, Shapes DEF Reply, Goto, Moves, Stations
<1>4. pc'[w] = "idle" /\ req'[w] = r
  BY <1>1, <1>3, MoveTypes
<1>5. Sound(w)'
  BY <1>4 DEF Sound, Vouched, Carried, Answered, Made, Unknown
<1>6. Keeps(w, r)
  BY DEF Keeps, Made
<1> QED BY <1>1, <1>3, <1>5, <1>6, QuietHolds

----------------------------------------------------------------------------
\* The steps that change a table, a key or the tokens

\* A row that is added has a new id and an address that no other row has.
LEMMA AddedRow ==
  ASSUME IInv, NEW w \in Workers, Added(w), nextId <= MaxId, nextId' = nextId + 1, held' = held
  PROVE  /\ Grown /\ users' \subseteq Ids /\ account' \in [Ids -> Accounts]
         /\ nextId' \in 1..(MaxId + 1) /\ Drawn' /\ UniqueEmail'
         /\ \E i \in users' : account'[i] = req[w].given
<1>0. TypeOK /\ MaxId \in Nat /\ req[w] \in Requests
  BY AccountsAssumption DEF IInv, TypeOK
<1>1. nextId \in Ids /\ nextId \notin users /\ users \subseteq Ids /\ req[w].given \in Accounts
  BY <1>0 DEF IInv, TypeOK, Drawn, Ids, Requests
<1>2. /\ users' = users \cup {nextId} /\ account' \in [Ids -> Accounts]
      /\ account'[nextId] = req[w].given
      /\ \A i \in users : account'[i] = account[i]
  BY <1>0, <1>1 DEF TypeOK, Added
<1>3. Drawn' /\ nextId' \in 1..(MaxId + 1)
  BY <1>0, <1>1, <1>2 DEF IInv, TypeOK, Drawn, Ids
<1>4. UniqueEmail'
  <2>1. \A i \in users : Citext[account[i].email] # Citext[req[w].given.email]
    BY DEF Added, InUse, SameEmail
  <2>2. \A i, j \in users : Citext[account[i].email] = Citext[account[j].email] => i = j
    BY DEF IInv, UniqueEmail, SameEmail
  <2>3. \A i, j \in users' : Citext[account'[i].email] = Citext[account'[j].email] => i = j
    BY <1>2, <2>1, <2>2
  <2> QED BY <2>3 DEF UniqueEmail, SameEmail
<1> QED BY <1>1, <1>2, <1>3, <1>4 DEF Grown

\* A registration that is answered after the table may have grown.
LEMMA DatabaseHolds ==
  ASSUME IInv, NEW w \in Workers, NEW status \in Statuses, Answer(w, status),
         UNCHANGED <<key, held, tokens, opened, age>>,
         Grown, users' \subseteq Ids, account' \in [Ids -> Accounts],
         nextId' \in 1..(MaxId + 1), Drawn', UniqueEmail', req[w].op = "register",
         status = 201 => \E i \in users' : account'[i] = req[w].given,
         status = 409 => \E i \in users' : Citext[account'[i].email] = Citext[req[w].given.email]
  PROVE  IInv'
<1>1. PICK r : Moves(w, "done", r) /\ Sound(w)' /\ r.session = NoSession
  BY AnswerSound
<1>2. TypeOK'
  BY <1>1, MoveTypes DEF IInv, TypeOK, Stations
<1>3. KeysRight' /\ TokensRight'
  BY KnowsKept DEF IInv, KeysRight, TokensRight
<1>4. \A v \in Workers \ {w} : Sound(v)'
  BY <1>1, MoveTypes, StillSound DEF IInv
<1>5. \A v \in Workers : Private(v)'
  BY <1>1, PrivateKept DEF Keeps
<1> QED BY <1>1, <1>2, <1>3, <1>4, <1>5 DEF IInv

\* The INSERT of a registration adds a row, or finds that the address is in use.
LEMMA InsertHolds == ASSUME IInv, NEW w \in Workers, Insert(w) PROVE IInv'
<1>0. /\ UNCHANGED <<key, held, tokens, opened, age>> /\ nextId <= MaxId /\ nextId' = nextId + 1
      /\ pc[w] = "insert" /\ TypeOK /\ Sound(w)
      /\ 201 \in Statuses /\ 409 \in Statuses
  BY DEF Insert, IInv, Statuses
<1>1. req[w].op = "register"
  BY <1>0 DEF Sound, Carried
<1>2. CASE Added(w) /\ Answer(w, 201)
  BY <1>0, <1>1, <1>2, AddedRow, DatabaseHolds
<1>3. CASE InUse(req[w].given.email) /\ Answer(w, 409) /\ UNCHANGED <<users, account>>
  <2>1. Grown /\ users' \subseteq Ids /\ account' \in [Ids -> Accounts]
    BY <1>0, <1>3 DEF TypeOK, Grown
  <2>2. nextId' \in 1..(MaxId + 1) /\ Drawn' /\ UniqueEmail'
    BY <1>0, <1>3, AccountsAssumption DEF IInv, TypeOK, Drawn, UniqueEmail, SameEmail, Ids
  <2>3. \E i \in users' : Citext[account'[i].email] = Citext[req[w].given.email]
    BY <1>3 DEF InUse, SameEmail
  <2> QED BY <1>0, <1>1, <1>3, <2>1, <2>2, <2>3, DatabaseHolds
<1> QED BY <1>2, <1>3 DEF Insert

\* An INSERT that fails is answered by 500, whether it took effect or not.
LEMMA InsertFailsHolds == ASSUME IInv, NEW w \in Workers, InsertFails(w) PROVE IInv'
<1>0. /\ UNCHANGED <<key, held, tokens, opened, age>> /\ Answer(w, 500)
      /\ pc[w] = "insert" /\ TypeOK /\ Sound(w) /\ 500 \in Statuses
  BY DEF InsertFails, IInv, Statuses
<1>1. req[w].op = "register"
  BY <1>0 DEF Sound, Carried
<1>2. CASE UNCHANGED db
  BY <1>0, <1>1, <1>2, AnsweredHolds
<1>3. CASE nextId <= MaxId /\ nextId' = nextId + 1 /\ UNCHANGED <<users, account>>
  <2>1. Grown /\ users' \subseteq Ids /\ account' \in [Ids -> Accounts]
    BY <1>0, <1>3 DEF TypeOK, Grown
  <2>2. nextId' \in 1..(MaxId + 1) /\ Drawn' /\ UniqueEmail'
    BY <1>0, <1>3, AccountsAssumption DEF IInv, TypeOK, Drawn, UniqueEmail, SameEmail, Ids
  <2> QED BY <1>0, <1>1, <2>1, <2>2, DatabaseHolds
<1>4. CASE nextId <= MaxId /\ nextId' = nextId + 1 /\ Added(w)
  BY <1>0, <1>1, <1>4, AddedRow, DatabaseHolds
<1> QED BY <1>2, <1>3, <1>4 DEF InsertFails

\* A refresh hands out a token for the user of its key; a login has read the clock.
LEMMA IssueHolds == ASSUME IInv, NEW w \in Workers, Issue(w) PROVE IInv'
<1>0. /\ UNCHANGED <<db, key, held, opened, age>> /\ UNCHANGED <<users, account, nextId>> /\ Grown
      /\ pc[w] = "issue" /\ TypeOK /\ Sound(w) /\ req[w] \in Requests /\ 200 \in Statuses
  BY DEF Issue, IInv, TypeOK, Grown, db, Statuses
<1>1. ASSUME req[w].op = "login", Goto(w, "store"), UNCHANGED tokens,
             req' = [req EXCEPT ![w].left = AccessTTL, ![w].lag = 0]
      PROVE  IInv'
  <2> DEFINE q == [req[w] EXCEPT !.left = AccessTTL]
             r == [q EXCEPT !.lag = 0]
  <2>1. AccessTTL \in 0..AccessTTL /\ 0 \in 0..MaxLag
    BY AccountsAssumption
  <2>2. q \in Requests /\ q.op = req[w].op /\ q.user = req[w].user /\ q.given = req[w].given
        /\ q.known = req[w].known /\ q.session = req[w].session
    BY <1>0, <2>1 DEF Requests
  <2> HIDE DEF q
  <2>3. r \in Requests /\ r.op = req[w].op /\ r.user = req[w].user /\ r.given = req[w].given
        /\ r.known = req[w].known /\ r.session = req[w].session
    BY <2>1, <2>2 DEF Requests
  <2>4. req' = [req EXCEPT ![w] = r]
    BY <1>0, <1>1 DEF TypeOK, q
  <2> HIDE DEF r
  <2>5. Moves(w, "store", r)
    BY <1>0, <1>1, <2>3, <2>4 DEF Goto, Moves, Stations
  <2>6. pc'[w] = "store" /\ req'[w] = r
    BY <1>0, <2>5, MoveTypes
  <2>7. Vouched(w)'
    BY <1>0, <1>1, <2>3, <2>6 DEF Sound, Vouched, Knows, SameEmail
  <2>8. /\ pc'[w] = "store" /\ req'[w].op = "login"
        /\ (req[w].known => Registered(req[w].given))'
    <3>1. req[w].known => Registered(req[w].given)
      BY <1>0, <1>1 DEF Sound, Carried
    <3>2. req'[w].known = req[w].known /\ req'[w].given = req[w].given /\ req'[w].op = "login"
      BY <1>1, <2>3, <2>6
    <3> QED BY <1>0, <2>6, <3>1, <3>2 DEF Registered
  <2>9. Carried(w)'
    BY <2>8 DEF Carried
  <2>10. Answered(w)'
    BY <2>8 DEF Answered
  <2>11. Keeps(w, r)
    BY <1>1, <2>3 DEF Keeps
  <2> QED BY <1>0, <1>1, <2>5, <2>7, <2>9, <2>10, <2>11, QuietHolds DEF Sound
<1>2. ASSUME req[w].op = "refresh", Answer(w, 200),
             tokens' = tokens \cup {[user |-> req[w].user, session |-> req[w].session,
                                     left |-> AccessTTL]}
      PROVE  IInv'
  <2> DEFINE t == [user |-> req[w].user, session |-> req[w].session, left |-> AccessTTL]
  <2>1. PICK r : Moves(w, "done", r) /\ Sound(w)' /\ r.session = NoSession
    BY <1>0, <1>2, AnswerSound
  <2>2. req[w].session \in Sessions /\ Knows(req[w].user, opened[req[w].session])
    BY <1>0, <1>2 DEF Sound, Vouched
  <2>3. t \in [user : Ids, session : Sessions, left : 0..AccessTTL]
    BY <1>0, <2>2, AccountsAssumption DEF TypeOK, Knows
  <2>4. TypeOK'
    BY <1>0, <1>2, <2>1, <2>3, MoveTypes DEF TypeOK, Stations
  <2>5. Drawn' /\ UniqueEmail' /\ KeysRight'
    BY <1>0 DEF IInv, Drawn, UniqueEmail, KeysRight, Knows, SameEmail
  <2>6. TokensRight'
    <3>1. req[w].session \in held
      BY <1>0, <1>2, <2>2, AccountsAssumption DEF Sound, Carried
    <3>2. tokens' = tokens \cup {t} /\ t.session = req[w].session /\ t.user = req[w].user
      BY <1>2
    <3> HIDE DEF t
    <3> QED BY <1>0, <2>2, <3>1, <3>2 DEF IInv, TokensRight, Knows, SameEmail
  <2>7. \A v \in Workers \ {w} : Sound(v)'
    BY <1>0, <2>1, MoveTypes, StillSound
  <2>8. \A v \in Workers : Private(v)'
    BY <1>0, <2>1, PrivateKept DEF Keeps
  <2> QED BY <2>1, <2>4, <2>5, <2>6, <2>7, <2>8 DEF IInv
<1> QED BY <1>1, <1>2 DEF Issue

\* SET of a session that a login has drawn, answered or not.
LEMMA SetHolds ==
  ASSUME IInv, NEW w \in Workers, pc[w] = "store", NEW s \in Sessions, Draws(w, s), SetKey(w, s),
         UNCHANGED <<db, age>>, NEW step, NEW r, Moves(w, step, r), Sound(w)',
         \/ /\ r.session = NoSession /\ held' = held \cup {s}
            /\ tokens' = tokens \cup
                 {[user |-> req[w].user, session |-> s, left |-> req[w].left]}
         \/ r.session = s /\ UNCHANGED <<held, tokens>>
  PROVE  IInv'
<1> DEFINE k == [user |-> req[w].user, ttl |-> RefreshTTL]
           t == [user |-> req[w].user, session |-> s, left |-> req[w].left]
<1>0. /\ UNCHANGED <<users, account, nextId>> /\ TypeOK /\ Sound(w) /\ req[w] \in Requests /\ Grown
  BY DEF IInv, TypeOK, db, Grown
<1>1. /\ req[w].op = "login" /\ Knows(req[w].user, req[w].given)
      /\ \A v \in Workers : Private(v)
  BY <1>0 DEF IInv, Sound, Carried, Vouched
<1>2. s # NoSession /\ s \notin held /\ \A v \in Workers \ {w} : req[v].session # s
  BY <1>1, AccountsAssumption DEF Draws, Fresh, Private
<1>3. req[w].user \in Ids /\ req[w].given \in Accounts /\ req[w].left \in 0..AccessTTL
  BY <1>0, <1>1 DEF Requests, Knows, TypeOK
<1>4. /\ k \in [user : Ids, ttl : 1..RefreshTTL]
      /\ t \in [user : Ids, session : Sessions, left : 0..AccessTTL]
      /\ k.user = req[w].user /\ t.user = req[w].user /\ t.session = s
  BY <1>3, AccountsAssumption
<1>5. key' = [key EXCEPT ![s] = k] /\ opened' = [opened EXCEPT ![s] = req[w].given]
  BY DEF SetKey
<1>6. /\ tokens' \subseteq tokens \cup {t} /\ held \subseteq held' /\ held' \subseteq held \cup {s}
      /\ held' \subseteq Sessions /\ t \in tokens' => s \in held' \/ t \in tokens
  BY <1>0 DEF TypeOK
<1> HIDE DEF k, t
<1>7. TypeOK'
  BY <1>0, <1>3, <1>4, <1>5, <1>6, MoveTypes DEF TypeOK, Stations
<1>8. opened'[s] = req[w].given /\ key'[s] = k
      /\ \A q \in Sessions \ {s} : opened'[q] = opened[q] /\ key'[q] = key[q]
  BY <1>0, <1>5 DEF TypeOK
<1>9. Drawn' /\ UniqueEmail'
  BY <1>0 DEF IInv, Drawn, UniqueEmail, SameEmail
<1>10. KeysRight'
  BY <1>0, <1>1, <1>4, <1>8 DEF IInv, KeysRight, Knows, SameEmail
<1>11. TokensRight'
  <2>1. \A u \in tokens : u.session \in Sessions /\ u.session # s
    BY <1>0, <1>2 DEF IInv, TypeOK, TokensRight
  <2> QED BY <1>0, <1>1, <1>4, <1>6, <1>8, <2>1 DEF IInv, TokensRight, Knows, SameEmail
<1>12. \A v \in Workers \ {w} : Sound(v)'
  BY <1>0, <1>2, <1>8, MoveTypes, StillSound
<1>13. \A v \in Workers : Private(v)'
  <2>1. req'[w] = r /\ \A v \in Workers \ {w} : req'[v] = req[v]
    BY <1>0, MoveTypes
  <2>2. Private(w)'
    BY <1>2, <2>1 DEF Private
  <2>3. ASSUME NEW v \in Workers \ {w} PROVE Private(v)'
    BY <1>1, <1>2, <1>6, <2>1 DEF Private
  <2> QED BY <2>2, <2>3
<1> QED BY <1>7, <1>9, <1>10, <1>11, <1>12, <1>13 DEF IInv

\* A login stores the key of a session that is its own, and hands out both tokens or none.
LEMMA StoreHolds == ASSUME IInv, NEW w \in Workers, Store(w) PROVE IInv'
<1>0. /\ UNCHANGED <<db, age>> /\ Sound(w) /\ pc[w] = "store"
      /\ 200 \in Statuses /\ 500 \in Statuses
  BY DEF Store, IInv, Statuses
<1>1. req[w].op = "login"
  BY <1>0 DEF Sound, Carried
<1>2. CASE Answer(w, 500) /\ UNCHANGED <<key, opened, held, tokens>>
  BY <1>0, <1>1, <1>2, AnsweredHolds
<1>3. ASSUME NEW s \in Sessions, Draws(w, s), SetKey(w, s), Answer(w, 200),
             held' = held \cup {s},
             tokens' = tokens \cup {[user |-> req[w].user, session |-> s, left |-> req[w].left]}
      PROVE  IInv'
  <2>1. Grown
    BY <1>0, <1>3 DEF Grown, db
  <2>2. PICK r : Moves(w, "done", r) /\ Sound(w)' /\ r.session = NoSession
    BY <1>0, <1>1, <1>3, <2>1, AnswerSound
  <2> QED BY <1>0, <1>3, <2>2, SetHolds
<1> QED BY <1>2, <1>3 DEF Store

\* The reply of a SET is lost, and the login keeps its session for the next.
LEMMA SetLostHolds == ASSUME IInv, NEW w \in Workers, SetLost(w) PROVE IInv'
<1>0. /\ UNCHANGED <<db, held, tokens, age, pc>> /\ Sound(w) /\ pc[w] = "store"
      /\ TypeOK /\ req[w] \in Requests
  BY DEF SetLost, IInv, TypeOK
<1>1. PICK s \in Sessions : Draws(w, s) /\ SetKey(w, s) /\ req' = [req EXCEPT ![w].session = s]
  BY DEF SetLost
<1> DEFINE r == [req[w] EXCEPT !.session = s]
<1>2. /\ r \in Requests /\ r.session = s /\ r.op = req[w].op /\ r.given = req[w].given
      /\ r.known = req[w].known /\ r.user = req[w].user
  BY <1>0 DEF Requests
<1>3. Moves(w, "store", r)
  BY <1>0, <1>1, <1>2 DEF TypeOK, Moves, Stations
<1>4. pc'[w] = "store" /\ req'[w] = r
  BY <1>0, <1>3, MoveTypes
<1> HIDE DEF r
<1>5. Sound(w)'
  BY <1>0, <1>2, <1>4 DEF Sound, Vouched, Carried, Answered, Knows, Registered, SameEmail, db
<1> QED BY <1>0, <1>1, <1>2, <1>3, <1>5, SetHolds

\* Redis loses a key.
LEMMA EvictHolds == ASSUME IInv, NEW s \in Sessions, Evict(s) PROVE IInv'
<1>0. /\ UNCHANGED <<users, account, nextId, held, tokens, opened, age, pc, req>> /\ Grown /\ TypeOK
      /\ key' = [key EXCEPT ![s] = NoKey]
  BY DEF Evict, db, Grown, IInv
<1>1. TypeOK'
  BY <1>0 DEF TypeOK
<1>2. Drawn' /\ UniqueEmail' /\ KeysRight' /\ TokensRight'
  BY <1>0 DEF IInv, TypeOK, Drawn, UniqueEmail, KeysRight, TokensRight, Knows, SameEmail
<1>3. \A v \in Workers : Sound(v)' /\ Private(v)'
  BY <1>0, StillSound DEF IInv, Private
<1> QED BY <1>1, <1>2, <1>3 DEF IInv

\* Time passes: keys and tokens run out, and requests hold what they hold.
LEMMA TickHolds == ASSUME IInv, Tick PROVE IInv'
<1>0. /\ UNCHANGED <<users, account, nextId, held, opened, pc>> /\ Grown /\ TypeOK
      /\ MaxLag \in Nat /\ AccessTTL \in Nat /\ RefreshTTL \in Nat
  BY AccountsAssumption DEF Tick, db, Grown, IInv
<1>1. ASSUME NEW v \in Workers
      PROVE  /\ req'[v] \in Requests
             /\ req'[v].op = req[v].op /\ req'[v].given = req[v].given
             /\ req'[v].known = req[v].known /\ req'[v].user = req[v].user
             /\ req'[v].session = req[v].session /\ req'[v].status = req[v].status
  <2> DEFINE q == [req[v] EXCEPT !.left = Drop(@)]
             lag == IF pc[v] = "issue" THEN req[v].lag + 1 ELSE req[v].lag
             r == [q EXCEPT !.lag = lag]
  <2>1. req[v] \in Requests
    BY <1>0 DEF TypeOK
  <2>2. Drop(req[v].left) \in 0..AccessTTL /\ lag \in 0..MaxLag
    <3>1. req[v].left \in 0..AccessTTL /\ req[v].lag \in 0..MaxLag
      BY <2>1 DEF Requests
    <3>2. pc[v] = "issue" => req[v].lag < MaxLag
      BY DEF Tick
    <3>3. Drop(req[v].left) \in 0..AccessTTL
      BY <1>0, <3>1 DEF Drop
    <3>4. lag \in 0..MaxLag
      BY <1>0, <3>1, <3>2
    <3> QED BY <3>3, <3>4
  <2>3. q \in Requests /\ q.op = req[v].op /\ q.given = req[v].given /\ q.known = req[v].known
        /\ q.user = req[v].user /\ q.session = req[v].session /\ q.status = req[v].status
        /\ q.lag = req[v].lag
    BY <2>1, <2>2 DEF Requests
  <2>4. req'[v] = [req[v] EXCEPT !.left = Drop(@), !.lag = IF pc[v] = "issue" THEN @ + 1 ELSE @]
    BY DEF Tick
  <2>5. req'[v] = r
    BY <2>4, Zenon
  <2> HIDE DEF q, lag
  <2> QED BY <2>2, <2>3, <2>5 DEF Requests
<1>2. req' \in [Workers -> Requests]
  BY <1>1 DEF Tick
<1>3. key' \in [Sessions -> [user : Ids, ttl : 1..RefreshTTL] \cup {NoKey}]
      /\ \A s \in Sessions : key'[s] # NoKey => key[s] # NoKey /\ key'[s].user = key[s].user
  <2>1. ASSUME NEW s \in Sessions
        PROVE  /\ key'[s] \in [user : Ids, ttl : 1..RefreshTTL] \cup {NoKey}
               /\ key'[s] # NoKey => key[s] # NoKey /\ key'[s].user = key[s].user
    <3>1. CASE key[s].ttl > 1
      <4>1. key'[s] = [key[s] EXCEPT !.ttl = @ - 1]
        BY <3>1 DEF Tick
      <4>2. key[s] # NoKey
        BY <3>1 DEF NoKey
      <4>3. key[s] \in [user : Ids, ttl : 1..RefreshTTL]
        BY <1>0, <4>2 DEF TypeOK
      <4>4. key[s].ttl - 1 \in 1..RefreshTTL
        BY <1>0, <3>1, <4>3
      <4> QED BY <4>1, <4>2, <4>3, <4>4
    <3>2. CASE ~(key[s].ttl > 1)
      BY <3>2 DEF Tick
    <3> QED BY <3>1, <3>2
  <2> QED BY <2>1 DEF Tick
<1>4. \A t \in tokens' : /\ t \in [user : Ids, session : Sessions, left : 0..AccessTTL]
                          /\ \E u \in tokens : t.user = u.user /\ t.session = u.session
  <2> TAKE t \in tokens'
  <2>1. PICK u \in tokens : u.left > 1 /\ t = [u EXCEPT !.left = @ - 1]
    BY DEF Tick
  <2>2. u \in [user : Ids, session : Sessions, left : 0..AccessTTL]
    BY <1>0 DEF TypeOK
  <2>3. u.left - 1 \in 0..AccessTTL
    BY <1>0, <2>1, <2>2
  <2> QED BY <2>1, <2>2, <2>3
<1>5. age' \in [Sessions -> 0..Lifetime]
  <2>1. Lifetime \in Nat
    BY <1>0 DEF Lifetime
  <2>2. \A s \in Sessions : age'[s] \in {age[s], age[s] + 1}
                              /\ (age'[s] # age[s] => age[s] < Lifetime)
    BY <1>0 DEF TypeOK, Tick
  <2>3. \A s \in Sessions : age'[s] \in 0..Lifetime
    BY <1>0, <2>1, <2>2 DEF TypeOK
  <2> QED BY <2>3 DEF Tick
<1>6. TypeOK'
  BY <1>0, <1>2, <1>3, <1>4, <1>5 DEF TypeOK
<1>7. Drawn' /\ UniqueEmail'
  BY <1>0 DEF IInv, Drawn, UniqueEmail, SameEmail
<1>8. KeysRight' /\ TokensRight'
  BY <1>0, <1>3, <1>4 DEF IInv, KeysRight, TokensRight, Knows, SameEmail
<1>9. \A v \in Workers : Sound(v)'
  BY <1>0, <1>1, StillSound
<1>10. \A v \in Workers : Private(v)'
  BY <1>0, <1>1 DEF IInv, Private
<1> QED BY <1>6, <1>7, <1>8, <1>9, <1>10 DEF IInv

----------------------------------------------------------------------------
\* The invariant holds

\* The empty tables satisfy the invariant.
LEMMA InitHolds == Init => IInv
<1> SUFFICES ASSUME Init PROVE IInv
  OBVIOUS
<1>1. Idle \in Requests
  BY Nothing, MadeTypes, Shapes
<1>2. TypeOK
  BY <1>1, SomeoneExists, AccountsAssumption DEF Init, TypeOK, Lifetime
<1>3. Drawn /\ UniqueEmail /\ KeysRight /\ TokensRight
  BY DEF Init, Drawn, UniqueEmail, KeysRight, TokensRight
<1>4. \A w \in Workers : Sound(w) /\ Private(w)
  <2>1. Idle.op = "none"
    BY DEF Idle
  <2> QED BY <2>1 DEF Init, Sound, Vouched, Carried, Answered, Private
<1> QED BY <1>2, <1>3, <1>4 DEF IInv

\* Every step keeps the invariant.
LEMMA NextHolds == IInv /\ [Next]_vars => IInv'
<1> SUFFICES ASSUME IInv, [Next]_vars PROVE IInv'
  OBVIOUS
<1>1. ASSUME UNCHANGED vars PROVE IInv'
  <2>1. UNCHANGED <<users, account, nextId, key, held, tokens, opened, age, pc, req>> /\ Grown
    BY <1>1 DEF vars, Grown
  <2>2. TypeOK' /\ Drawn' /\ UniqueEmail' /\ KeysRight' /\ TokensRight'
    BY <2>1 DEF IInv, TypeOK, Drawn, UniqueEmail, KeysRight, TokensRight, Knows, SameEmail
  <2>3. \A v \in Workers : Sound(v)' /\ Private(v)'
    BY <2>1, StillSound DEF IInv, Private
  <2> QED BY <2>2, <2>3 DEF IInv
<1>2. ASSUME NEW w \in Workers,
             \/ Register(w) \/ Insert(w) \/ InsertFails(w) \/ Login(w) \/ Find(w)
             \/ SetLost(w) \/ Store(w) \/ Refresh(w) \/ Get(w) \/ Issue(w)
             \/ Call(w) \/ IsAuthenticated(w) \/ GetByID(w) \/ Reply(w)
      PROVE  IInv'
  BY <1>2, RegisterHolds, InsertHolds, InsertFailsHolds, LoginHolds, FindHolds, SetLostHolds,
     StoreHolds, RefreshHolds, GetHolds, IssueHolds, CallHolds, IsAuthenticatedHolds,
     GetByIDHolds, ReplyHolds
<1> QED BY <1>1, <1>2, EvictHolds, TickHolds DEF Next

\* The invariant holds in every reachable state.
THEOREM Invariance == Spec => []IInv
BY InitHolds, NextHolds, PTL DEF Spec

----------------------------------------------------------------------------
\* Theorems

\* The types hold, for any number of requests, accounts and sessions.
THEOREM TypeCorrect == Spec => []TypeOK
<1>1. IInv => TypeOK
  BY DEF IInv
<1> QED BY <1>1, Invariance, PTL

\* No two rows of users have one address, however it is spelled and however many
\* registrations race.
THEOREM EmailsUnique == Spec => []UniqueEmail
<1>1. IInv => UniqueEmail
  BY DEF IInv
<1> QED BY <1>1, Invariance, PTL

\* 201 and 409 to a registration are true when they are given.
THEOREM AnswersTrue == Spec => []RegisterAnswersTrue
<1>1. IInv => RegisterAnswersTrue
  BY DEF IInv, Sound, Answered, RegisterAnswersTrue
<1> QED BY <1>1, Invariance, PTL

\* Whoever types what an account was made from is told that it is wrong only if cleaning has
\* made another address of it for CITEXT, whatever cleaning does and whatever CITEXT compares.
THEOREM KnownGetIn == Spec => []KnownUserLogsIn
<1>1. IInv => KnownUserLogsIn
  BY DEF IInv, Sound, Answered, KnownUserLogsIn
<1> QED BY <1>1, Invariance, PTL

\* Whoever the middleware lets in is the user who opened the session, through any number of
\* refreshes, expired keys and requests in between.
THEOREM AdmissionRight == Spec => []AdmittedAsOpened
<1>1. IInv => AdmittedAsOpened
  BY DEF IInv, Sound, Vouched, Knows, AdmittedAsOpened
<1> QED BY <1>1, Invariance, PTL

=============================================================================
