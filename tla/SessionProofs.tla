---------------------------- MODULE SessionProofs -----------------------------
(***************************************************************************)
(* Proofs about Accounts: how long one login lets a client in, for every   *)
(* value of the constants.                                                 *)
(***************************************************************************)
EXTENDS AccountsProofs

----------------------------------------------------------------------------
\* The invariant: the age of a session, and what is left of all that stems from it

\* A refresh key goes when its session is RefreshTTL old, whatever is done with it.
KeysBounded ==
  \A s \in Sessions : key[s] # NoKey => age[s] + key[s].ttl <= RefreshTTL

\* A token goes before its session is older than Lifetime.
TokensBounded == \A t \in tokens : age[t.session] + t.left <= Lifetime

\* A refresh has read the key while there was one, and is as late as its lag; the token in a
\* request's hands is one that a client had.
InTime(w) ==
  /\ pc[w] = "get" => req[w].lag = 0
  /\ pc[w] = "issue" /\ req[w].op = "refresh" => age[req[w].session] <= RefreshTTL + req[w].lag
  /\ pc[w] = "verify" => age[req[w].session] + req[w].left <= Lifetime

\* The age of a session is counted from the moment its tokens are given out.
Counted == \A s \in Sessions \ held : age[s] = 0

SessionInv ==
  /\ IInv /\ KeysBounded /\ TokensBounded /\ Counted
  /\ \A w \in Workers : InTime(w)

\* The steps of one request.
Works(w) ==
  \/ Register(w) \/ Insert(w) \/ InsertFails(w)
  \/ Login(w) \/ Find(w) \/ SetLost(w) \/ Store(w)
  \/ Refresh(w) \/ Get(w) \/ Issue(w)
  \/ Call(w) \/ IsAuthenticated(w) \/ GetByID(w) \/ Reply(w)

----------------------------------------------------------------------------
\* What steps leave alone

\* Times are numbers.
LEMMA Times ==
  ASSUME IInv
  PROVE  /\ RefreshTTL \in Nat /\ AccessTTL \in Nat /\ MaxLag \in Nat /\ Lifetime \in Nat
         /\ Lifetime = RefreshTTL + MaxLag + AccessTTL
         /\ \A s \in Sessions : age[s] \in Nat /\ age[s] <= Lifetime
         /\ \A s \in Sessions : key[s] # NoKey => key[s].ttl \in Nat /\ key[s].ttl >= 1
         /\ \A t \in tokens : t.session \in Sessions /\ t.left \in 0..AccessTTL
         /\ \A w \in Workers : req[w] \in Requests /\ req[w].lag \in 0..MaxLag
                               /\ req[w].left \in 0..AccessTTL
         /\ \A w \in Workers :
              pc[w] = "verify" \/ (pc[w] = "issue" /\ req[w].op = "refresh") =>
                req[w].session \in Sessions
<1>1. RefreshTTL \in Nat /\ AccessTTL \in Nat /\ MaxLag \in Nat
  BY AccountsAssumption
<1>2. Lifetime \in Nat /\ Lifetime = RefreshTTL + MaxLag + AccessTTL
  BY <1>1 DEF Lifetime
<1>3. \A s \in Sessions : age[s] \in Nat /\ age[s] <= Lifetime
  BY <1>2 DEF IInv, TypeOK
<1>4. \A s \in Sessions : key[s] # NoKey => key[s].ttl \in Nat /\ key[s].ttl >= 1
  BY <1>1 DEF IInv, TypeOK
<1>5. \A t \in tokens : t.session \in Sessions /\ t.left \in 0..AccessTTL
  BY DEF IInv, TypeOK
<1>6. \A w \in Workers : req[w] \in Requests /\ req[w].lag \in 0..MaxLag
                         /\ req[w].left \in 0..AccessTTL
  <2>1. \A w \in Workers : req[w] \in Requests
    BY DEF IInv, TypeOK
  <2>2. ASSUME NEW r \in Requests PROVE r.lag \in 0..MaxLag /\ r.left \in 0..AccessTTL
    BY <2>2 DEF Requests
  <2> QED BY <2>1, <2>2
<1>7. \A w \in Workers :
        pc[w] = "verify" \/ (pc[w] = "issue" /\ req[w].op = "refresh") =>
          req[w].session \in Sessions
  BY DEF IInv, Sound, Vouched
<1> QED BY <1>1, <1>2, <1>3, <1>4, <1>5, <1>6, <1>7

\* A step of one request leaves the others where they are.
LEMMA OneAtATime ==
  ASSUME TypeOK, NEW w \in Workers, Works(w)
  PROVE  \A v \in Workers \ {w} : pc'[v] = pc[v] /\ req'[v] = req[v]
<1>0. pc \in [Workers -> Stations] /\ req \in [Workers -> Requests]
  BY DEF TypeOK, Stations
<1>1. ASSUME NEW status, Answer(w, status)
      PROVE  \A v \in Workers \ {w} : pc'[v] = pc[v] /\ req'[v] = req[v]
  BY <1>0, <1>1 DEF Answer, Goto
<1>2. ASSUME NEW step, NEW r, Begin(w, step, r)
      PROVE  \A v \in Workers \ {w} : pc'[v] = pc[v] /\ req'[v] = req[v]
  BY <1>0, <1>2 DEF Begin, Goto
<1>3. CASE Register(w) \/ Login(w) \/ Refresh(w) \/ Call(w)
  BY <1>2, <1>3 DEF Register, Login, Refresh, Call, Refuse
<1>4. CASE Insert(w) \/ InsertFails(w) \/ Store(w) \/ GetByID(w)
  BY <1>1, <1>4 DEF Insert, InsertFails, Store, GetByID
<1>5. CASE Find(w) \/ Get(w) \/ IsAuthenticated(w) \/ Reply(w)
  BY <1>0, <1>1, <1>5 DEF Find, Get, IsAuthenticated, Reply, Goto
<1>6. CASE Issue(w)
  BY <1>0, <1>1, <1>6 DEF Issue, Goto
<1>7. CASE SetLost(w)
  BY <1>0, <1>7 DEF SetLost
<1> QED BY <1>3, <1>4, <1>5, <1>6, <1>7 DEF Works

\* Those that stand still stay in time.
LEMMA StillInTime ==
  ASSUME NEW v \in Workers, InTime(v), pc'[v] = pc[v], req'[v] = req[v], age' = age
  PROVE  InTime(v)'
BY DEF InTime

\* The steps that leave sessions alone, and where they lead to.
LEMMA Quiet ==
  ASSUME TypeOK, NEW w \in Workers,
         \/ Register(w) \/ Insert(w) \/ InsertFails(w) \/ Login(w) \/ Find(w)
         \/ IsAuthenticated(w) \/ GetByID(w) \/ Reply(w)
  PROVE  /\ UNCHANGED <<key, tokens, age>>
         /\ pc'[w] \notin {"get", "verify"}
         /\ pc'[w] = "issue" => pc[w] = "find" /\ req'[w].op = req[w].op
<1>0. pc \in [Workers -> Stations] /\ req \in [Workers -> Requests]
  BY DEF TypeOK, Stations
<1>1. ASSUME NEW status, Answer(w, status) PROVE pc'[w] = "done"
  BY <1>0, <1>1 DEF Answer, Goto
<1>2. ASSUME NEW step, NEW r, Begin(w, step, r) PROVE pc'[w] = step
  BY <1>0, <1>2 DEF Begin, Goto
<1>3. CASE Register(w) \/ Login(w)
  <2>1. pc'[w] \in {"done", "insert", "find"}
    BY <1>2, <1>3 DEF Register, Login, Refuse
  <2> QED BY <1>3, <2>1 DEF Register, Login
<1>4. CASE Insert(w) \/ InsertFails(w) \/ GetByID(w)
  BY <1>1, <1>4 DEF Insert, InsertFails, GetByID
<1>5. CASE IsAuthenticated(w) \/ Reply(w)
  <2>1. pc'[w] \in {"done", "admitted", "idle"}
    BY <1>0, <1>1, <1>5 DEF IsAuthenticated, Reply, Goto
  <2> QED BY <1>5, <2>1 DEF IsAuthenticated, Reply
<1>6. CASE Find(w)
  <2>1. pc'[w] = "done" \/ (pc'[w] = "issue" /\ req'[w].op = req[w].op)
    BY <1>0, <1>1, <1>6 DEF Find, Goto, Requests
  <2> QED BY <1>6, <2>1 DEF Find
<1> QED BY <1>3, <1>4, <1>5, <1>6

\* A step of w that leaves the others in time.
LEMMA OthersInTime ==
  ASSUME SessionInv, NEW w \in Workers, Works(w), age' = age, InTime(w)'
  PROVE  \A v \in Workers : InTime(v)'
<1>1. \A v \in Workers \ {w} : InTime(v)'
  BY OneAtATime, StillInTime DEF SessionInv, IInv
<1> QED BY <1>1

----------------------------------------------------------------------------
\* The steps

\* What is bounded stays so, action after action.
LEMMA WorkInTime ==
  ASSUME SessionInv, NEW w \in Workers, Works(w)
  PROVE  (KeysBounded /\ TokensBounded /\ Counted)' /\ \A v \in Workers : InTime(v)'
<1>0. /\ IInv /\ TypeOK /\ KeysBounded /\ TokensBounded /\ Counted /\ InTime(w) /\ Sound(w)
      /\ pc \in [Workers -> Stations] /\ req \in [Workers -> Requests] /\ req[w] \in Requests
      /\ key \in [Sessions -> [user : Ids, ttl : 1..RefreshTTL] \cup {NoKey}]
  BY DEF SessionInv, IInv, TypeOK, Stations
<1>1. ASSUME UNCHANGED <<key, age>> PROVE KeysBounded'
  BY <1>0, <1>1 DEF KeysBounded
<1>2. ASSUME UNCHANGED <<tokens, age>> PROVE TokensBounded'
  BY <1>0, <1>2 DEF TokensBounded
<1>c. Counted'
  <2>1. age' = age /\ held \subseteq held'
    BY DEF Works, Register, Insert, InsertFails, Login, Find, SetLost, Store, Refresh, Get, Issue,
           Call, IsAuthenticated, GetByID, Reply
  <2> QED BY <1>0, <2>1 DEF Counted
<1>3. ASSUME NEW status, Answer(w, status) PROVE pc'[w] = "done" /\ InTime(w)'
  <2>1. pc'[w] = "done"
    BY <1>0, <1>3 DEF Answer, Goto
  <2> QED BY <2>1 DEF InTime
<1>4. CASE \/ Register(w) \/ Insert(w) \/ InsertFails(w) \/ Login(w) \/ Find(w)
           \/ IsAuthenticated(w) \/ GetByID(w) \/ Reply(w)
  <2>1. /\ UNCHANGED <<key, tokens, age>>
        /\ pc'[w] \notin {"get", "verify"}
        /\ pc'[w] = "issue" => pc[w] = "find" /\ req'[w].op = req[w].op
    BY <1>0, <1>4, Quiet
  <2>2. InTime(w)'
    BY <1>0, <2>1 DEF InTime, Sound, Carried
  <2> QED BY <1>c, <1>1, <1>2, <2>1, <2>2, OthersInTime
<1>5. CASE Refresh(w)
  <2>1. UNCHANGED <<key, tokens, age>>
    BY <1>5 DEF Refresh
  <2>2. CASE \E status \in Statuses : Refuse(w, status)
    <3>1. pc'[w] = "done"
      BY <1>0, <2>2 DEF Refuse, Begin, Goto
    <3> QED BY <1>c, <1>1, <1>2, <2>1, <3>1, OthersInTime DEF InTime
  <2>3. ASSUME NEW s \in held \cup {NoSession},
               Begin(w, "get", [Idle EXCEPT !.op = "refresh", !.session = s])
        PROVE  InTime(w)'
    <3>1. req' = [req EXCEPT ![w] = Made("refresh", Someone, Unknown, 0, s, 0, 0)]
      BY <2>3, Shapes, Zenon DEF Begin
    <3>2. pc' = [pc EXCEPT ![w] = "get"]
      BY <2>3, Zenon DEF Begin, Goto
    <3> DEFINE r == Made("refresh", Someone, Unknown, 0, s, 0, 0)
    <3>3. r.lag = 0
      BY DEF Made
    <3> HIDE DEF r
    <3>4. pc'[w] = "get" /\ req'[w] = r
      BY <1>0, <3>1, <3>2 DEF r
    <3> QED BY <3>3, <3>4 DEF InTime
  <2>4. InTime(w)' \/ \E status \in Statuses : Refuse(w, status)
    <3>1. 400 \in Statuses
      BY DEF Statuses
    <3> QED BY <1>5, <2>3, <3>1, Zenon DEF Refresh
  <2> QED BY <1>c, <1>1, <1>2, <2>1, <2>2, <2>4, OthersInTime
<1>6. CASE Get(w)
  <2>1. UNCHANGED <<key, tokens, age>> /\ pc[w] = "get"
    BY <1>6 DEF Get
  <2> DEFINE s == req[w].session
  <2>2. ASSUME s # NoSession, key[s] # NoKey, Goto(w, "issue"),
               req' = [req EXCEPT ![w].user = key[s].user]
        PROVE  InTime(w)'
    <3>1. /\ pc'[w] = "issue" /\ req'[w].session = s /\ req'[w].lag = req[w].lag
      BY <1>0, <2>2 DEF Goto, Requests
    <3>2. s \in Sessions /\ req[w].lag = 0
      BY <1>0, <2>1, <2>2 DEF Requests, InTime
    <3>3. age[s] <= RefreshTTL
      BY <1>0, <2>2, <3>2, Times DEF KeysBounded
    <3> QED BY <1>0, <2>1, <3>1, <3>2, <3>3, Times DEF InTime
  <2>3. InTime(w)'
    BY <1>3, <1>6, <2>2 DEF Get
  <2> QED BY <1>c, <1>1, <1>2, <2>1, <2>3, OthersInTime
<1>7. CASE Issue(w)
  <2>1. UNCHANGED <<key, age>> /\ pc[w] = "issue"
    BY <1>7 DEF Issue
  <2>2. CASE Goto(w, "store") /\ UNCHANGED tokens
    <3>1. pc'[w] = "store"
      BY <1>0, <2>2 DEF Goto
    <3> QED BY <1>c, <1>1, <1>2, <2>1, <2>2, <3>1, OthersInTime DEF InTime
  <2>3. ASSUME req[w].op = "refresh", Answer(w, 200),
               tokens' = tokens \cup {[user |-> req[w].user, session |-> req[w].session,
                                       left |-> AccessTTL]}
        PROVE  TokensBounded' /\ InTime(w)'
    <3> DEFINE t == [user |-> req[w].user, session |-> req[w].session, left |-> AccessTTL]
    <3>1. age[req[w].session] <= RefreshTTL + req[w].lag /\ req[w].session \in Sessions
      BY <1>0, <2>1, <2>3, Times DEF InTime
    <3>2. age[t.session] + t.left <= Lifetime
      BY <1>0, <3>1, Times
    <3>3. tokens' = tokens \cup {t}
      BY <2>3
    <3> HIDE DEF t
    <3>4. TokensBounded'
      BY <1>0, <2>1, <3>2, <3>3 DEF TokensBounded
    <3> QED BY <1>3, <2>3, <3>4
  <2> QED BY <1>c, <1>1, <1>7, <2>1, <2>2, <2>3, OthersInTime DEF Issue
<1>8. CASE Call(w)
  <2>1. UNCHANGED <<key, tokens, age>>
    BY <1>8 DEF Call
  <2>2. ASSUME Refuse(w, 401) PROVE InTime(w)'
    <3>1. pc'[w] = "done"
      BY <1>0, <2>2 DEF Refuse, Begin, Goto
    <3> QED BY <3>1 DEF InTime
  <2>3. ASSUME NEW t \in tokens,
               Begin(w, "verify", [Idle EXCEPT !.op = "me", !.user = t.user,
                                     !.session = t.session, !.left = t.left])
        PROVE  InTime(w)'
    <3>1. PICK q : q = [Idle EXCEPT !.op = "me", !.user = t.user,
                                    !.session = t.session, !.left = t.left]
      OBVIOUS
    <3>2. q.session = t.session /\ q.left = t.left
      BY <3>1 DEF Idle
    <3>3. req' = [req EXCEPT ![w] = q] /\ pc' = [pc EXCEPT ![w] = "verify"]
      BY <2>3, <3>1, Zenon DEF Begin, Goto
    <3>4. pc'[w] = "verify" /\ req'[w].session = t.session /\ req'[w].left = t.left
      BY <1>0, <3>2, <3>3
    <3>5. age[t.session] + t.left <= Lifetime
      BY <1>0, <2>3 DEF TokensBounded
    <3> QED BY <2>1, <3>4, <3>5 DEF InTime
  <2>4. InTime(w)'
    BY <1>8, <2>2, <2>3, Zenon DEF Call
  <2> QED BY <1>c, <1>1, <1>2, <2>1, <2>4, OthersInTime
<1>s. ASSUME NEW s \in Sessions, Draws(w, s), SetKey(w, s), age' = age, pc[w] = "store",
             \/ UNCHANGED tokens
             \/ tokens' = tokens \cup {[user |-> req[w].user, session |-> s, left |-> req[w].left]}
      PROVE  KeysBounded' /\ TokensBounded'
  <2> DEFINE t == [user |-> req[w].user, session |-> s, left |-> req[w].left]
             k == [user |-> req[w].user, ttl |-> RefreshTTL]
  <2>1. age[s] = 0
    <3>1. req[w].op = "login" /\ Private(w)
      BY <1>0, <1>s DEF IInv, Sound, Carried
    <3>2. s \notin held
      BY <1>s, <3>1, AccountsAssumption DEF Draws, Fresh, Private
    <3> QED BY <1>0, <3>2 DEF Counted
  <2>2. age[t.session] + t.left <= Lifetime /\ k.ttl = RefreshTTL
    BY <1>0, <2>1, Times
  <2>3. key' = [key EXCEPT ![s] = k] /\ tokens' \subseteq tokens \cup {t}
    BY <1>s DEF SetKey
  <2> HIDE DEF t, k
  <2>4. TokensBounded'
    BY <1>0, <1>s, <2>2, <2>3 DEF TokensBounded
  <2>5. KeysBounded'
    BY <1>0, <1>s, <2>1, <2>2, <2>3, Times DEF KeysBounded
  <2> QED BY <2>4, <2>5
<1>9. CASE Store(w)
  <2>1. age' = age /\ InTime(w)' /\ pc[w] = "store"
    BY <1>3, <1>9 DEF Store
  <2>2. KeysBounded' /\ TokensBounded'
    BY <1>1, <1>2, <1>9, <1>s, <2>1 DEF Store
  <2> QED BY <1>c, <2>1, <2>2, OthersInTime
<1>10. CASE SetLost(w)
  <2>1. age' = age /\ pc' = pc /\ pc[w] = "store" /\ UNCHANGED tokens
    BY <1>10 DEF SetLost
  <2>2. KeysBounded' /\ TokensBounded'
    BY <1>10, <1>s, <2>1 DEF SetLost
  <2>3. InTime(w)'
    BY <2>1 DEF InTime
  <2> QED BY <1>c, <2>1, <2>2, <2>3, OthersInTime
<1> QED BY <1>4, <1>5, <1>6, <1>7, <1>8, <1>9, <1>10 DEF Works

\* Time takes from what is left what it adds to the age.
LEMMA TickInTime ==
  ASSUME SessionInv, Tick
  PROVE  (KeysBounded /\ TokensBounded /\ Counted)' /\ \A v \in Workers : InTime(v)'
<1>0. /\ IInv /\ KeysBounded /\ TokensBounded /\ pc' = pc
      /\ age \in [Sessions -> 0..Lifetime]
  BY DEF SessionInv, IInv, TypeOK, Tick
<1>1. \A s \in Sessions : /\ age'[s] \in {age[s], age[s] + 1}
                          /\ age'[s] \in Nat /\ age'[s] <= Lifetime
  <2>1. \A s \in Sessions :
          age'[s] = IF s \in held /\ age[s] < Lifetime THEN age[s] + 1 ELSE age[s]
    BY DEF Tick
  <2> QED BY <1>0, <2>1, Times
<1>c. Counted'
  BY DEF SessionInv, Counted, Tick
<1>2. KeysBounded'
  <2> SUFFICES ASSUME NEW s \in Sessions, key'[s] # NoKey
               PROVE  age'[s] + key'[s].ttl <= RefreshTTL
    BY DEF KeysBounded
  <2>1. key'[s] = [key[s] EXCEPT !.ttl = @ - 1] /\ key[s].ttl > 1
    BY DEF Tick
  <2>2. key[s] # NoKey
    BY <2>1 DEF NoKey
  <2>3. key[s] \in [user : Ids, ttl : 1..RefreshTTL]
    BY <1>0, <2>2 DEF IInv, TypeOK
  <2>4. key'[s].ttl = key[s].ttl - 1
    BY <2>1, <2>3
  <2>5. age[s] + key[s].ttl <= RefreshTTL
    BY <1>0, <2>2 DEF KeysBounded
  <2> QED BY <1>0, <1>1, <2>2, <2>4, <2>5, Times
<1>3. TokensBounded'
  <2> SUFFICES ASSUME NEW t \in tokens' PROVE age'[t.session] + t.left <= Lifetime
    BY DEF TokensBounded
  <2>1. PICK u \in tokens : u.left > 1 /\ t = [u EXCEPT !.left = @ - 1]
    BY DEF Tick
  <2>2. u \in [user : Ids, session : Sessions, left : 0..AccessTTL]
    BY <1>0 DEF IInv, TypeOK
  <2>3. t.session = u.session /\ t.left = u.left - 1
    BY <2>1, <2>2
  <2>4. age[u.session] + u.left <= Lifetime
    BY <1>0 DEF TokensBounded
  <2> QED BY <1>0, <1>1, <2>2, <2>3, <2>4, Times
<1>4. ASSUME NEW w \in Workers PROVE InTime(w)'
  <2>1. /\ req'[w].op = req[w].op /\ req'[w].session = req[w].session
        /\ req'[w].left = Drop(req[w].left)
        /\ req'[w].lag = IF pc[w] = "issue" THEN req[w].lag + 1 ELSE req[w].lag
    <3> DEFINE q == [req[w] EXCEPT !.left = Drop(@)]
               lag == IF pc[w] = "issue" THEN req[w].lag + 1 ELSE req[w].lag
               r == [q EXCEPT !.lag = lag]
    <3>1. req[w] \in Requests
      BY <1>0, Times
    <3>2. /\ q.op = req[w].op /\ q.session = req[w].session /\ q.left = Drop(req[w].left)
          /\ q.lag = req[w].lag /\ DOMAIN q = DOMAIN req[w]
      BY <3>1 DEF Requests
    <3>3. req'[w] = [req[w] EXCEPT !.left = Drop(@), !.lag = IF pc[w] = "issue" THEN @ + 1 ELSE @]
      BY DEF Tick
    <3>4. req'[w] = r
      BY <3>3, Zenon
    <3>5. "lag" \in DOMAIN q /\ "left" \in DOMAIN q /\ "op" \in DOMAIN q /\ "session" \in DOMAIN q
      BY <3>1, <3>2 DEF Requests
    <3> HIDE DEF q, lag
    <3>6. r.op = q.op /\ r.session = q.session /\ r.left = q.left /\ r.lag = lag
      BY <3>5
    <3> HIDE DEF r
    <3> QED BY <3>2, <3>4, <3>6 DEF lag
  <2>2. InTime(w)
    BY DEF SessionInv
  <2>3. CASE pc[w] = "get"
    BY <1>0, <2>1, <2>2, <2>3 DEF InTime
  <2>4. CASE pc[w] = "issue" /\ req[w].op = "refresh"
    <3>1. req[w].session \in Sessions /\ req[w].lag \in 0..MaxLag
      BY <1>0, <2>4, Times
    <3>2. age[req[w].session] <= RefreshTTL + req[w].lag
      BY <2>2, <2>4 DEF InTime
    <3>3. age'[req[w].session] <= RefreshTTL + (req[w].lag + 1)
      BY <1>0, <1>1, <3>1, <3>2, Times
    <3> QED BY <1>0, <2>1, <2>4, <3>3 DEF InTime
  <2>5. CASE pc[w] = "verify"
    <3>1. req[w].session \in Sessions /\ req[w].left \in 0..AccessTTL
      BY <1>0, <2>5, Times
    <3>2. age[req[w].session] + req[w].left <= Lifetime
      BY <2>2, <2>5 DEF InTime
    <3>3. age'[req[w].session] + Drop(req[w].left) <= Lifetime
      BY <1>0, <1>1, <3>1, <3>2, Times DEF Drop
    <3> QED BY <1>0, <2>1, <2>5, <3>3 DEF InTime
  <2> QED BY <1>0, <2>1, <2>3, <2>4, <2>5 DEF InTime
<1> QED BY <1>c, <1>2, <1>3, <1>4

\* Redis may lose a key at any time.
LEMMA EvictInTime ==
  ASSUME SessionInv, NEW s \in Sessions, Evict(s)
  PROVE  (KeysBounded /\ TokensBounded /\ Counted)' /\ \A v \in Workers : InTime(v)'
<1>1. /\ UNCHANGED <<held, tokens, age, pc, req>>
      /\ \A q \in Sessions : key'[q] = NoKey \/ key'[q] = key[q]
  BY DEF Evict, SessionInv, IInv, TypeOK
<1> QED BY <1>1 DEF SessionInv, KeysBounded, TokensBounded, Counted, InTime

----------------------------------------------------------------------------
\* The theorem

\* The invariant holds in every reachable state.
THEOREM SessionInvariance == Spec => []SessionInv
<1> DEFINE Rest == KeysBounded /\ TokensBounded /\ Counted /\ \A w \in Workers : InTime(w)
<1>1. Init => Rest
  BY DEF Init, KeysBounded, TokensBounded, Counted, InTime
<1>2. IInv /\ Rest <=> SessionInv
  BY DEF SessionInv
<1>3. SessionInv /\ [Next]_vars => Rest'
  <2> SUFFICES ASSUME SessionInv, [Next]_vars PROVE Rest'
    OBVIOUS
  <2>1. CASE UNCHANGED vars
    BY <2>1 DEF SessionInv, vars, KeysBounded, TokensBounded, Counted, InTime
  <2> QED BY <2>1, WorkInTime, TickInTime, EvictInTime DEF Next, Works
<1> HIDE DEF Rest
<1> QED BY <1>1, <1>2, <1>3, Invariance, PTL DEF Spec

\* One login lets a client in for a bounded time after it has its tokens: nothing extends the
\* refresh key, and what a late refresh hands out is late by its lag only.
THEOREM LoginBounded == Spec => SessionBounded
<1>1. SessionInv /\ [Next]_vars =>
        \A w \in Workers : pc[w] = "verify" /\ pc'[w] = "admitted" => age[req[w].session] < Lifetime
  <2> SUFFICES ASSUME SessionInv, [Next]_vars, NEW w \in Workers,
                      pc[w] = "verify", pc'[w] = "admitted"
               PROVE  age[req[w].session] < Lifetime
    OBVIOUS
  <2>0. IInv /\ TypeOK /\ InTime(w)
    BY DEF SessionInv, IInv
  <2>1. \E v \in Workers : Works(v)
    BY DEF Next, Works, Evict, Tick, vars
  <2>2. Works(w)
    BY <2>0, <2>1, OneAtATime
  <2>3. req[w].left > 0
    <3>1. IsAuthenticated(w)
      BY <2>2 DEF Works, Register, Insert, InsertFails, Login, Find, SetLost, Store, Refresh,
                  Get, Issue, Call, GetByID, Reply, Begin, Refuse
    <3>2. ~Answer(w, 401)
      BY <2>0 DEF Answer, Goto, TypeOK
    <3> QED BY <3>1, <3>2 DEF IsAuthenticated
  <2>4. age[req[w].session] + req[w].left <= Lifetime
    BY <2>0 DEF InTime
  <2> QED BY <2>0, <2>3, <2>4, Times
<1> QED BY <1>1, SessionInvariance, PTL DEF Spec, SessionBounded

=============================================================================
