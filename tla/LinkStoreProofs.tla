--------------------------- MODULE LinkStoreProofs ---------------------------
(***************************************************************************)
(* Proofs about LinkStore, for every value of its constants.               *)
(***************************************************************************)
EXTENDS LinkStore, TLAPS

----------------------------------------------------------------------------
\* Types

DatabaseTypes ==
  /\ rows \subseteq Ids
  /\ link \in [Ids -> Links]
  /\ life \in [Ids -> Floor..MaxLife]
  /\ nextId \in 1..(MaxId + 1)
CacheTypes == cache \in [Codes -> Entries]
RequestTypes ==
  /\ pc \in [Workers -> Steps]
  /\ req \in [Workers -> Requests]

\* Updating one field of a request's variables.
LEMMA FieldTypes ==
  ASSUME NEW r \in Requests
  PROVE  /\ \A x \in Ops : [r EXCEPT !.op = x] \in Requests
         /\ \A x \in Codes \cup {NoCode} : [r EXCEPT !.code = x] \in Requests
         /\ \A x \in Users \cup {NoUser} : [r EXCEPT !.user = x] \in Requests
         /\ \A x \in Ids \cup {0} : [r EXCEPT !.id = x] \in Requests
         /\ \A x \in Ids \cup {0} : [r EXCEPT !.target = x] \in Requests
         /\ \A x \in Nat : [r EXCEPT !.ttl = x] \in Requests
         /\ \A x \in 0..MaxLag : [r EXCEPT !.lag = x] \in Requests
         /\ \A x \in Statuses : [r EXCEPT !.status = x] \in Requests
BY DEF Requests

\* An idle request is well-typed.
LEMMA IdleTypes == Idle \in Requests
BY LinkStoreAssumption DEF Idle, Requests, Ops, Statuses

\* The variables that a request starts with.
LEMMA StartTypes ==
  ASSUME NEW op \in Ops, NEW c \in Codes \cup {NoCode}, NEW u \in Users \cup {NoUser}
  PROVE  [Idle EXCEPT !.op = op, !.code = c, !.user = u] \in Requests
<1>1. [Idle EXCEPT !.op = op] \in Requests
  BY IdleTypes, FieldTypes
<1>2. [[Idle EXCEPT !.op = op] EXCEPT !.code = c] \in Requests
  BY <1>1, FieldTypes
<1>3. [[[Idle EXCEPT !.op = op] EXCEPT !.code = c] EXCEPT !.user = u] \in Requests
  BY <1>2, FieldTypes
<1> QED BY <1>3, Zenon

\* The variables that Answer leaves behind, field after field.
LEMMA ClearedTypes ==
  ASSUME NEW r \in Requests, NEW i \in Ids \cup {0}
  PROVE  [[[r EXCEPT !.id = i] EXCEPT !.ttl = 0] EXCEPT !.lag = 0] \in Requests
<1>1. [r EXCEPT !.id = i] \in Requests
  BY FieldTypes
<1>2. [[r EXCEPT !.id = i] EXCEPT !.ttl = 0] \in Requests
  BY <1>1, FieldTypes
<1>3. 0 \in 0..MaxLag
  BY LinkStoreAssumption
<1> QED BY <1>2, <1>3, FieldTypes

\* Answer keeps the requests well-typed.
LEMMA AnswerTypes ==
  ASSUME RequestTypes, NEW w \in Workers, NEW status \in Statuses, NEW i \in Ids \cup {0},
         Answer(w, status, i)
  PROVE  RequestTypes'
<1>1. req[w] \in Requests
  BY DEF RequestTypes
<1>2. [Idle EXCEPT !.status = status] \in Requests
  BY IdleTypes, FieldTypes
<1>3. [[[req[w] EXCEPT !.id = i] EXCEPT !.ttl = 0] EXCEPT !.lag = 0] \in Requests
  BY <1>1, ClearedTypes
<1>4. [[[[req[w] EXCEPT !.id = i] EXCEPT !.ttl = 0] EXCEPT !.lag = 0] EXCEPT !.status = status]
        \in Requests
  BY <1>3, FieldTypes
<1>5. [req[w] EXCEPT !.id = i, !.ttl = 0, !.lag = 0, !.status = status] \in Requests
  BY <1>4, Zenon
<1>6. req' \in [Workers -> Requests]
  BY <1>2, <1>5 DEF RequestTypes, Answer
<1>7. pc' \in [Workers -> Steps]
  BY DEF RequestTypes, Answer, Goto, Steps
<1> QED BY <1>6, <1>7 DEF RequestTypes

\* So does Found, for the id of a row.
LEMMA FoundTypes ==
  ASSUME RequestTypes, NEW w \in Workers, NEW i \in Ids, Found(w, i)
  PROVE  RequestTypes'
<1>1. CASE req[w].op = "redirect"
  <2>1. [req[w] EXCEPT !.op = "record"] \in Requests
    BY FieldTypes DEF RequestTypes, Ops
  <2>2. [[req[w] EXCEPT !.op = "record"] EXCEPT !.target = i] \in Requests
    BY <2>1, FieldTypes
  <2>3. [[[[[req[w] EXCEPT !.op = "record"] EXCEPT !.target = i]
            EXCEPT !.id = 0] EXCEPT !.ttl = 0] EXCEPT !.lag = 0] \in Requests
    BY <2>2, ClearedTypes
  <2>4. [req[w] EXCEPT !.op = "record", !.target = i, !.id = 0, !.ttl = 0, !.lag = 0]
          \in Requests
    BY <2>3, Zenon
  <2>5. req' \in [Workers -> Requests]
    BY <1>1, <2>4 DEF RequestTypes, Found
  <2>6. pc' \in [Workers -> Steps]
    BY <1>1 DEF RequestTypes, Found, Goto, Steps
  <2> QED BY <2>5, <2>6 DEF RequestTypes
<1>2. CASE req[w].op # "redirect"
  <2>1. FoundStatus(req[w].op, i, req[w].user) \in Statuses
    BY DEF FoundStatus, Statuses
  <2>2. 500 \in Statuses /\ 0 \in Ids \cup {0}
    BY DEF Statuses
  <2> QED BY <1>2, <2>1, <2>2, AnswerTypes DEF Found
<1> QED BY <1>1, <1>2

\* And Missed.
LEMMA MissedTypes ==
  ASSUME RequestTypes, NEW w \in Workers, NEW status \in Statuses, Missed(w, status)
  PROVE  RequestTypes'
<1>1. (IF req[w].op = "record" THEN 302 ELSE status) \in Statuses
  BY DEF Statuses
<1> QED BY <1>1, AnswerTypes DEF Missed

\* A request that holds a positive TTL is well-typed.
LEMMA HoldTypes ==
  ASSUME RequestTypes, DatabaseTypes, NEW w \in Workers, NEW step \in Steps,
         CacheTTL(req[w].id) > 0, req[w].id \in Ids, HoldTTL(w, step)
  PROVE  RequestTypes'
<1>1. MaxLag \in Nat /\ MaxLife \in Nat /\ DayTTL \in Nat /\ 0 \in 0..MaxLag
  BY LinkStoreAssumption
<1>2. CacheTTL(req[w].id) \in Nat
  BY <1>1 DEF CacheTTL, DatabaseTypes, Floor
<1>3. [req[w] EXCEPT !.ttl = CacheTTL(req[w].id)] \in Requests
  BY <1>2, FieldTypes DEF RequestTypes
<1>4. [[req[w] EXCEPT !.ttl = CacheTTL(req[w].id)] EXCEPT !.lag = 0] \in Requests
  BY <1>1, <1>3, FieldTypes
<1>5. [req[w] EXCEPT !.ttl = CacheTTL(req[w].id), !.lag = 0] \in Requests
  BY <1>4, Zenon
<1> QED BY <1>5 DEF RequestTypes, HoldTTL, Goto

\* Commit keeps the table well-typed.
LEMMA CommitTypes ==
  ASSUME DatabaseTypes, NEW i \in Ids, NEW c \in Codes, NEW u \in Users, Commit(i, c, u)
  PROVE  /\ rows' \subseteq Ids
         /\ link' \in [Ids -> Links]
         /\ life' \in [Ids -> Floor..MaxLife]
<1>1. MaxLag \in Nat /\ MaxLife \in Nat
  BY LinkStoreAssumption
<1>2. PICK timed \in BOOLEAN, left \in Lives :
        /\ link' = [link EXCEPT ![i] = [code |-> c, user |-> u, timed |-> timed]]
        /\ life' = [life EXCEPT ![i] = IF timed THEN left ELSE 0]
  BY DEF Commit
<1>3. [code |-> c, user |-> u, timed |-> timed] \in Links
  BY DEF Links
<1>4. (IF timed THEN left ELSE 0) \in Floor..MaxLife
  BY <1>1 DEF Lives, Floor
<1> QED BY <1>2, <1>3, <1>4 DEF DatabaseTypes, Commit

----------------------------------------------------------------------------
\* TypeOK is inductive together with what the steps of a request rely on.

\* At the steps that use them, the id is that of a link, the code and the user are set.
Carried ==
  \A w \in Workers :
    /\ pc[w] \in {"insert", "encode"} => req[w].user \in Users
    /\ pc[w] \in {"encode", "ttl", "publish", "check", "backfill"} => req[w].id \in Ids
    /\ pc[w] \in {"get", "select", "check", "backfill"} => req[w].code \in Codes

TypeInv == DatabaseTypes /\ CacheTypes /\ RequestTypes /\ Carried

\* The types of LinkStore are the parts proved here.
LEMMA TypeParts == TypeInv <=> TypeOK /\ Carried
BY DEF TypeInv, TypeOK, DatabaseTypes, CacheTypes, RequestTypes

\* The initial state is well-typed.
LEMMA TypeInit == Init => TypeInv
<1> SUFFICES ASSUME Init PROVE TypeInv
  OBVIOUS
<1>1. DatabaseTypes
  BY LinkStoreAssumption DEF Init, DatabaseTypes, Links, Blank, Floor, Ids
<1>2. CacheTypes
  BY DEF Init, CacheTypes, Entries, Empty
<1>3. RequestTypes
  BY LinkStoreAssumption DEF Init, RequestTypes, Idle, Requests, Ops, LookupOps, Steps, Statuses
<1>4. Carried
  BY DEF Init, Carried
<1> QED BY <1>1, <1>2, <1>3, <1>4 DEF TypeInv

\* What the answers and the moves of one request do to Carried.
LEMMA AnswerCarried ==
  ASSUME RequestTypes, Carried, NEW w \in Workers, NEW status, NEW i, Answer(w, status, i)
  PROVE  Carried'
BY DEF RequestTypes, Carried, Answer, Goto

LEMMA FoundCarried ==
  ASSUME RequestTypes, Carried, NEW w \in Workers, NEW i,
         req[w].code \in Codes, Found(w, i)
  PROVE  Carried'
<1>1. CASE req[w].op = "redirect"
  <2>1. req[w] \in Requests
    BY DEF RequestTypes
  <2>2. pc'[w] = "get"
    BY <1>1 DEF RequestTypes, Found, Goto
  <2>3. req'[w].code \in Codes
    <3>1. req'[w] = [req[w] EXCEPT !.op = "record", !.target = i, !.id = 0, !.ttl = 0, !.lag = 0]
      BY <1>1 DEF RequestTypes, Found
    <3>2. req'[w].code = req[w].code
      BY <2>1, <3>1 DEF Requests
    <3> QED BY <3>2
  <2>4. \A v \in Workers \ {w} : pc'[v] = pc[v] /\ req'[v] = req[v]
    BY <1>1 DEF RequestTypes, Found, Goto
  <2> QED BY <2>2, <2>3, <2>4 DEF Carried
<1>2. CASE req[w].op # "redirect"
  BY <1>2, AnswerCarried DEF Found
<1> QED BY <1>1, <1>2

LEMMA MissedCarried ==
  ASSUME RequestTypes, Carried, NEW w \in Workers, NEW status, Missed(w, status)
  PROVE  Carried'
BY AnswerCarried DEF Missed

\* Every step of the specification preserves TypeInv.
LEMMA TypeNext == TypeInv /\ [Next]_vars => TypeInv'
<1> SUFFICES ASSUME TypeInv, [Next]_vars PROVE TypeInv'
  OBVIOUS
<1>0. DatabaseTypes /\ CacheTypes /\ RequestTypes /\ Carried
  BY DEF TypeInv
<1>a. MaxLag \in Nat /\ MaxLife \in Nat /\ MaxId \in Nat /\ DayTTL \in Nat
      /\ Encode \in [Ids -> Codes] /\ Lower \in [Codes -> Codes]
  BY LinkStoreAssumption
<1>1. ASSUME NEW w \in Workers, Shorten(w)
      PROVE  TypeInv'
  <2>1. DatabaseTypes' /\ CacheTypes'
    BY <1>0, <1>1 DEF Shorten, DatabaseTypes, CacheTypes, db
  <2>2. PICK alias \in Codes \cup {NoCode}, u \in Users, url \in {"ok", "invalid", "unbound", "scheme"} :
          /\ Goto(w, IF ShortenRefusal(url, Normalise(alias)) = 0 THEN "insert" ELSE "done")
          /\ req' = [req EXCEPT ![w] =
               IF ShortenRefusal(url, Normalise(alias)) = 0
                 THEN [Idle EXCEPT !.op = "shorten", !.code = Normalise(alias), !.user = u]
                 ELSE [Idle EXCEPT !.status = ShortenRefusal(url, Normalise(alias))]]
    BY <1>1, Zenon DEF Shorten
  <2> DEFINE status == ShortenRefusal(url, Normalise(alias))
  <2>3. Normalise(alias) \in Codes \cup {NoCode} /\ status \in Statuses
    BY <1>a DEF Normalise, ShortenRefusal, Statuses
  <2>4. [Idle EXCEPT !.op = "shorten", !.code = Normalise(alias), !.user = u] \in Requests
    BY <2>3, StartTypes DEF Ops
  <2>5. [Idle EXCEPT !.status = status] \in Requests
    BY <2>3, IdleTypes, FieldTypes
  <2>6. [Idle EXCEPT !.op = "shorten", !.code = Normalise(alias), !.user = u].user \in Users
    BY DEF Idle
  <2> HIDE DEF status
  <2>7. RequestTypes'
    BY <1>0, <2>2, <2>4, <2>5 DEF RequestTypes, Steps, Goto, status
  <2>8. Carried'
    BY <1>0, <2>2, <2>6 DEF Carried, RequestTypes, Goto, status
  <2> QED BY <2>1, <2>7, <2>8 DEF TypeInv
<1>2. ASSUME NEW w \in Workers, Lookup(w)
      PROVE  TypeInv'
  <2>1. DatabaseTypes' /\ CacheTypes'
    BY <1>0, <1>2 DEF Lookup, DatabaseTypes, CacheTypes, db
  <2>2. PICK op \in LookupOps, c \in Codes, u \in Users \cup {NoUser} :
          /\ pc' = [pc EXCEPT ![w] = IF op = "stats" THEN "select" ELSE "get"]
          /\ req' = [req EXCEPT ![w] = [Idle EXCEPT !.op = op, !.code = c, !.user = u]]
    BY <1>2 DEF Lookup, Goto
  <2>3. [Idle EXCEPT !.op = op, !.code = c, !.user = u] \in Requests
    BY StartTypes DEF Ops
  <2>4. RequestTypes'
    BY <1>0, <2>2, <2>3 DEF RequestTypes, Steps
  <2>5. [Idle EXCEPT !.op = op, !.code = c, !.user = u].code = c
    BY DEF Idle
  <2>6. Carried'
    BY <1>0, <2>2, <2>5 DEF Carried, RequestTypes
  <2> QED BY <2>1, <2>4, <2>6 DEF TypeInv
<1>3. ASSUME NEW w \in Workers, Delete(w)
      PROVE  TypeInv'
  <2>1. DatabaseTypes' /\ CacheTypes'
    BY <1>0, <1>3 DEF Delete, DatabaseTypes, CacheTypes, db
  <2>2. PICK c \in Codes, u \in Users :
          req' = [req EXCEPT ![w] = [Idle EXCEPT !.op = "delete", !.code = c, !.user = u]]
    BY <1>3 DEF Delete
  <2>3. [Idle EXCEPT !.op = "delete", !.code = c, !.user = u] \in Requests
    BY StartTypes DEF Ops
  <2>4. RequestTypes'
    BY <1>0, <1>3, <2>2, <2>3 DEF RequestTypes, Steps, Delete, Goto
  <2>5. Carried'
    BY <1>0, <1>3, <2>2 DEF Carried, RequestTypes, Delete, Goto
  <2> QED BY <2>1, <2>4, <2>5 DEF TypeInv
<1>4. ASSUME NEW w \in Workers, InsertAlias(w) PROVE TypeInv'
  <2>1. nextId \in Ids /\ nextId' \in 1..(MaxId + 1) /\ req[w].code \in Codes
        /\ req[w].user \in Users /\ CacheTypes'
    BY <1>0, <1>a, <1>4 DEF InsertAlias, DatabaseTypes, CacheTypes, RequestTypes, Carried,
                            Requests, Ids
  <2>2. CASE Commit(nextId, req[w].code, req[w].user) /\ Goto(w, "ttl")
             /\ req' = [req EXCEPT ![w].id = nextId]
    <3>1. DatabaseTypes'
      BY <1>0, <2>1, <2>2, CommitTypes DEF DatabaseTypes
    <3>2. [req[w] EXCEPT !.id = nextId] \in Requests
      BY <1>0, <2>1, FieldTypes DEF RequestTypes
    <3>3. RequestTypes'
      BY <1>0, <2>2, <3>2 DEF RequestTypes, Goto, Steps
    <3>4. Carried'
      BY <1>0, <2>1, <2>2 DEF Carried, Goto, RequestTypes, Requests
    <3> QED BY <2>1, <3>1, <3>3, <3>4 DEF TypeInv
  <2>3. CASE Answer(w, 400, 0) /\ UNCHANGED <<rows, link, life>>
    <3>1. DatabaseTypes'
      BY <1>0, <2>1, <2>3 DEF DatabaseTypes
    <3>2. RequestTypes' /\ Carried'
      BY <1>0, <2>3, AnswerTypes, AnswerCarried DEF Statuses
    <3> QED BY <2>1, <3>1, <3>2 DEF TypeInv
  <2> QED BY <1>4, <2>2, <2>3 DEF InsertAlias
<1>5. ASSUME NEW w \in Workers, InsertAuto(w) PROVE TypeInv'
  <2>1. nextId \in Ids /\ DatabaseTypes' /\ CacheTypes'
    BY <1>0, <1>a, <1>5 DEF InsertAuto, DatabaseTypes, CacheTypes, Ids
  <2>2. [req[w] EXCEPT !.id = nextId] \in Requests
    BY <1>0, <2>1, FieldTypes DEF RequestTypes
  <2>3. RequestTypes'
    BY <1>0, <1>5, <2>2 DEF RequestTypes, InsertAuto, Goto, Steps
  <2>4. Carried'
    BY <1>0, <1>5, <2>1 DEF Carried, InsertAuto, Goto, RequestTypes, Requests
  <2> QED BY <2>1, <2>3, <2>4 DEF TypeInv
<1>6. ASSUME NEW w \in Workers, EncodeId(w) PROVE TypeInv'
  <2>1. req[w].id \in Ids /\ Encode[req[w].id] \in Codes /\ req[w].user \in Users /\ CacheTypes'
    BY <1>0, <1>a, <1>6 DEF EncodeId, Carried, CacheTypes
  <2>2. CASE Commit(req[w].id, Encode[req[w].id], req[w].user) /\ Goto(w, "ttl")
             /\ req' = [req EXCEPT ![w].code = Encode[req[w].id]]
    <3>1. DatabaseTypes'
      BY <1>0, <1>6, <2>1, <2>2, CommitTypes DEF DatabaseTypes, EncodeId
    <3>2. [req[w] EXCEPT !.code = Encode[req[w].id]] \in Requests
      BY <1>0, <2>1, FieldTypes DEF RequestTypes
    <3>3. RequestTypes'
      BY <1>0, <2>2, <3>2 DEF RequestTypes, Goto, Steps
    <3>4. Carried'
      BY <1>0, <2>1, <2>2 DEF Carried, Goto, RequestTypes, Requests
    <3> QED BY <2>1, <3>1, <3>3, <3>4 DEF TypeInv
  <2>3. CASE Answer(w, 500, 0) /\ UNCHANGED <<rows, link, life>>
    <3>1. DatabaseTypes'
      BY <1>0, <1>6, <2>3 DEF DatabaseTypes, EncodeId
    <3>2. RequestTypes' /\ Carried'
      BY <1>0, <2>3, AnswerTypes, AnswerCarried DEF Statuses
    <3> QED BY <2>1, <3>1, <3>2 DEF TypeInv
  <2> QED BY <1>6, <2>2, <2>3 DEF EncodeId
<1>7. ASSUME NEW w \in Workers, CreateFails(w) PROVE TypeInv'
  <2>1. RequestTypes' /\ Carried' /\ CacheTypes'
    BY <1>0, <1>7, AnswerTypes, AnswerCarried DEF CreateFails, CacheTypes, Statuses
  <2>2. pc[w] = "insert" /\ nextId <= MaxId => nextId \in Ids /\ nextId + 1 \in 1..(MaxId + 1)
                                               /\ req[w].user \in Users
    BY <1>0, <1>a DEF DatabaseTypes, Ids, Carried
  <2>3. pc[w] = "encode" => req[w].id \in Ids /\ Encode[req[w].id] \in Codes
                            /\ req[w].user \in Users
    BY <1>0, <1>a DEF Carried
  <2>4. req[w].code # NoCode => req[w].code \in Codes
    BY <1>0 DEF RequestTypes, Requests
  <2>5. DatabaseTypes'
    <3>1. CASE UNCHANGED db
      BY <1>0, <3>1 DEF DatabaseTypes, db
    <3>2. CASE pc[w] = "insert" /\ nextId <= MaxId /\ nextId' = nextId + 1
               /\ UNCHANGED <<rows, link, life>>
      BY <1>0, <2>2, <3>2 DEF DatabaseTypes
    <3>3. CASE pc[w] = "insert" /\ req[w].code # NoCode /\ nextId <= MaxId
               /\ nextId' = nextId + 1 /\ Commit(nextId, req[w].code, req[w].user)
      BY <1>0, <2>2, <2>4, <3>3, CommitTypes DEF DatabaseTypes
    <3>4. CASE pc[w] = "encode" /\ Commit(req[w].id, Encode[req[w].id], req[w].user)
               /\ UNCHANGED nextId
      BY <1>0, <2>3, <3>4, CommitTypes DEF DatabaseTypes
    <3> QED BY <1>7, <3>1, <3>2, <3>3, <3>4 DEF CreateFails
  <2> QED BY <2>1, <2>5 DEF TypeInv
<1>8. ASSUME NEW w \in Workers, SequenceExhausted(w) PROVE TypeInv'
  BY <1>0, <1>8, AnswerTypes, AnswerCarried
  DEF SequenceExhausted, TypeInv, DatabaseTypes, CacheTypes, db, Statuses
<1>9. ASSUME NEW w \in Workers, CreateTTL(w) PROVE TypeInv'
  <2>1. req[w].id \in Ids /\ DatabaseTypes' /\ CacheTypes'
    BY <1>0, <1>9 DEF CreateTTL, Carried, DatabaseTypes, CacheTypes, db
  <2>2. CASE CacheTTL(req[w].id) > 0 /\ HoldTTL(w, "publish")
    <3>1. RequestTypes'
      BY <1>0, <2>1, <2>2, HoldTypes DEF Steps
    <3>2. Carried'
      BY <1>0, <2>1, <2>2 DEF Carried, HoldTTL, Goto, RequestTypes, Requests
    <3> QED BY <2>1, <3>1, <3>2 DEF TypeInv
  <2>3. CASE Answer(w, 201, req[w].id)
    BY <1>0, <2>1, <2>3, AnswerTypes, AnswerCarried DEF TypeInv, Statuses
  <2> QED BY <1>9, <2>2, <2>3 DEF CreateTTL
<1>10. ASSUME NEW w \in Workers, Publish(w) PROVE TypeInv'
  <2>1. req[w].id \in Ids /\ req[w].ttl \in Nat /\ DatabaseTypes'
    BY <1>0, <1>10 DEF Publish, Carried, DatabaseTypes, db, RequestTypes, Requests
  <2>2. [kind |-> "raw", id |-> req[w].id, ttl |-> req[w].ttl] \in Entries
    BY <2>1 DEF Entries
  <2>3. CacheTypes'
    BY <1>0, <1>10, <2>2 DEF CacheTypes, Publish, Set, Stored
  <2>4. RequestTypes' /\ Carried'
    BY <1>0, <1>10, <2>1, AnswerTypes, AnswerCarried DEF Publish, Statuses
  <2> QED BY <2>1, <2>3, <2>4 DEF TypeInv
<1>11. ASSUME NEW w \in Workers, CacheGet(w) PROVE TypeInv'
  <2>1. DatabaseTypes' /\ CacheTypes' /\ req[w].code \in Codes
    BY <1>0, <1>11 DEF CacheGet, DatabaseTypes, CacheTypes, db, Carried
  <2>2. CASE cache[req[w].code].kind = "json" /\ Found(w, cache[req[w].code].id)
    <3>1. cache[req[w].code].id \in Ids
      BY <1>0, <2>1, <2>2 DEF CacheTypes, Entries, Empty
    <3> QED BY <1>0, <2>1, <2>2, <3>1, FoundTypes, FoundCarried DEF TypeInv
  <2>3. CASE Goto(w, "select") /\ UNCHANGED req
    BY <1>0, <2>1, <2>3 DEF TypeInv, RequestTypes, Carried, Goto, Steps
  <2> QED BY <1>11, <2>2, <2>3 DEF CacheGet
<1>12. ASSUME NEW w \in Workers, Select(w) PROVE TypeInv'
  <2>1. DatabaseTypes' /\ CacheTypes' /\ req[w].code \in Codes
    BY <1>0, <1>12 DEF Select, DatabaseTypes, CacheTypes, db, Carried
  <2>2. ASSUME NEW i \in rows, Goto(w, "check"), req' = [req EXCEPT ![w].id = i]
        PROVE  TypeInv'
    <3>1. i \in Ids /\ [req[w] EXCEPT !.id = i] \in Requests
      BY <1>0, <2>2, FieldTypes DEF DatabaseTypes, RequestTypes
    <3>2. RequestTypes'
      BY <1>0, <2>2, <3>1 DEF RequestTypes, Goto, Steps
    <3>3. Carried'
      BY <1>0, <2>1, <2>2, <3>1 DEF Carried, Goto, RequestTypes, Requests
    <3> QED BY <2>1, <3>2, <3>3 DEF TypeInv
  <2>3. CASE Missed(w, 404) \/ Missed(w, 500)
    BY <1>0, <2>1, <2>3, MissedTypes, MissedCarried DEF TypeInv, Statuses
  <2> QED BY <1>12, <2>2, <2>3 DEF Select
<1>13. ASSUME NEW w \in Workers, Check(w) PROVE TypeInv'
  <2>1. DatabaseTypes' /\ CacheTypes' /\ req[w].code \in Codes /\ req[w].id \in Ids
    BY <1>0, <1>13 DEF Check, DatabaseTypes, CacheTypes, db, Carried
  <2>2. CASE Missed(w, ExpiredStatus(req[w].op))
    <3>1. ExpiredStatus(req[w].op) \in Statuses
      BY DEF ExpiredStatus, Statuses
    <3> QED BY <1>0, <2>1, <2>2, <3>1, MissedTypes, MissedCarried DEF TypeInv
  <2>3. CASE CacheTTL(req[w].id) > 0 /\ HoldTTL(w, "backfill")
    <3>1. RequestTypes'
      BY <1>0, <2>1, <2>3, HoldTypes DEF Steps
    <3>2. Carried'
      BY <1>0, <2>1, <2>3 DEF Carried, HoldTTL, Goto, RequestTypes, Requests
    <3> QED BY <2>1, <3>1, <3>2 DEF TypeInv
  <2>4. CASE Found(w, req[w].id)
    BY <1>0, <2>1, <2>4, FoundTypes, FoundCarried DEF TypeInv
  <2> QED BY <1>13, <2>2, <2>3, <2>4 DEF Check
<1>14. ASSUME NEW w \in Workers, Backfill(w) PROVE TypeInv'
  <2>1. /\ req[w].id \in Ids /\ req[w].ttl \in Nat /\ req[w].code \in Codes
        /\ DatabaseTypes'
    BY <1>0, <1>14 DEF Backfill, Carried, DatabaseTypes, db, RequestTypes, Requests
  <2>2. [kind |-> "json", id |-> req[w].id, ttl |-> req[w].ttl] \in Entries
    BY <2>1 DEF Entries
  <2>3. CacheTypes'
    BY <1>0, <1>14, <2>2 DEF CacheTypes, Backfill, Set, Stored
  <2>4. RequestTypes' /\ Carried'
    BY <1>0, <1>14, <2>1, FoundTypes, FoundCarried DEF Backfill
  <2> QED BY <2>1, <2>3, <2>4 DEF TypeInv
<1>15. ASSUME NEW w \in Workers, Invalidate(w) PROVE TypeInv'
  <2>1. DatabaseTypes' /\ CacheTypes'
    BY <1>0, <1>15 DEF Invalidate, DatabaseTypes, CacheTypes, db, Entries
  <2>2. RequestTypes' /\ Carried'
    BY <1>0, <1>15 DEF Invalidate, RequestTypes, Carried, Goto, Steps
  <2> QED BY <2>1, <2>2 DEF TypeInv
<1>16. ASSUME NEW w \in Workers, Remove(w) \/ RemoveFails(w) PROVE TypeInv'
  <2>1. DatabaseTypes' /\ CacheTypes'
    BY <1>0, <1>16 DEF Remove, RemoveFails, DatabaseTypes, CacheTypes
  <2>2. CASE Goto(w, "purge") /\ UNCHANGED req
    BY <1>0, <2>1, <2>2 DEF TypeInv, RequestTypes, Carried, Goto, Steps
  <2>3. CASE Answer(w, 404, 0) \/ Answer(w, 500, 0)
    BY <1>0, <2>1, <2>3, AnswerTypes, AnswerCarried DEF TypeInv, Statuses
  <2> QED BY <1>16, <2>2, <2>3 DEF Remove, RemoveFails
<1>17. ASSUME NEW w \in Workers, Purge(w) PROVE TypeInv'
  <2>1. DatabaseTypes' /\ CacheTypes'
    BY <1>0, <1>17 DEF Purge, DatabaseTypes, CacheTypes, db, Entries
  <2> QED BY <1>0, <1>17, <2>1, AnswerTypes, AnswerCarried DEF Purge, TypeInv, Statuses
<1>18. ASSUME NEW w \in Workers, Reply(w) PROVE TypeInv'
  <2>1. DatabaseTypes' /\ CacheTypes'
    BY <1>0, <1>18 DEF Reply, DatabaseTypes, CacheTypes, db
  <2>2. RequestTypes' /\ Carried'
    BY <1>0, <1>18, IdleTypes DEF Reply, RequestTypes, Carried, Goto, Steps
  <2> QED BY <2>1, <2>2 DEF TypeInv
<1>19. CASE DeleteExpired
  BY <1>0, <1>19 DEF DeleteExpired, TypeInv, DatabaseTypes, CacheTypes, RequestTypes, Carried
<1>20. ASSUME NEW c \in Codes, Evict(c) PROVE TypeInv'
  BY <1>0, <1>20 DEF Evict, TypeInv, DatabaseTypes, CacheTypes, RequestTypes, Carried, db, Entries
<1>21. CASE Tick
  <2>1. DatabaseTypes'
    BY <1>0, <1>a, <1>21 DEF Tick, DatabaseTypes, Floor
  <2>2. \A c \in Codes : Aged(cache[c]) \in Entries
    <3>1. SUFFICES ASSUME NEW c \in Codes PROVE Aged(cache[c]) \in Entries
      OBVIOUS
    <3>2. cache[c] \in Entries
      BY <1>0 DEF CacheTypes
    <3>3. CASE cache[c] = Empty
      BY <3>3 DEF Aged, Empty, Entries
    <3>4. CASE cache[c] # Empty
      BY <3>2, <3>4 DEF Aged, Entries
    <3> QED BY <3>3, <3>4
  <2>3. CacheTypes'
    BY <1>21, <2>2 DEF Tick, CacheTypes
  <2>4. ASSUME NEW w \in Workers PROVE req'[w] \in Requests
    <3>1. CASE pc[w] \in Storing
      <4>1. req[w] \in Requests /\ req[w].lag + 1 \in 0..MaxLag
        BY <1>0, <1>a, <1>21, <3>1 DEF Tick, RequestTypes, Requests
      <4>2. [req[w] EXCEPT !.lag = req[w].lag + 1] \in Requests
        BY <4>1, FieldTypes
      <4> QED BY <1>21, <3>1, <4>2 DEF Tick
    <3>2. CASE pc[w] \notin Storing
      BY <1>0, <1>21, <3>2 DEF Tick, RequestTypes
    <3> QED BY <3>1, <3>2
  <2>5. RequestTypes'
    BY <1>0, <1>21, <2>4 DEF RequestTypes, Tick
  <2>6. \A w \in Workers : req'[w].id = req[w].id /\ req'[w].code = req[w].code
                           /\ req'[w].user = req[w].user
    BY <1>0, <1>21 DEF Tick, RequestTypes, Requests
  <2>7. Carried'
    BY <1>0, <1>21, <2>6 DEF Carried, Tick
  <2> QED BY <2>1, <2>3, <2>5, <2>7 DEF TypeInv
<1>22. CASE UNCHANGED vars
  BY <1>0, <1>22 DEF vars, TypeInv, DatabaseTypes, CacheTypes, RequestTypes, Carried
<1>23. ASSUME NEW w \in Workers, SetLost(w) PROVE TypeInv'
  <2>1. UNCHANGED <<db, pc, req>> /\ pc[w] \in Storing /\ Set(w)
    BY <1>23 DEF SetLost
  <2>2. Stored(w) \in Entries
    <3>1. req[w].id \in Ids /\ req[w].ttl \in Nat
      BY <1>0, <2>1 DEF Carried, RequestTypes, Requests, Storing
    <3> QED BY <3>1 DEF Stored, Entries
  <2>3. CacheTypes'
    BY <1>0, <2>1, <2>2 DEF CacheTypes, Set
  <2> QED BY <1>0, <2>1, <2>3 DEF TypeInv, DatabaseTypes, RequestTypes, Carried, db
<1> QED
  BY <1>1, <1>2, <1>3, <1>4, <1>5, <1>6, <1>7, <1>8, <1>9, <1>10, <1>11, <1>12, <1>13,
     <1>14, <1>15, <1>16, <1>17, <1>18, <1>19, <1>20, <1>21, <1>22, <1>23 DEF Next, Step

\* In every reachable state the table, the cache and the requests have their types, and a
\* request has the id, code and user that its next step uses.
THEOREM TypeInvariant == Spec => []TypeInv
BY TypeInit, TypeNext, PTL DEF Spec

\* TypeOK of LinkStore: no step leaves a table, a key or a request outside its type, though
\* ids are drawn, TTLs subtracted from and requests cleared field by field.
THEOREM TypeCorrect == Spec => []TypeOK
<1>1. TypeInv => TypeOK
  BY TypeParts
<1> QED BY <1>1, TypeInvariant, PTL

----------------------------------------------------------------------------
\* What steps do, and what they leave alone

\* A step of one request leaves the others where they are.
LEMMA OneAtATime ==
  ASSUME TypeInv, NEW w \in Workers, Shorten(w) \/ Lookup(w) \/ Delete(w) \/ Step(w)
  PROVE  \A v \in Workers \ {w} : pc'[v] = pc[v] /\ req'[v] = req[v]
<1> USE DEF Goto
<1>1. pc \in [Workers -> Steps] /\ req \in [Workers -> Requests]
  BY DEF TypeInv, RequestTypes
<1>2. ASSUME NEW status, NEW i, Answer(w, status, i)
      PROVE  \A v \in Workers \ {w} : pc'[v] = pc[v] /\ req'[v] = req[v]
  BY <1>1, <1>2 DEF Answer
<1>3. ASSUME NEW i, Found(w, i)
      PROVE  \A v \in Workers \ {w} : pc'[v] = pc[v] /\ req'[v] = req[v]
  BY <1>1, <1>2, <1>3 DEF Found
<1>4. CASE Shorten(w)
  BY <1>1, <1>4, Zenon DEF Shorten
<1>5. CASE Lookup(w) \/ Delete(w) \/ Reply(w)
  BY <1>1, <1>5 DEF Lookup, Delete, Reply
<1>6. CASE InsertAlias(w) \/ InsertAuto(w) \/ EncodeId(w)
  BY <1>1, <1>2, <1>6 DEF InsertAlias, InsertAuto, EncodeId
<1>7. CASE CreateFails(w) \/ SequenceExhausted(w) \/ Publish(w) \/ Purge(w)
  BY <1>2, <1>7 DEF CreateFails, SequenceExhausted, Publish, Purge
<1>8. CASE CreateTTL(w)
  BY <1>1, <1>2, <1>8 DEF CreateTTL, HoldTTL
<1>9. CASE CacheGet(w) \/ Backfill(w)
  BY <1>1, <1>3, <1>9 DEF CacheGet, Backfill
<1>10. CASE Select(w)
  BY <1>1, <1>2, <1>10 DEF Select, Missed
<1>11. CASE Check(w)
  BY <1>1, <1>2, <1>3, <1>11 DEF Check, Missed, HoldTTL
<1>12. CASE Invalidate(w) \/ Remove(w) \/ RemoveFails(w)
  BY <1>1, <1>2, <1>12 DEF Invalidate, Remove, RemoveFails
<1> QED BY <1>4, <1>5, <1>6, <1>7, <1>8, <1>9, <1>10, <1>11, <1>12 DEF Step

\* What a request has when it has been answered.
LEMMA AnswerEffect ==
  ASSUME RequestTypes, NEW w \in Workers, NEW status, NEW i, Answer(w, status, i)
  PROVE  /\ pc'[w] = "done" /\ req'[w].status = status
         /\ status \in Carrying =>
              /\ req'[w].op = req[w].op /\ req'[w].code = req[w].code
              /\ req'[w].user = req[w].user /\ req'[w].target = req[w].target
              /\ req'[w].id = i
         /\ status \notin Carrying => req'[w].op = "none"
<1>1. req[w] \in Requests /\ pc'[w] = "done"
  BY DEF RequestTypes, Answer, Goto
<1>2. CASE status \in Carrying
  <2>1. req'[w] = [req[w] EXCEPT !.id = i, !.ttl = 0, !.lag = 0, !.status = status]
    BY <1>2 DEF RequestTypes, Answer
  <2> QED BY <1>1, <1>2, <2>1 DEF Requests
<1>3. CASE status \notin Carrying
  <2>1. req'[w] = [Idle EXCEPT !.status = status]
    BY <1>3 DEF RequestTypes, Answer
  <2> QED BY <1>1, <1>3, <2>1 DEF Idle
<1> QED BY <1>2, <1>3

\* What a redirect has when it starts its second lookup.
LEMMA RedirectEffect ==
  ASSUME RequestTypes, NEW w \in Workers, NEW i, Found(w, i), req[w].op = "redirect"
  PROVE  /\ pc'[w] = "get" /\ req'[w].op = "record" /\ req'[w].target = i
         /\ req'[w].code = req[w].code /\ req'[w].user = req[w].user
<1>1. /\ pc'[w] = "get"
      /\ req'[w] = [req[w] EXCEPT !.op = "record", !.target = i, !.id = 0, !.ttl = 0, !.lag = 0]
  BY DEF RequestTypes, Found, Goto
<1>2. req[w] \in Requests
  BY DEF RequestTypes
<1> QED BY <1>1, <1>2 DEF Requests

\* What a request has when it holds a TTL.
LEMMA HoldEffect ==
  ASSUME RequestTypes, NEW w \in Workers, NEW step, HoldTTL(w, step)
  PROVE  /\ pc'[w] = step
         /\ req'[w].op = req[w].op /\ req'[w].code = req[w].code
         /\ req'[w].user = req[w].user /\ req'[w].target = req[w].target
         /\ req'[w].id = req[w].id
         /\ req'[w].ttl = CacheTTL(req[w].id) /\ req'[w].lag = 0
<1>1. /\ pc'[w] = step
      /\ req'[w] = [req[w] EXCEPT !.ttl = CacheTTL(req[w].id), !.lag = 0]
  BY DEF RequestTypes, HoldTTL, Goto
<1>2. req[w] \in Requests
  BY DEF RequestTypes
<1> QED BY <1>1, <1>2 DEF Requests

----------------------------------------------------------------------------
\* Ids

\* An id is committed under once: ids not drawn yet have no link, and an id that a
\* transaction holds has none either and is held by that transaction alone.
Allocation ==
  /\ \A i \in Ids : i >= nextId => ~Committed(i)
  /\ \A w \in Workers : pc[w] = "encode" => req[w].id < nextId /\ ~Committed(req[w].id)
  /\ \A v, w \in Workers : pc[v] = "encode" /\ pc[w] = "encode" /\ v # w =>
       req[v].id # req[w].id

\* Steps that draw no id, commit nothing and end outside a transaction.
LEMMA AllocationKept ==
  ASSUME Allocation, NEW w \in Workers, pc'[w] # "encode", UNCHANGED <<link, nextId>>,
         \A v \in Workers \ {w} : pc'[v] = pc[v] /\ req'[v] = req[v]
  PROVE  Allocation'
BY DEF Allocation, Committed

\* Steps that may commit under the id just drawn, or under the id that w holds.
LEMMA AllocationCommit ==
  ASSUME TypeInv, Allocation, NEW w \in Workers, pc'[w] # "encode",
         \A v \in Workers \ {w} : pc'[v] = pc[v] /\ req'[v] = req[v],
         NEW j,
         \/ nextId' = nextId + 1 /\ j = nextId
         \/ nextId' = nextId /\ pc[w] = "encode" /\ j = req[w].id,
         \A i \in Ids \ {j} : link'[i] = link[i]
  PROVE  Allocation'
<1>1. nextId \in Nat /\ \A v \in Workers : pc[v] = "encode" => req[v].id \in Ids
  BY LinkStoreAssumption DEF TypeInv, DatabaseTypes, Carried
<1>2. j < nextId'
  BY <1>1 DEF Allocation
<1>3. \A i \in Ids : i >= nextId' => ~Committed(i)'
  BY <1>1, <1>2 DEF Allocation, Committed, Ids
<1>4. ASSUME NEW v \in Workers, pc'[v] = "encode"
      PROVE  req'[v].id < nextId' /\ ~Committed(req[v].id)' /\ req'[v] = req[v]
  <2>1. v # w /\ pc[v] = "encode" /\ req'[v] = req[v]
    BY <1>4
  <2>2. req[v].id # j
    BY <1>1, <2>1 DEF Allocation, Ids
  <2> QED BY <1>1, <2>1, <2>2 DEF Allocation, Committed, Ids
<1>5. \A u, v \in Workers : pc'[u] = "encode" /\ pc'[v] = "encode" /\ u # v =>
        req'[u].id # req'[v].id
  BY DEF Allocation
<1> QED BY <1>3, <1>4, <1>5 DEF Allocation, Committed

\* Every step preserves Allocation.
LEMMA AllocationNext == TypeInv /\ Allocation /\ [Next]_vars => Allocation'
<1> SUFFICES ASSUME TypeInv, Allocation, [Next]_vars PROVE Allocation'
  OBVIOUS
<1>0. DatabaseTypes /\ RequestTypes /\ Carried /\ MaxId \in Nat
  BY LinkStoreAssumption DEF TypeInv
<1>1. ASSUME NEW w \in Workers, InsertAlias(w) PROVE Allocation'
  <2>1. nextId \in Ids /\ nextId' = nextId + 1
    BY <1>0, <1>1 DEF InsertAlias, DatabaseTypes, Ids
  <2>2. \A i \in Ids \ {nextId} : link'[i] = link[i]
    BY <1>0, <1>1 DEF InsertAlias, Commit, DatabaseTypes
  <2>3. pc'[w] # "encode"
    BY <1>0, <1>1, AnswerEffect DEF InsertAlias, Goto, RequestTypes
  <2>4. \A v \in Workers \ {w} : pc'[v] = pc[v] /\ req'[v] = req[v]
    BY <1>1, OneAtATime DEF Step
  <2> QED BY <2>1, <2>2, <2>3, <2>4, AllocationCommit
<1>2. ASSUME NEW w \in Workers, InsertAuto(w) PROVE Allocation'
  <2>1. nextId \in Ids /\ nextId' = nextId + 1 /\ link' = link
    BY <1>0, <1>2 DEF InsertAuto, DatabaseTypes, Ids
  <2>2. pc[w] # "encode" /\ req'[w].id = nextId
    BY <1>0, <1>2 DEF InsertAuto, RequestTypes, Requests
  <2>3. \A v \in Workers \ {w} : pc'[v] = pc[v] /\ req'[v] = req[v]
    BY <1>2, OneAtATime DEF Step
  <2> QED BY <1>0, <2>1, <2>2, <2>3 DEF Allocation, Committed, Carried, Ids
<1>3. ASSUME NEW w \in Workers, EncodeId(w) PROVE Allocation'
  <2>1. pc[w] = "encode" /\ req[w].id \in Ids /\ nextId' = nextId
    BY <1>0, <1>3 DEF EncodeId, Carried
  <2>2. \A i \in Ids \ {req[w].id} : link'[i] = link[i]
    BY <1>0, <1>3 DEF EncodeId, Commit, DatabaseTypes
  <2>3. pc'[w] # "encode"
    BY <1>0, <1>3, AnswerEffect DEF EncodeId, Goto, RequestTypes
  <2>4. \A v \in Workers \ {w} : pc'[v] = pc[v] /\ req'[v] = req[v]
    BY <1>3, OneAtATime DEF Step
  <2> QED BY <2>1, <2>2, <2>3, <2>4, AllocationCommit
<1>4. ASSUME NEW w \in Workers, CreateFails(w) PROVE Allocation'
  <2>1. pc'[w] # "encode"
    BY <1>0, <1>4, AnswerEffect DEF CreateFails
  <2>2. \A v \in Workers \ {w} : pc'[v] = pc[v] /\ req'[v] = req[v]
    BY <1>4, OneAtATime DEF Step
  <2>3. CASE UNCHANGED <<link, nextId>>
    BY <2>1, <2>2, <2>3, AllocationKept
  <2>4. CASE nextId' = nextId + 1 /\ \A i \in Ids \ {nextId} : link'[i] = link[i]
    BY <2>1, <2>2, <2>4, AllocationCommit
  <2>5. CASE pc[w] = "encode" /\ nextId' = nextId
             /\ \A i \in Ids \ {req[w].id} : link'[i] = link[i]
    BY <2>1, <2>2, <2>5, AllocationCommit
  <2> QED BY <1>0, <1>4, <2>3, <2>4, <2>5 DEF CreateFails, Commit, DatabaseTypes, db
<1>5. ASSUME NEW w \in Workers,
             Shorten(w) \/ Lookup(w) \/ Delete(w) \/ SequenceExhausted(w) \/ CreateTTL(w)
               \/ Publish(w) \/ CacheGet(w) \/ Select(w) \/ Check(w) \/ Backfill(w)
               \/ Invalidate(w) \/ Remove(w) \/ RemoveFails(w) \/ Purge(w) \/ Reply(w)
      PROVE Allocation'
  <2>1. UNCHANGED <<link, nextId>>
    BY <1>5 DEF Shorten, Lookup, Delete, SequenceExhausted, CreateTTL, Publish, CacheGet,
                Select, Check, Backfill, Invalidate, Remove, RemoveFails, Purge, Reply, db
  <2>2. \A v \in Workers \ {w} : pc'[v] = pc[v] /\ req'[v] = req[v]
    BY <1>5, OneAtATime DEF Step
  <2>3. ASSUME NEW status, NEW i, Answer(w, status, i) PROVE pc'[w] # "encode"
    BY <1>0, <2>3, AnswerEffect
  <2>4. ASSUME NEW i, Found(w, i) PROVE pc'[w] # "encode"
    BY <1>0, <2>3, <2>4, RedirectEffect DEF Found
  <2>5. pc'[w] # "encode"
    <3>1. CASE Shorten(w)
      BY <1>0, <3>1, Zenon DEF Shorten, Goto, RequestTypes
    <3>2. CASE Lookup(w) \/ Delete(w) \/ Reply(w) \/ Invalidate(w)
      BY <1>0, <3>2 DEF Lookup, Delete, Reply, Invalidate, Goto, RequestTypes
    <3>3. CASE SequenceExhausted(w) \/ Publish(w) \/ Purge(w)
      BY <2>3, <3>3 DEF SequenceExhausted, Publish, Purge
    <3>4. CASE CreateTTL(w)
      BY <1>0, <2>3, <3>4 DEF CreateTTL, HoldTTL, Goto, RequestTypes
    <3>5. CASE CacheGet(w) \/ Backfill(w)
      BY <1>0, <2>4, <3>5 DEF CacheGet, Backfill, Goto, RequestTypes
    <3>6. CASE Select(w)
      BY <1>0, <2>3, <3>6 DEF Select, Missed, Goto, RequestTypes
    <3>7. CASE Check(w)
      BY <1>0, <2>3, <2>4, <3>7 DEF Check, Missed, HoldTTL, Goto, RequestTypes
    <3>8. CASE Remove(w) \/ RemoveFails(w)
      BY <1>0, <2>3, <3>8 DEF Remove, RemoveFails, Goto, RequestTypes
    <3> QED BY <1>5, <3>1, <3>2, <3>3, <3>4, <3>5, <3>6, <3>7, <3>8
  <2> QED BY <2>1, <2>2, <2>5, AllocationKept
<1>6. CASE \/ DeleteExpired \/ (\E c \in Codes : Evict(c)) \/ (\E w \in Workers : SetLost(w))
           \/ UNCHANGED vars
  BY <1>6 DEF DeleteExpired, Evict, SetLost, vars, db, Allocation, Committed
<1>7. CASE Tick
  <2>1. \A w \in Workers : req'[w].id = req[w].id
    BY <1>0, <1>7 DEF Tick, RequestTypes, Requests
  <2> QED BY <1>7, <2>1 DEF Tick, Allocation, Committed
<1> QED BY <1>1, <1>2, <1>3, <1>4, <1>5, <1>6, <1>7 DEF Next, Step

\* A committed link never changes: long_url, its code, its owner and its expiry stay.
LEMMA LinksStable ==
  ASSUME TypeInv, Allocation, [Next]_vars, NEW i \in Ids, Committed(i)
  PROVE  link'[i] = link[i] /\ (~Tick => life'[i] = life[i])
<1>0. DatabaseTypes /\ Carried
  BY DEF TypeInv
<1>1. ASSUME NEW j \in Ids, NEW c, NEW u, Commit(j, c, u), ~Committed(j)
      PROVE  link'[i] = link[i] /\ life'[i] = life[i]
  BY <1>0, <1>1 DEF Commit, DatabaseTypes
<1>2. nextId <= MaxId => nextId \in Ids /\ ~Committed(nextId)
  BY <1>0, LinkStoreAssumption DEF Allocation, DatabaseTypes, Ids
<1>3. \A w \in Workers : pc[w] = "encode" => req[w].id \in Ids /\ ~Committed(req[w].id)
  BY <1>0 DEF Allocation, Carried
<1>4. CASE \E w \in Workers : InsertAlias(w) \/ EncodeId(w) \/ CreateFails(w)
  <2>1. PICK w \in Workers : InsertAlias(w) \/ EncodeId(w) \/ CreateFails(w)
    BY <1>4
  <2>2. CASE InsertAlias(w)
    BY <1>1, <1>2, <2>2 DEF InsertAlias
  <2>3. CASE EncodeId(w)
    BY <1>1, <1>3, <2>3 DEF EncodeId
  <2>4. CASE CreateFails(w)
    BY <1>1, <1>2, <1>3, <2>4 DEF CreateFails, db
  <2> QED BY <2>1, <2>2, <2>3, <2>4
<1>5. ASSUME NEW w \in Workers,
             Shorten(w) \/ Lookup(w) \/ Delete(w) \/ InsertAuto(w) \/ SequenceExhausted(w)
               \/ CreateTTL(w) \/ Publish(w) \/ CacheGet(w) \/ Select(w) \/ Check(w)
               \/ Backfill(w) \/ Invalidate(w) \/ Remove(w) \/ RemoveFails(w) \/ Purge(w)
               \/ Reply(w)
      PROVE  link' = link /\ life' = life
  BY <1>5 DEF Shorten, Lookup, Delete, InsertAuto, SequenceExhausted, CreateTTL, Publish,
              CacheGet, Select, Check, Backfill, Invalidate, Remove, RemoveFails, Purge,
              Reply, db
<1>6. CASE \/ DeleteExpired \/ (\E c \in Codes : Evict(c)) \/ (\E w \in Workers : SetLost(w))
           \/ UNCHANGED vars
  BY <1>6 DEF DeleteExpired, Evict, SetLost, vars, db
<1>7. CASE Tick
  BY <1>7 DEF Tick
<1> QED BY <1>4, <1>5, <1>6, <1>7 DEF Next, Step

----------------------------------------------------------------------------
\* Unique codes

LEMMA CommitUnique ==
  ASSUME DatabaseTypes, UniqueLiveCode, NEW i \in Ids, NEW c, NEW u, Commit(i, c, u)
  PROVE  UniqueLiveCode'
<1>1. PICK timed \in BOOLEAN :
        link' = [link EXCEPT ![i] = [code |-> c, user |-> u, timed |-> timed]]
  BY DEF Commit
<1>2. link'[i].code = c /\ \A j \in Ids \ {i} : link'[j] = link[j]
  BY <1>1 DEF DatabaseTypes
<1>3. \A j \in rows : link[j].code # c
  BY DEF Commit, Taken
<1>4. rows' = rows \cup {i}
  BY DEF Commit
<1> QED BY <1>2, <1>3, <1>4 DEF UniqueLiveCode, DatabaseTypes

\* Only a commit adds a row, and it checks the index in the same step.
LEMMA UniqueNext == TypeInv /\ UniqueLiveCode /\ [Next]_vars => UniqueLiveCode'
<1> SUFFICES ASSUME TypeInv, UniqueLiveCode, [Next]_vars PROVE UniqueLiveCode'
  OBVIOUS
<1>0. DatabaseTypes /\ Carried
  BY DEF TypeInv
<1>1. nextId <= MaxId => nextId \in Ids
  BY <1>0, LinkStoreAssumption DEF DatabaseTypes, Ids
<1>2. ASSUME rows' \subseteq rows, link' = link PROVE UniqueLiveCode'
  BY <1>2 DEF UniqueLiveCode
<1>3. ASSUME NEW w \in Workers, InsertAlias(w) PROVE UniqueLiveCode'
  BY <1>0, <1>1, <1>2, <1>3, CommitUnique DEF InsertAlias
<1>4. ASSUME NEW w \in Workers, EncodeId(w) PROVE UniqueLiveCode'
  BY <1>0, <1>2, <1>4, CommitUnique DEF EncodeId, Carried
<1>5. ASSUME NEW w \in Workers, CreateFails(w) PROVE UniqueLiveCode'
  BY <1>0, <1>1, <1>2, <1>5, CommitUnique DEF CreateFails, Carried, db
<1>6. ASSUME NEW w \in Workers, Remove(w) \/ RemoveFails(w) PROVE UniqueLiveCode'
  BY <1>2, <1>6 DEF Remove, RemoveFails
<1>7. ASSUME NEW w \in Workers,
             Shorten(w) \/ Lookup(w) \/ Delete(w) \/ InsertAuto(w) \/ SequenceExhausted(w)
               \/ CreateTTL(w) \/ Publish(w) \/ CacheGet(w) \/ Select(w) \/ Check(w)
               \/ Backfill(w) \/ Invalidate(w) \/ Purge(w) \/ Reply(w)
      PROVE  UniqueLiveCode'
  BY <1>2, <1>7 DEF Shorten, Lookup, Delete, InsertAuto, SequenceExhausted, CreateTTL,
     Publish, CacheGet, Select, Check, Backfill, Invalidate, Purge, Reply, db
<1>8. CASE \/ DeleteExpired \/ (\E c \in Codes : Evict(c)) \/ (\E w \in Workers : SetLost(w))
           \/ Tick \/ UNCHANGED vars
  BY <1>2, <1>8 DEF DeleteExpired, Evict, SetLost, Tick, vars, db
<1> QED BY <1>3, <1>4, <1>5, <1>6, <1>7, <1>8 DEF Next, Step

\* No two rows of the urls table ever share a short code.
THEOREM CodesUnique == Spec => []UniqueLiveCode
<1>1. Init => UniqueLiveCode
  BY DEF Init, UniqueLiveCode
<1> QED BY <1>1, UniqueNext, TypeInvariant, PTL DEF Spec

----------------------------------------------------------------------------
\* Codes: what is cached, carried and answered is a link of the code asked for.

\* A link with code c has been committed under i.
Names(i, c) == i \in Ids /\ Committed(i) /\ link[i].code = c

\* What each step of a request has established about the link it carries.
Established(w) ==
  /\ pc[w] \in {"insert", "encode", "ttl", "publish"} => req[w].op = "shorten"
  /\ pc[w] \in {"get", "select", "check", "backfill"} => req[w].op \in LookupOps \cup {"record"}
  /\ pc[w] \in {"get", "backfill"} => req[w].op # "stats"
  /\ pc[w] \in {"ttl", "publish", "check", "backfill"} => Names(req[w].id, req[w].code)
  /\ pc[w] \in {"ttl", "publish"} => link[req[w].id].user = req[w].user
  /\ pc[w] = "check" /\ req[w].op = "stats" => link[req[w].id].user = req[w].user
  /\ req[w].op = "record" => Names(req[w].target, req[w].code)
  /\ pc[w] = "done" /\ req[w].status \in Carrying /\ req[w].op # "record" =>
       /\ Names(req[w].id, req[w].code)
       /\ req[w].op \in {"clicks", "stats", "shorten"} => link[req[w].id].user = req[w].user

CachedNames == \A c \in Codes : cache[c] # Empty => Names(cache[c].id, c)
RowsCommitted == \A i \in rows : Committed(i)

CodeInv ==
  /\ RowsCommitted
  /\ CachedNames
  /\ \A w \in Workers : Established(w)

\* Nothing is cached, carried or answered at first.
LEMMA CodeInit == Init => CodeInv
BY DEF Init, CodeInv, RowsCommitted, CachedNames, Established, Idle

\* The invariant means what LinkStore's properties say.
LEMMA CodeMeans == TypeInv /\ CodeInv => CacheHoldsOwnCode /\ AnswersGenuine
<1> SUFFICES ASSUME TypeInv, CodeInv PROVE CacheHoldsOwnCode /\ AnswersGenuine
  OBVIOUS
<1>1. CacheHoldsOwnCode
  BY DEF CodeInv, CachedNames, Names, CacheHoldsOwnCode
<1>2. 0 \notin Ids
  BY LinkStoreAssumption DEF Ids
<1>3. AnswersGenuine
  BY <1>2 DEF CodeInv, Established, Names, AnswersGenuine
<1> QED BY <1>1, <1>3

\* A request answered with what it has established.
LEMMA AnswerEstablished ==
  ASSUME RequestTypes, NEW w \in Workers, NEW status, NEW i, Answer(w, status, i),
         status \in Carrying /\ req[w].op # "record" =>
           /\ Names(i, req[w].code)'
           /\ req[w].op \in {"clicks", "stats", "shorten"} => link'[i].user = req[w].user,
         status \in Carrying /\ req[w].op = "record" => Names(req[w].target, req[w].code)'
  PROVE  Established(w)'
<1>1. CASE status \in Carrying
  BY <1>1, AnswerEffect DEF Established, Names, Committed
<1>2. CASE status \notin Carrying
  BY <1>2, AnswerEffect DEF Established
<1> QED BY <1>1, <1>2

\* A lookup that ends with the row of i.
LEMMA FoundEstablished ==
  ASSUME RequestTypes, NEW w \in Workers, NEW i, Found(w, i), Established(w), link' = link,
         Names(i, req[w].code), req[w].op \in LookupOps \cup {"record"},
         req[w].op = "stats" => link[i].user = req[w].user
  PROVE  Established(w)'
<1>1. CASE req[w].op = "redirect"
  <2>1. /\ pc'[w] = "get" /\ req'[w].op = "record" /\ req'[w].target = i
        /\ req'[w].code = req[w].code
    BY <1>1, RedirectEffect
  <2> QED BY <2>1 DEF Established, Names, Committed, LookupOps
<1>2. CASE req[w].op # "redirect"
  <2>0. CASE Answer(w, 500, 0)
    <3>1. pc'[w] = "done" /\ req'[w].op = "none" /\ req'[w].status = 500
      BY <2>0, AnswerEffect DEF Carrying
    <3> QED BY <3>1 DEF Established, Carrying
  <2> SUFFICES ASSUME Answer(w, FoundStatus(req[w].op, i, req[w].user), i)
               PROVE  Established(w)'
    BY <1>2, <2>0 DEF Found
  <2>1. Answer(w, FoundStatus(req[w].op, i, req[w].user), i)
    OBVIOUS
  <2>2. CASE req[w].op = "record"
    <3>1. Answer(w, 302, i)
      BY <2>1, <2>2 DEF FoundStatus
    <3>2. pc'[w] = "done" /\ req'[w].op = "record" /\ req'[w].target = req[w].target
          /\ req'[w].code = req[w].code
      BY <2>2, <3>1, AnswerEffect DEF Carrying
    <3> QED BY <2>2, <3>2 DEF Established, Names, Committed
  <2>3. CASE req[w].op = "clicks" /\ link[i].user # req[w].user
    <3>1. Answer(w, 404, i)
      BY <2>1, <2>3 DEF FoundStatus
    <3>2. pc'[w] = "done" /\ req'[w].op = "none" /\ req'[w].status = 404
      BY <3>1, AnswerEffect DEF Carrying
    <3> QED BY <3>2 DEF Established, Carrying
  <2>4. CASE req[w].op # "record" /\ (req[w].op = "clicks" => link[i].user = req[w].user)
    <3>1. Answer(w, 200, i)
      BY <2>1, <2>4 DEF FoundStatus
    <3>2. /\ pc'[w] = "done" /\ req'[w].op = req[w].op /\ req'[w].id = i
          /\ req'[w].code = req[w].code /\ req'[w].user = req[w].user
      BY <3>1, AnswerEffect DEF Carrying
    <3> QED BY <2>4, <3>2 DEF Established, Names, Committed, LookupOps
  <2> QED BY <2>2, <2>3, <2>4
<1> QED BY <1>1, <1>2

\* A lookup that ends without one.
LEMMA MissedEstablished ==
  ASSUME RequestTypes, NEW w \in Workers, NEW status, status \notin Carrying,
         Missed(w, status), Established(w), link' = link
  PROVE  Established(w)'
<1>1. CASE req[w].op = "record"
  <2>1. Answer(w, 302, 0)
    BY <1>1 DEF Missed
  <2>2. pc'[w] = "done" /\ req'[w].op = "record" /\ req'[w].target = req[w].target
        /\ req'[w].code = req[w].code
    BY <1>1, <2>1, AnswerEffect DEF Carrying
  <2> QED BY <1>1, <2>2 DEF Established, Names, Committed
<1>2. CASE req[w].op # "record"
  BY <1>2, AnswerEffect DEF Missed, Established
<1> QED BY <1>1, <1>2

\* What Names says stays true.
LEMMA NamesStable ==
  ASSUME TypeInv, Allocation, [Next]_vars
  PROVE  \A i, c : Names(i, c) => link'[i] = link[i] /\ i \in Ids /\ link'[i] # Blank
BY LinksStable DEF Names, Committed

\* Requests that do not move keep what they have established.
LEMMA EstablishedKept ==
  ASSUME TypeInv, Allocation, CodeInv, [Next]_vars,
         NEW v \in Workers, pc'[v] = pc[v],
         /\ req'[v].op = req[v].op /\ req'[v].code = req[v].code
         /\ req'[v].user = req[v].user /\ req'[v].id = req[v].id
         /\ req'[v].target = req[v].target /\ req'[v].status = req[v].status
  PROVE  Established(v)'
<1>1. Established(v)
  BY DEF CodeInv
<1>2. \A i, c : Names(i, c) => link'[i] = link[i] /\ i \in Ids /\ link'[i] # Blank
  BY NamesStable
<1>3. /\ pc[v] \in {"ttl", "publish", "check", "backfill"} =>
           link'[req[v].id] = link[req[v].id] /\ link'[req[v].id] # Blank
      /\ req[v].op = "record" =>
           link'[req[v].target] = link[req[v].target] /\ link'[req[v].target] # Blank
      /\ pc[v] = "done" /\ req[v].status \in Carrying /\ req[v].op # "record" =>
           link'[req[v].id] = link[req[v].id] /\ link'[req[v].id] # Blank
  BY <1>1, <1>2 DEF Established
<1> QED BY <1>1, <1>3 DEF Established, Names, Committed

\* Cache entries that are not touched stay right.
LEMMA CachedKept ==
  ASSUME TypeInv, Allocation, CodeInv, [Next]_vars,
         \A c \in Codes : cache'[c] # Empty => cache[c] # Empty /\ cache'[c].id = cache[c].id
  PROVE  CachedNames'
<1>1. \A i, c : Names(i, c) => link'[i] = link[i] /\ i \in Ids /\ link'[i] # Blank
  BY NamesStable
<1> QED BY <1>1 DEF CodeInv, CachedNames, Names, Committed

\* Commit adds a row that has a link.
LEMMA CommitNames ==
  ASSUME DatabaseTypes, RowsCommitted, NEW i \in Ids, NEW c \in Codes, NEW u, Commit(i, c, u)
  PROVE  /\ RowsCommitted'
         /\ i \in Ids /\ link'[i] # Blank /\ link'[i].code = c /\ link'[i].user = u
<1>1. PICK timed \in BOOLEAN :
        link' = [link EXCEPT ![i] = [code |-> c, user |-> u, timed |-> timed]]
  BY DEF Commit
<1>2. link'[i] = [code |-> c, user |-> u, timed |-> timed]
  BY <1>1 DEF DatabaseTypes
<1>3. link'[i] # Blank
  BY <1>2, LinkStoreAssumption DEF Blank
<1>4. rows' = rows \cup {i} /\ \A j \in Ids \ {i} : link'[j] = link[j]
  BY <1>1 DEF Commit, DatabaseTypes
<1>5. RowsCommitted'
  BY <1>3, <1>4 DEF RowsCommitted, Committed, DatabaseTypes
<1> QED BY <1>2, <1>3, <1>5

\* Every step preserves CodeInv, one action after the other.
LEMMA CodeNext == TypeInv /\ Allocation /\ CodeInv /\ [Next]_vars => CodeInv'
<1> SUFFICES ASSUME TypeInv, Allocation, CodeInv, [Next]_vars PROVE CodeInv'
  OBVIOUS
<1>0. /\ DatabaseTypes /\ CacheTypes /\ RequestTypes /\ Carried
      /\ RowsCommitted /\ CachedNames /\ \A w \in Workers : Established(w)
  BY DEF TypeInv, CodeInv
<1>a. nextId <= MaxId => nextId \in Ids
  BY <1>0, LinkStoreAssumption DEF DatabaseTypes, Ids
\* The two parts that most steps leave alone.
<1>b. ASSUME rows' \subseteq rows, link' = link PROVE RowsCommitted'
  BY <1>0, <1>b DEF RowsCommitted, Committed
<1>c. ASSUME cache' = cache PROVE CachedNames'
  BY <1>c, CachedKept
\* In a step of w the others keep what they have established.
<1>d. ASSUME NEW w \in Workers, Shorten(w) \/ Lookup(w) \/ Delete(w) \/ Step(w),
             RowsCommitted', CachedNames', Established(w)'
      PROVE  CodeInv'
  <2>1. \A v \in Workers \ {w} : pc'[v] = pc[v] /\ req'[v] = req[v]
    BY <1>d, OneAtATime
  <2>2. \A v \in Workers \ {w} : Established(v)'
    BY <2>1, EstablishedKept
  <2> QED BY <1>d, <2>2 DEF CodeInv
\* What a request stores under its code is a link of that code.
<1>e. ASSUME NEW w \in Workers, Names(req[w].id, req[w].code), link' = link, Set(w)
      PROVE  CachedNames'
  <2>1. \A c \in Codes : cache'[c] = IF c = req[w].code THEN Stored(w) ELSE cache[c]
    BY <1>0, <1>e DEF Set, CacheKey, CacheTypes
  <2>2. Stored(w).id = req[w].id
    BY DEF Stored
  <2> QED BY <1>e, <2>1, <2>2 DEF CodeInv, CachedNames, Names, Committed
<1>1. ASSUME NEW w \in Workers, Shorten(w) PROVE CodeInv'
  <2>1. /\ pc'[w] \in {"insert", "done"}
        /\ \/ req'[w].op = "shorten" /\ req'[w].status = 0
           \/ req'[w].op = "none" /\ pc'[w] = "done" /\ req'[w].status \notin Carrying
    <3>1. PICK alias \in Codes \cup {NoCode}, u \in Users,
               url \in {"ok", "invalid", "unbound", "scheme"} :
            /\ Goto(w, IF ShortenRefusal(url, Normalise(alias)) = 0 THEN "insert" ELSE "done")
            /\ req' = [req EXCEPT ![w] =
                 IF ShortenRefusal(url, Normalise(alias)) = 0
                   THEN [Idle EXCEPT !.op = "shorten", !.code = Normalise(alias), !.user = u]
                   ELSE [Idle EXCEPT !.status = ShortenRefusal(url, Normalise(alias))]]
      BY <1>1, Zenon DEF Shorten
    <3> DEFINE status == ShortenRefusal(url, Normalise(alias))
    <3>2. status \in {0, 400, 500}
      BY DEF ShortenRefusal
    <3> HIDE DEF status
    <3>3. CASE status = 0
      <4>1. req'[w] = [Idle EXCEPT !.op = "shorten", !.code = Normalise(alias), !.user = u]
        BY <1>0, <3>1, <3>3 DEF RequestTypes, status
      <4> QED BY <1>0, <3>1, <3>3, <4>1 DEF RequestTypes, Goto, Idle, status
    <3>4. CASE status # 0
      <4>1. req'[w] = [Idle EXCEPT !.status = status]
        BY <1>0, <3>1, <3>4 DEF RequestTypes, status
      <4> QED BY <1>0, <3>1, <3>2, <3>4, <4>1 DEF RequestTypes, Goto, Idle, status, Carrying
    <3> QED BY <3>3, <3>4
  <2>2. Established(w)'
    BY <2>1 DEF Established, Carrying
  <2> QED BY <1>1, <1>b, <1>c, <1>d, <2>2 DEF Shorten, db
<1>2. ASSUME NEW w \in Workers, Lookup(w) PROVE CodeInv'
  <2>1. PICK op \in LookupOps :
          pc'[w] = (IF op = "stats" THEN "select" ELSE "get") /\ req'[w].op = op
    BY <1>0, <1>2 DEF Lookup, Goto, RequestTypes, Idle
  <2>2. Established(w)'
    BY <2>1 DEF Established, LookupOps
  <2> QED BY <1>2, <1>b, <1>c, <1>d, <2>2 DEF Lookup, db
<1>3. ASSUME NEW w \in Workers, Delete(w) PROVE CodeInv'
  <2>1. pc'[w] = "invalidate" /\ req'[w].op = "delete"
    BY <1>0, <1>3 DEF Delete, Goto, RequestTypes, Idle
  <2> QED BY <1>3, <1>b, <1>c, <1>d, <2>1 DEF Delete, db, Established
<1>4. ASSUME NEW w \in Workers, InsertAlias(w) PROVE CodeInv'
  <2>1. CachedNames' /\ nextId \in Ids /\ req[w].code \in Codes /\ req[w].op = "shorten"
    BY <1>0, <1>a, <1>c, <1>4 DEF InsertAlias, RequestTypes, Requests, Established
  <2>2. CASE Commit(nextId, req[w].code, req[w].user) /\ Goto(w, "ttl")
             /\ req' = [req EXCEPT ![w].id = nextId]
    <3>1. RowsCommitted' /\ link'[nextId] # Blank /\ link'[nextId].code = req[w].code
          /\ link'[nextId].user = req[w].user
      BY <1>0, <2>1, <2>2, CommitNames
    <3>2. /\ pc'[w] = "ttl" /\ req'[w].id = nextId /\ req'[w].op = "shorten"
          /\ req'[w].code = req[w].code /\ req'[w].user = req[w].user
      BY <1>0, <2>1, <2>2 DEF RequestTypes, Requests, Goto
    <3>3. Established(w)'
      BY <2>1, <3>1, <3>2 DEF Established, Names, Committed
    <3> QED BY <1>4, <1>d, <2>1, <3>1, <3>3 DEF Step
  <2>3. CASE Answer(w, 400, 0) /\ UNCHANGED <<rows, link, life>>
    <3>1. RowsCommitted'
      BY <1>b, <2>3
    <3>2. Established(w)'
      BY <1>0, <2>3, AnswerEstablished DEF Carrying
    <3> QED BY <1>4, <1>d, <2>1, <3>1, <3>2 DEF Step
  <2> QED BY <1>4, <2>2, <2>3 DEF InsertAlias
<1>5. ASSUME NEW w \in Workers, InsertAuto(w) PROVE CodeInv'
  <2>1. pc'[w] = "encode" /\ req'[w].op = "shorten"
    BY <1>0, <1>5 DEF InsertAuto, Goto, RequestTypes, Requests, Established
  <2>2. Established(w)'
    BY <2>1 DEF Established
  <2> QED BY <1>5, <1>b, <1>c, <1>d, <2>2 DEF InsertAuto, Step
<1>6. ASSUME NEW w \in Workers, EncodeId(w) PROVE CodeInv'
  <2>1. CachedNames' /\ req[w].id \in Ids /\ Encode[req[w].id] \in Codes
        /\ req[w].op = "shorten"
    BY <1>0, <1>c, <1>6, LinkStoreAssumption DEF EncodeId, Carried, Established
  <2>2. CASE Commit(req[w].id, Encode[req[w].id], req[w].user) /\ Goto(w, "ttl")
             /\ req' = [req EXCEPT ![w].code = Encode[req[w].id]]
    <3>1. RowsCommitted' /\ link'[req[w].id] # Blank
          /\ link'[req[w].id].code = Encode[req[w].id] /\ link'[req[w].id].user = req[w].user
      BY <1>0, <2>1, <2>2, CommitNames
    <3>2. /\ pc'[w] = "ttl" /\ req'[w].id = req[w].id /\ req'[w].op = "shorten"
          /\ req'[w].code = Encode[req[w].id] /\ req'[w].user = req[w].user
      BY <1>0, <2>1, <2>2 DEF RequestTypes, Requests, Goto
    <3>3. Established(w)'
      BY <2>1, <3>1, <3>2 DEF Established, Names, Committed
    <3> QED BY <1>6, <1>d, <2>1, <3>1, <3>3 DEF Step
  <2>3. CASE Answer(w, 500, 0) /\ UNCHANGED <<rows, link, life>>
    <3>1. RowsCommitted'
      BY <1>b, <2>3
    <3>2. Established(w)'
      BY <1>0, <2>3, AnswerEstablished DEF Carrying
    <3> QED BY <1>6, <1>d, <2>1, <3>1, <3>2 DEF Step
  <2> QED BY <1>6, <2>2, <2>3 DEF EncodeId
<1>7. ASSUME NEW w \in Workers, CreateFails(w) PROVE CodeInv'
  <2>1. CachedNames' /\ Established(w)'
    BY <1>0, <1>c, <1>7, AnswerEstablished DEF CreateFails, Carrying
  <2>2. req[w].code # NoCode => req[w].code \in Codes
    BY <1>0 DEF RequestTypes, Requests
  <2>3. pc[w] = "encode" => req[w].id \in Ids /\ Encode[req[w].id] \in Codes
    BY <1>0, LinkStoreAssumption DEF Carried
  <2>4. RowsCommitted'
    <3>1. CASE UNCHANGED <<rows, link>>
      BY <1>b, <3>1
    <3>2. CASE nextId <= MaxId /\ req[w].code # NoCode
               /\ Commit(nextId, req[w].code, req[w].user)
      BY <1>0, <1>a, <2>2, <3>2, CommitNames
    <3>3. CASE pc[w] = "encode" /\ Commit(req[w].id, Encode[req[w].id], req[w].user)
      BY <1>0, <2>3, <3>3, CommitNames
    <3> QED BY <1>7, <3>1, <3>2, <3>3 DEF CreateFails, db
  <2> QED BY <1>7, <1>d, <2>1, <2>4 DEF Step
<1>8. ASSUME NEW w \in Workers, SequenceExhausted(w) PROVE CodeInv'
  <2>1. Established(w)'
    BY <1>0, <1>8, AnswerEstablished DEF SequenceExhausted, Carrying
  <2> QED BY <1>8, <1>b, <1>c, <1>d, <2>1 DEF SequenceExhausted, Step, db
<1>9. ASSUME NEW w \in Workers, CreateTTL(w) PROVE CodeInv'
  <2>1. link' = link /\ Names(req[w].id, req[w].code) /\ link[req[w].id].user = req[w].user
        /\ req[w].op = "shorten"
    BY <1>0, <1>9 DEF CreateTTL, Established, db
  <2>2. ASSUME HoldTTL(w, "publish") PROVE Established(w)'
    BY <1>0, <2>1, <2>2, HoldEffect DEF Established, Names, Committed
  <2>3. ASSUME Answer(w, 201, req[w].id) PROVE Established(w)'
    <3>1. pc'[w] = "done" /\ req'[w].op = "shorten" /\ req'[w].id = req[w].id
          /\ req'[w].code = req[w].code /\ req'[w].user = req[w].user
      BY <1>0, <2>1, <2>3, AnswerEffect DEF Carrying
    <3> QED BY <2>1, <3>1 DEF Established, Names, Committed
  <2>4. Established(w)'
    BY <1>9, <2>2, <2>3 DEF CreateTTL
  <2> QED BY <1>9, <1>b, <1>c, <1>d, <2>4 DEF CreateTTL, Step, db
<1>10. ASSUME NEW w \in Workers, Publish(w) PROVE CodeInv'
  <2>1. link' = link /\ Names(req[w].id, req[w].code) /\ link[req[w].id].user = req[w].user
        /\ req[w].op = "shorten"
    BY <1>0, <1>10 DEF Publish, Established, db
  <2>2. pc'[w] = "done" /\ req'[w].op = "shorten" /\ req'[w].id = req[w].id
        /\ req'[w].code = req[w].code /\ req'[w].user = req[w].user
    BY <1>0, <1>10, <2>1, AnswerEffect DEF Publish, Carrying
  <2>3. Established(w)'
    BY <2>1, <2>2 DEF Established, Names, Committed
  <2>4. CachedNames'
    <3>1. CASE cache' = cache
      BY <1>c, <3>1
    <3>2. CASE Set(w)
      BY <1>e, <2>1, <3>2
    <3> QED BY <1>10, <3>1, <3>2 DEF Publish
  <2> QED BY <1>10, <1>b, <1>d, <2>3, <2>4 DEF Publish, Step, db
<1>11. ASSUME NEW w \in Workers, CacheGet(w) PROVE CodeInv'
  <2>1. link' = link /\ req[w].code \in Codes /\ Established(w)
        /\ req[w].op \in LookupOps \cup {"record"} /\ req[w].op # "stats"
    BY <1>0, <1>11 DEF CacheGet, Carried, Established, db
  <2>2. ASSUME cache[req[w].code].kind = "json" /\ Found(w, cache[req[w].code].id)
        PROVE  Established(w)'
    <3>1. Names(cache[req[w].code].id, req[w].code)
      BY <1>0, <2>1, <2>2 DEF CachedNames, Empty
    <3> QED BY <1>0, <2>1, <2>2, <3>1, FoundEstablished
  <2>3. ASSUME Goto(w, "select") /\ UNCHANGED req PROVE Established(w)'
    BY <1>0, <2>1, <2>3 DEF Established, Goto, RequestTypes, Names, Committed
  <2>4. Established(w)'
    BY <1>11, <2>2, <2>3 DEF CacheGet
  <2> QED BY <1>11, <1>b, <1>c, <1>d, <2>4 DEF CacheGet, Step, db
<1>12. ASSUME NEW w \in Workers, Select(w) PROVE CodeInv'
  <2>1. link' = link /\ Established(w) /\ req[w].op \in LookupOps \cup {"record"}
    BY <1>0, <1>12 DEF Select, Established, db
  <2>2. ASSUME NEW i \in rows, Matches(w, i), Goto(w, "check"),
               req' = [req EXCEPT ![w].id = i]
        PROVE  Established(w)'
    <3>1. Names(i, req[w].code)
      BY <1>0, <2>2 DEF Matches, Names, RowsCommitted, DatabaseTypes
    <3>2. /\ pc'[w] = "check" /\ req'[w].id = i /\ req'[w].op = req[w].op
          /\ req'[w].code = req[w].code /\ req'[w].user = req[w].user
          /\ req'[w].target = req[w].target
      BY <1>0, <2>2 DEF Goto, RequestTypes, Requests
    <3> QED BY <2>1, <2>2, <3>1, <3>2 DEF Established, Names, Committed, Matches
  <2>3. ASSUME Missed(w, 404) \/ Missed(w, 500) PROVE Established(w)'
    BY <1>0, <2>1, <2>3, MissedEstablished DEF Carrying
  <2>4. Established(w)'
    BY <1>12, <2>2, <2>3 DEF Select
  <2> QED BY <1>12, <1>b, <1>c, <1>d, <2>4 DEF Select, Step, db
<1>13. ASSUME NEW w \in Workers, Check(w) PROVE CodeInv'
  <2>1. /\ link' = link /\ Established(w) /\ req[w].op \in LookupOps \cup {"record"}
        /\ Names(req[w].id, req[w].code)
        /\ req[w].op = "stats" => link[req[w].id].user = req[w].user
    BY <1>0, <1>13 DEF Check, Established, db
  <2>2. ASSUME Missed(w, ExpiredStatus(req[w].op)) PROVE Established(w)'
    BY <1>0, <2>1, <2>2, MissedEstablished DEF Carrying, ExpiredStatus
  <2>3. ASSUME req[w].op # "stats" /\ HoldTTL(w, "backfill") PROVE Established(w)'
    <3>1. /\ pc'[w] = "backfill" /\ req'[w].id = req[w].id /\ req'[w].op = req[w].op
          /\ req'[w].code = req[w].code /\ req'[w].target = req[w].target
      BY <1>0, <2>3, HoldEffect
    <3> QED BY <2>1, <2>3, <3>1 DEF Established, Names, Committed
  <2>4. ASSUME Found(w, req[w].id) PROVE Established(w)'
    BY <1>0, <2>1, <2>4, FoundEstablished
  <2>5. Established(w)'
    BY <1>13, <2>2, <2>3, <2>4 DEF Check
  <2> QED BY <1>13, <1>b, <1>c, <1>d, <2>5 DEF Check, Step, db
<1>14. ASSUME NEW w \in Workers, Backfill(w) PROVE CodeInv'
  <2>1. /\ link' = link /\ Established(w) /\ req[w].op \in LookupOps \cup {"record"}
        /\ Names(req[w].id, req[w].code) /\ req[w].op # "stats"
    BY <1>0, <1>14 DEF Backfill, Established, db
  <2>2. Established(w)'
    BY <1>0, <1>14, <2>1, FoundEstablished DEF Backfill
  <2>3. CachedNames'
    <3>1. CASE cache' = cache
      BY <1>c, <3>1
    <3>2. CASE Set(w)
      BY <1>e, <2>1, <3>2
    <3> QED BY <1>14, <3>1, <3>2 DEF Backfill
  <2> QED BY <1>14, <1>b, <1>d, <2>2, <2>3 DEF Backfill, Step, db
<1>15. ASSUME NEW w \in Workers, Invalidate(w) PROVE CodeInv'
  <2>1. pc[w] = "invalidate" /\ pc'[w] = "remove" /\ req' = req /\ link' = link /\ Established(w)
    BY <1>0, <1>15 DEF Invalidate, Goto, RequestTypes, db
  <2>2. Established(w)'
    BY <2>1 DEF Established, Names, Committed
  <2>3. CachedNames'
    BY <1>0, <1>15, CachedKept DEF Invalidate, CacheTypes
  <2> QED BY <1>15, <1>b, <1>d, <2>2, <2>3 DEF Invalidate, Step, db
<1>16. ASSUME NEW w \in Workers, Remove(w) \/ RemoveFails(w) PROVE CodeInv'
  <2>1. link' = link /\ rows' \subseteq rows /\ cache' = cache /\ Established(w)
    BY <1>0, <1>16 DEF Remove, RemoveFails
  <2>2. ASSUME Goto(w, "purge") /\ UNCHANGED req PROVE Established(w)'
    BY <1>0, <2>1, <2>2 DEF Established, Goto, RequestTypes, Names, Committed
  <2>3. ASSUME Answer(w, 404, 0) \/ Answer(w, 500, 0) PROVE Established(w)'
    BY <1>0, <2>3, AnswerEstablished DEF Carrying
  <2>4. Established(w)'
    BY <1>16, <2>2, <2>3 DEF Remove, RemoveFails
  <2> QED BY <1>16, <1>b, <1>c, <1>d, <2>1, <2>4 DEF Step
<1>17. ASSUME NEW w \in Workers, Purge(w) PROVE CodeInv'
  <2>1. Established(w)'
    BY <1>0, <1>17, AnswerEstablished DEF Purge, Carrying
  <2>2. CachedNames'
    BY <1>0, <1>17, CachedKept DEF Purge, CacheTypes
  <2> QED BY <1>17, <1>b, <1>d, <2>1, <2>2 DEF Purge, Step, db
<1>18. ASSUME NEW w \in Workers, Reply(w) PROVE CodeInv'
  <2>1. pc'[w] = "idle" /\ req'[w] = Idle
    BY <1>0, <1>18 DEF Reply, Goto, RequestTypes
  <2>2. Established(w)'
    BY <2>1 DEF Established, Idle
  <2> QED BY <1>18, <1>b, <1>c, <1>d, <2>2 DEF Reply, Step, db
<1>19. CASE DeleteExpired \/ (\E c \in Codes : Evict(c)) \/ UNCHANGED vars
  <2>1. pc' = pc /\ req' = req /\ rows' \subseteq rows /\ link' = link
    BY <1>19 DEF DeleteExpired, Evict, vars, db
  <2>2. CachedNames'
    BY <1>0, <1>19, CachedKept DEF DeleteExpired, Evict, vars, CacheTypes
  <2> QED BY <1>b, <2>1, <2>2, EstablishedKept DEF CodeInv
<1>20. CASE Tick
  <2>1. \A w \in Workers :
          /\ pc'[w] = pc[w]
          /\ req'[w].op = req[w].op /\ req'[w].code = req[w].code
          /\ req'[w].user = req[w].user /\ req'[w].id = req[w].id
          /\ req'[w].target = req[w].target /\ req'[w].status = req[w].status
    BY <1>0, <1>20 DEF Tick, RequestTypes, Requests
  <2>2. \A c \in Codes : cache'[c] # Empty => cache[c] # Empty /\ cache'[c].id = cache[c].id
    <3>1. SUFFICES ASSUME NEW c \in Codes, cache'[c] # Empty
                   PROVE  cache[c] # Empty /\ cache'[c].id = cache[c].id
      OBVIOUS
    <3>2. cache'[c] = Aged(cache[c]) /\ cache[c] \in Entries
      BY <1>0, <1>20 DEF Tick, CacheTypes
    <3>3. cache[c].ttl > 1 /\ cache'[c] = [cache[c] EXCEPT !.ttl = @ - 1]
      BY <3>1, <3>2 DEF Aged
    <3> QED BY <3>2, <3>3 DEF Entries, Empty
  <2>3. CachedNames'
    BY <2>2, CachedKept
  <2> QED BY <1>20, <1>b, <2>1, <2>3, EstablishedKept DEF Tick, CodeInv
<1>21. ASSUME NEW w \in Workers, SetLost(w) PROVE CodeInv'
  <2>1. UNCHANGED <<db, pc, req>> /\ pc[w] \in Storing /\ Set(w)
    BY <1>21 DEF SetLost
  <2>2. Names(req[w].id, req[w].code)
    BY <2>1 DEF CodeInv, Established, Storing
  <2>3. CachedNames'
    BY <1>e, <2>1, <2>2 DEF db
  <2> QED BY <1>b, <2>1, <2>3, EstablishedKept DEF CodeInv, db
<1> QED
  BY <1>1, <1>2, <1>3, <1>4, <1>5, <1>6, <1>7, <1>8, <1>9, <1>10, <1>11, <1>12, <1>13,
     <1>14, <1>15, <1>16, <1>17, <1>18, <1>19, <1>20, <1>21 DEF Next, Step

\* The three invariants hold together from the first state on.
THEOREM CodeInvariant == Spec => [](TypeInv /\ Allocation /\ CodeInv)
<1>1. Init => TypeInv /\ Allocation /\ CodeInv
  BY TypeInit, CodeInit DEF Init, Allocation, Committed
<1>2. TypeInv /\ Allocation /\ CodeInv /\ [Next]_vars => (TypeInv /\ Allocation /\ CodeInv)'
  BY TypeNext, AllocationNext, CodeNext
<1> QED BY <1>1, <1>2, PTL DEF Spec

\* A Redis key always names a link of that code, even after the row is gone and the code
\* has been taken again.
THEOREM CacheKeysRight == Spec => []CacheHoldsOwnCode
BY CodeInvariant, CodeMeans, PTL

\* No interleaving answers a request with a link of another code, and none shows the
\* clicks or the statistics of a link to a user who does not own it.
THEOREM AnswersRight == Spec => []AnswersGenuine
BY CodeInvariant, CodeMeans, PTL

----------------------------------------------------------------------------
\* Expiry: a TTL that is computed from the clock and stored later.

\* What is true of a TTL between the two steps.
Held(w) ==
  pc[w] \in Storing /\ link[req[w].id].timed => req[w].ttl <= life[req[w].id] + req[w].lag

ExpiryInv == CacheHonoursExpiry /\ \A w \in Workers : Held(w)

\* Entries that are not touched, and requests that do not move, in a step that takes no time.
LEMMA ExpiryKept ==
  ASSUME TypeInv, Allocation, CodeInv, ExpiryInv, [Next]_vars, ~Tick
  PROVE  /\ \A c \in Codes : cache'[c] = cache[c] /\ cache'[c] # Empty /\ link'[cache'[c].id].timed
              => cache'[c].ttl <= life'[cache'[c].id] + MaxLag
         /\ \A v \in Workers : pc'[v] = pc[v] /\ req'[v] = req[v] => Held(v)'
<1>1. ASSUME NEW i, NEW c, Names(i, c) PROVE link'[i] = link[i] /\ life'[i] = life[i]
  BY <1>1, LinksStable DEF Names
<1>2. \A c \in Codes : cache[c] # Empty => Names(cache[c].id, c)
  BY DEF CodeInv, CachedNames
<1>3. \A v \in Workers : pc[v] \in Storing => Names(req[v].id, req[v].code)
  BY DEF CodeInv, Established, Storing
<1> QED BY <1>1, <1>2, <1>3 DEF ExpiryInv, CacheHonoursExpiry, Held

\* Storing a TTL that is held.
LEMMA StoreExpiry ==
  ASSUME TypeInv, Allocation, CodeInv, ExpiryInv, [Next]_vars, ~Tick,
         NEW w \in Workers, pc[w] \in Storing, Set(w)
  PROVE  CacheHonoursExpiry'
<1>0. DatabaseTypes /\ CacheTypes /\ RequestTypes
  BY DEF TypeInv
<1>1. Names(req[w].id, req[w].code)
  BY DEF CodeInv, Established, Storing
<1>2. link'[req[w].id] = link[req[w].id] /\ life'[req[w].id] = life[req[w].id]
  BY <1>1, LinksStable DEF Names
<1>3. req[w].lag \in 0..MaxLag /\ req[w].ttl \in Nat /\ life[req[w].id] \in Floor..MaxLife
  BY <1>0, <1>1 DEF RequestTypes, Requests, DatabaseTypes, Names
<1>4. link[req[w].id].timed => req[w].ttl <= life[req[w].id] + MaxLag
  BY <1>3, LinkStoreAssumption DEF ExpiryInv, Held, Floor
<1>5. ASSUME NEW c \in Codes, cache'[c] # Empty, link'[cache'[c].id].timed
      PROVE  cache'[c].ttl <= life'[cache'[c].id] + MaxLag
  <2>1. CASE c = req[w].code
    <3>1. cache'[c] = Stored(w)
      BY <1>0, <2>1 DEF CacheTypes, Set, CacheKey
    <3>2. cache'[c].id = req[w].id /\ cache'[c].ttl = req[w].ttl
      BY <3>1 DEF Stored
    <3> QED BY <1>2, <1>4, <1>5, <3>2
  <2>2. CASE c # req[w].code
    <3>1. cache'[c] = cache[c]
      BY <1>0, <2>2 DEF CacheTypes, Set, CacheKey
    <3> QED BY <1>5, <3>1, ExpiryKept
  <2> QED BY <2>1, <2>2
<1> QED BY <1>5 DEF CacheHonoursExpiry

\* A TTL is at most the time left when it is computed.
LEMMA HoldExpiry ==
  ASSUME TypeInv, NEW w \in Workers, NEW step, HoldTTL(w, step), req[w].id \in Ids,
         UNCHANGED <<link, life>>
  PROVE  Held(w)'
<1>1. req'[w].id = req[w].id /\ req'[w].ttl = CacheTTL(req[w].id) /\ req'[w].lag = 0
  BY HoldEffect DEF TypeInv
<1>2. life[req[w].id] \in Int
  BY LinkStoreAssumption DEF TypeInv, DatabaseTypes, Floor
<1> QED BY <1>1, <1>2 DEF Held, CacheTTL

\* Time passes: what is left of an entry and what is left of its link go down together.
LEMMA TickExpiry ==
  ASSUME TypeInv, Allocation, CodeInv, ExpiryInv, [Next]_vars, Tick
  PROVE  ExpiryInv'
<1>0. DatabaseTypes /\ CacheTypes /\ RequestTypes /\ link' = link /\ pc' = pc
  BY DEF TypeInv, Tick
<1>1. \A i \in Ids : /\ life[i] \in Int /\ Floor <= life[i]
                     /\ life'[i] \in {life[i], life[i] - 1}
                     /\ life[i] = Floor => life'[i] = life[i]
  BY <1>0, LinkStoreAssumption DEF Tick, DatabaseTypes, Floor
<1>2. ASSUME NEW c \in Codes, cache'[c] # Empty, link'[cache'[c].id].timed
      PROVE  cache'[c].ttl <= life'[cache'[c].id] + MaxLag
  <2>1. cache'[c] = Aged(cache[c]) /\ cache[c] \in Entries
    BY <1>0 DEF Tick, CacheTypes
  <2>2. cache[c].ttl > 1 /\ cache'[c] = [cache[c] EXCEPT !.ttl = @ - 1]
    BY <1>2, <2>1 DEF Aged
  <2>3. /\ cache[c] # Empty /\ cache'[c].id = cache[c].id /\ cache'[c].ttl = cache[c].ttl - 1
        /\ cache[c].ttl \in Nat /\ cache[c].id \in Ids
    BY <2>1, <2>2 DEF Entries, Empty
  <2>4. cache[c].ttl <= life[cache[c].id] + MaxLag
    BY <1>0, <1>2, <2>3 DEF ExpiryInv, CacheHonoursExpiry
  <2> QED BY <1>1, <2>2, <2>3, <2>4, LinkStoreAssumption DEF Floor
<1>3. ASSUME NEW w \in Workers, pc[w] \in Storing, link[req[w].id].timed
      PROVE  req'[w].ttl <= life'[req'[w].id] + req'[w].lag
  <2>1. req'[w] = [req[w] EXCEPT !.lag = @ + 1] /\ req[w] \in Requests
    BY <1>0, <1>3 DEF Tick, RequestTypes
  <2>2. req[w].id \in Ids
    BY <1>3 DEF CodeInv, Established, Names, Storing
  <2>3. /\ req'[w].id = req[w].id /\ req'[w].ttl = req[w].ttl /\ req'[w].lag = req[w].lag + 1
        /\ req[w].ttl \in Nat /\ req[w].lag \in 0..MaxLag
    BY <2>1 DEF Requests
  <2>4. req[w].ttl <= life[req[w].id] + req[w].lag
    BY <1>3 DEF ExpiryInv, Held
  <2> QED BY <1>1, <2>2, <2>3, <2>4, LinkStoreAssumption DEF Floor
<1>4. \A w \in Workers : pc[w] \in Storing => req'[w].id = req[w].id
  <2>1. \A w \in Workers : pc[w] \in Storing => req'[w] = [req[w] EXCEPT !.lag = @ + 1]
    BY <1>0 DEF Tick
  <2> QED BY <1>0, <2>1 DEF RequestTypes, Requests
<1> QED BY <1>0, <1>2, <1>3, <1>4 DEF ExpiryInv, CacheHonoursExpiry, Held

\* Every step preserves ExpiryInv.
LEMMA ExpiryNext ==
  TypeInv /\ Allocation /\ CodeInv /\ ExpiryInv /\ [Next]_vars => ExpiryInv'
<1> SUFFICES ASSUME TypeInv, Allocation, CodeInv, ExpiryInv, [Next]_vars, ~Tick
             PROVE  ExpiryInv'
  BY TickExpiry
<1>0. CacheTypes /\ RequestTypes /\ Carried
  BY DEF TypeInv
\* A cache that only loses entries.
<1>a. ASSUME \A c \in Codes : cache'[c] \in {cache[c], Empty} PROVE CacheHonoursExpiry'
  BY <1>a, ExpiryKept DEF CacheHonoursExpiry
<1>b. ASSUME NEW w \in Workers, Shorten(w) \/ Lookup(w) \/ Delete(w) \/ Step(w),
             CacheHonoursExpiry', Held(w)'
      PROVE  ExpiryInv'
  <2>1. \A v \in Workers \ {w} : pc'[v] = pc[v] /\ req'[v] = req[v]
    BY <1>b, OneAtATime
  <2> QED BY <1>b, <2>1, ExpiryKept DEF ExpiryInv
\* Answers, misses and moves end without a TTL held.
<1>c. ASSUME NEW w \in Workers, pc'[w] \notin Storing PROVE Held(w)'
  BY <1>c DEF Held
<1>d. ASSUME NEW w \in Workers, NEW status, NEW i, Answer(w, status, i)
      PROVE  pc'[w] \notin Storing
  BY <1>0, <1>d, AnswerEffect DEF Storing
<1>e. ASSUME NEW w \in Workers, NEW i, Found(w, i) PROVE pc'[w] \notin Storing
  BY <1>0, <1>d, <1>e, RedirectEffect DEF Found, Storing
<1>f. ASSUME NEW w \in Workers, NEW step, Goto(w, step), step \notin Storing
      PROVE  pc'[w] \notin Storing
  BY <1>0, <1>f DEF Goto, RequestTypes
<1>1. ASSUME NEW w \in Workers, Shorten(w) PROVE ExpiryInv'
  <2>1. \E step \in {"insert", "done"} : Goto(w, step)
    BY <1>1, Zenon DEF Shorten
  <2> QED BY <1>1, <1>a, <1>b, <1>c, <1>f, <2>1 DEF Shorten, Storing
<1>2. ASSUME NEW w \in Workers,
             Lookup(w) \/ Delete(w) \/ InsertAuto(w) \/ Reply(w)
      PROVE  ExpiryInv'
  <2>1. pc'[w] \notin Storing /\ cache' = cache
    BY <1>2, <1>f DEF Lookup, Delete, InsertAuto, Reply, Storing
  <2> QED BY <1>2, <1>a, <1>b, <1>c, <2>1 DEF Step
<1>3. ASSUME NEW w \in Workers,
             InsertAlias(w) \/ EncodeId(w) \/ CreateFails(w) \/ SequenceExhausted(w)
      PROVE  ExpiryInv'
  <2>1. pc'[w] \notin Storing /\ cache' = cache
    BY <1>3, <1>d, <1>f DEF InsertAlias, EncodeId, CreateFails, SequenceExhausted, Storing
  <2> QED BY <1>3, <1>a, <1>b, <1>c, <2>1 DEF Step
<1>4. ASSUME NEW w \in Workers, CreateTTL(w) PROVE ExpiryInv'
  <2>1. UNCHANGED <<link, life, cache>> /\ req[w].id \in Ids
    BY <1>0, <1>4 DEF CreateTTL, Carried, db
  <2>2. Held(w)'
    BY <1>4, <1>c, <1>d, <2>1, HoldExpiry DEF CreateTTL
  <2> QED BY <1>4, <1>a, <1>b, <2>1, <2>2 DEF Step
<1>5. ASSUME NEW w \in Workers, Publish(w) PROVE ExpiryInv'
  <2>1. CacheHonoursExpiry'
    BY <1>5, <1>a, StoreExpiry DEF Publish, Storing
  <2>2. Held(w)'
    BY <1>5, <1>c, <1>d DEF Publish
  <2> QED BY <1>5, <1>b, <2>1, <2>2 DEF Step
<1>6. ASSUME NEW w \in Workers, CacheGet(w) PROVE ExpiryInv'
  <2>1. pc'[w] \notin Storing /\ cache' = cache
    BY <1>6, <1>e, <1>f DEF CacheGet, Storing
  <2> QED BY <1>6, <1>a, <1>b, <1>c, <2>1 DEF Step
<1>7. ASSUME NEW w \in Workers, Select(w) PROVE ExpiryInv'
  <2>1. pc'[w] \notin Storing /\ cache' = cache
    BY <1>7, <1>d, <1>f DEF Select, Missed, Storing
  <2> QED BY <1>7, <1>a, <1>b, <1>c, <2>1 DEF Step
<1>8. ASSUME NEW w \in Workers, Check(w) PROVE ExpiryInv'
  <2>1. UNCHANGED <<link, life, cache>> /\ req[w].id \in Ids
    BY <1>0, <1>8 DEF Check, Carried, db
  <2>2. Held(w)'
    BY <1>8, <1>c, <1>d, <1>e, <2>1, HoldExpiry DEF Check, Missed
  <2> QED BY <1>8, <1>a, <1>b, <2>1, <2>2 DEF Step
<1>9. ASSUME NEW w \in Workers, Backfill(w) PROVE ExpiryInv'
  <2>1. CacheHonoursExpiry'
    BY <1>9, <1>a, StoreExpiry DEF Backfill, Storing
  <2>2. Held(w)'
    BY <1>9, <1>c, <1>e DEF Backfill
  <2> QED BY <1>9, <1>b, <2>1, <2>2 DEF Step
<1>10. ASSUME NEW w \in Workers, Invalidate(w) \/ Purge(w) PROVE ExpiryInv'
  <2>1. CacheHonoursExpiry'
    BY <1>0, <1>10, <1>a DEF Invalidate, Purge, CacheTypes
  <2>2. Held(w)'
    BY <1>10, <1>c, <1>d, <1>f DEF Invalidate, Purge, Storing
  <2> QED BY <1>10, <1>b, <2>1, <2>2 DEF Step
<1>11. ASSUME NEW w \in Workers, Remove(w) \/ RemoveFails(w) PROVE ExpiryInv'
  <2>1. pc'[w] \notin Storing /\ cache' = cache
    BY <1>11, <1>d, <1>f DEF Remove, RemoveFails, Storing
  <2> QED BY <1>11, <1>a, <1>b, <1>c, <2>1 DEF Step
<1>12. CASE DeleteExpired \/ (\E c \in Codes : Evict(c)) \/ UNCHANGED vars
  <2>1. pc' = pc /\ req' = req /\ \A c \in Codes : cache'[c] \in {cache[c], Empty}
    BY <1>0, <1>12 DEF DeleteExpired, Evict, vars, db, CacheTypes
  <2> QED BY <1>a, <2>1, ExpiryKept DEF ExpiryInv
<1>13. ASSUME NEW w \in Workers, SetLost(w) PROVE ExpiryInv'
  <2>1. CacheHonoursExpiry' /\ pc' = pc /\ req' = req
    BY <1>13, StoreExpiry DEF SetLost
  <2> QED BY <2>1, ExpiryKept DEF ExpiryInv
<1> QED BY <1>1, <1>2, <1>3, <1>4, <1>5, <1>6, <1>7, <1>8, <1>9, <1>10, <1>11, <1>12, <1>13
        DEF Next, Step

\* Although the TTL of an entry is computed in one step and stored in a later one, with the
\* clock running in between, no entry outlives the expiry of its link by more than MaxLag.
THEOREM ExpiryHonoured == Spec => []CacheHonoursExpiry
<1>1. Init => ExpiryInv
  BY DEF Init, ExpiryInv, CacheHonoursExpiry, Held, Storing
<1>2. ExpiryInv => CacheHonoursExpiry
  BY DEF ExpiryInv
<1> QED BY <1>1, <1>2, ExpiryNext, CodeInvariant, PTL DEF Spec

=============================================================================
