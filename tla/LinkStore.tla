------------------------------ MODULE LinkStore ------------------------------
(***************************************************************************)
(* The links of the service: the urls table in PostgreSQL, the Redis keys  *)
(* that cache it, and the HTTP requests that create, look up and delete    *)
(* links concurrently, with the deletion of expired rows.                  *)
(*                                                                         *)
(* A request is a worker (the goroutine net/http gives it).  Each access   *)
(* it makes to PostgreSQL or Redis is one step, so that the steps of other *)
(* requests can fall between any two of them.  go-redis sends a command    *)
(* again when its reply does not come, so that a SET may take effect       *)
(* several times (a DEL also, which is as if the key were evicted).        *)
(*                                                                         *)
(* A link is named by its id: long_url and the other columns never change, *)
(* so "the row that was read" is an id.  Time is relative: life[i] is what *)
(* is left until expires_at, an entry's ttl what is left until Redis drops *)
(* the key, and Tick takes one unit from both.  It needs no bound.         *)
(***************************************************************************)
EXTENDS Integers

CONSTANTS
  Workers,   \* concurrent requests
  Users,     \* ids of authenticated users
  Codes,     \* short codes, as they may appear in a path or as an alias
  NoCode,    \* the empty alias; the code of an id that has no committed row
  NoUser,    \* the owner of an id that has no committed row
  Lower,     \* strings.ToLower on the codes
  Reserved,  \* ReservedAliases
  MaxId,     \* the last value of the sequence behind urls.id (a SERIAL)
  Encode,    \* encoder.Encode: the hashid of an id
  MaxLife,   \* bounds the time until expires_at
  DayTTL,    \* 24h, the time a link with no expiry stays cached
  MaxLag,    \* time a request may spend between computing a TTL and storing it
  Faults     \* which of "redis", "db" and "geo" (the country database) may fail

Ids == 1..MaxId

ASSUME LinkStoreAssumption ==
  /\ NoCode \notin Codes /\ NoUser \notin Users
  /\ Lower \in [Codes -> Codes]
  /\ \A c \in Codes : Lower[Lower[c]] = Lower[c]
  /\ Reserved \subseteq Codes
  /\ MaxId \in Nat
  /\ Encode \in [Ids -> Codes]
  /\ MaxLife \in Nat /\ MaxLag \in Nat
  /\ DayTTL \in Nat /\ DayTTL > 0

VARIABLES
  rows,      \* ids of the committed rows of urls
  link,      \* what was committed under each id, kept after the row is gone
  life,      \* time left until expires_at
  nextId,    \* the sequence urls_id_seq
  cache,     \* the Redis keys named by a short code
  pc, req    \* where each request is, and its local variables

db == <<rows, link, life, nextId>>
vars == <<rows, link, life, nextId, cache, pc, req>>

----------------------------------------------------------------------------
\* Data

Blank == [code |-> NoCode, user |-> NoUser, timed |-> FALSE]
Links == [code : Codes, user : Users, timed : BOOLEAN] \cup {Blank}
Committed(i) == link[i] # Blank

\* Time left on an expiry that was asked for.  -1 stands for an expires_at that
\* is past already: time.Duration(hours) * time.Hour wraps around.
Lives == {-1} \cup 1..MaxLife
\* life stops counting here, where no cache entry can still be alive.
Floor == -1 - MaxLag

\* "raw" is the bare long URL that Create stores, "json" the row that GetByCode does.
Empty == [kind |-> "none", id |-> 0, ttl |-> 0]
Entries == [kind : {"raw", "json"}, id : Ids, ttl : Nat] \cup {Empty}

\* A redirect looks its code up twice: for the target, then (op "record") for the click.
LookupOps == {"redirect", "clicks", "qr", "stats"}
Ops == LookupOps \cup {"none", "shorten", "record", "delete"}
Idle == [op |-> "none", code |-> NoCode, user |-> NoUser,
         id |-> 0, target |-> 0, ttl |-> 0, lag |-> 0, status |-> 0]
Carrying == {200, 201, 302}
Statuses == {0, 200, 201, 204, 302, 400, 404, 410, 500}
Requests == [op : Ops, code : Codes \cup {NoCode}, user : Users \cup {NoUser},
             id : Ids \cup {0}, target : Ids \cup {0}, ttl : Nat, lag : 0..MaxLag, status : Statuses]
Steps == {"idle", "insert", "encode", "ttl", "publish", "get", "select", "check",
          "backfill", "invalidate", "remove", "purge", "done"}

\* Steps at which a request holds a TTL that it has computed and not stored yet.
Storing == {"publish", "backfill"}

----------------------------------------------------------------------------
\* Helpers

\* Service.Shorten lowers a custom alias; the empty one asks for a hashid.
NormaliseNot(alias) == alias
Normalise(alias) == IF alias = NoCode THEN NoCode ELSE Lower[alias]

\* The status of a request that Service.Shorten refuses, 0 when it goes on.
\* The handler has no case for ErrInvalidURL, which falls to its default; a body that
\* does not bind is refused like a scheme that is not http or https.
ShortenRefusal(url, name) ==
  CASE url = "invalid"  -> 500
    [] url \in {"unbound", "scheme"} -> 400
    [] name \in Reserved -> 400
    [] OTHER            -> 0

\* The unique index on urls.short_code.
TakenNever(c) == FALSE
Taken(c) == \E i \in rows : link[i].code = c

Expired(i) == link[i].timed /\ life[i] < 0

\* The Redis key of a code is the code itself.
CacheKeyFolded(c) == Lower[c]
CacheKey(c) == c

\* time.Until(*url.ExpiresAt), or 24h.
CacheTTLFixed(i) == DayTTL
CacheTTL(i) == IF link[i].timed THEN life[i] ELSE DayTTL

\* What each handler answers for ErrLinkExpired: only Redirect and GetStats map it.
ExpiredStatus(op) == IF op \in {"redirect", "stats"} THEN 410 ELSE 500

\* What a lookup answers once it has the row of i; clicks are shown to the owner only.
FoundStatusAnyUser(op, i, u) == IF op = "record" THEN 302 ELSE 200
FoundStatus(op, i, u) ==
  CASE op = "record" -> 302
    [] op = "clicks" /\ link[i].user # u -> 404
    [] OTHER -> 200

\* What a lookup leads to may fail: the query for the clicks, or opening the country
\* database for the click of a redirect, which panics and is answered by gin.Recovery.
FollowUpFails(op) ==
  \/ op = "clicks" /\ "db" \in Faults
  \/ op = "record" /\ "geo" \in Faults

Goto(w, step) == pc' = [pc EXCEPT ![w] = step]

\* The response is decided.  One that carries a link keeps its id and what was asked.
Answer(w, status, i) ==
  /\ Goto(w, "done")
  /\ req' = [req EXCEPT ![w] =
       IF status \in Carrying
         THEN [@ EXCEPT !.id = i, !.ttl = 0, !.lag = 0, !.status = status]
         ELSE [Idle EXCEPT !.status = status]]

\* A lookup ends without a row.  Redirect ignores the error of RecordClick.
Missed(w, status) == Answer(w, IF req[w].op = "record" THEN 302 ELSE status, 0)

\* A lookup ends with the row of i.  A redirect has its target and goes on to RecordClick,
\* whose own lookup says which link (id) the click is counted for.
Found(w, i) ==
  \/ /\ req[w].op = "redirect"
     /\ Goto(w, "get")
     /\ req' = [req EXCEPT ![w] = [@ EXCEPT !.op = "record", !.target = i,
                                           !.id = 0, !.ttl = 0, !.lag = 0]]
  \/ /\ req[w].op # "redirect"
     /\ LET status == FoundStatus(req[w].op, i, req[w].user)
        IN  \/ Answer(w, status, i)
            \/ status \in Carrying /\ FollowUpFails(req[w].op) /\ Answer(w, 500, 0)

\* Keep the TTL of i, read from the clock now, for a later step to store.
HoldTTL(w, step) ==
  /\ Goto(w, step)
  /\ req' = [req EXCEPT ![w] = [@ EXCEPT !.ttl = CacheTTL(req[w].id), !.lag = 0]]

\* The end of the INSERT's transaction: the row is visible and its code taken.
Commit(i, c, u) ==
  /\ ~Taken(c)
  /\ rows' = rows \cup {i}
  /\ \E timed \in BOOLEAN : \E left \in Lives :
       /\ link' = [link EXCEPT ![i] = [code |-> c, user |-> u, timed |-> timed]]
       /\ life' = [life EXCEPT ![i] = IF timed THEN left ELSE 0]

Init ==
  /\ rows = {} /\ nextId = 1
  /\ link = [i \in Ids |-> Blank]
  /\ life = [i \in Ids |-> 0]
  /\ cache = [c \in Codes |-> Empty]
  /\ pc = [w \in Workers |-> "idle"]
  /\ req = [w \in Workers |-> Idle]

----------------------------------------------------------------------------
\* POST /urls/shorten

\* The handler and Service.Shorten, up to the call of the repository.
Shorten(w) ==
  /\ pc[w] = "idle"
  /\ \E alias \in Codes \cup {NoCode}, u \in Users, url \in {"ok", "invalid", "unbound", "scheme"} :
       LET name == Normalise(alias)
           status == ShortenRefusal(url, name)
       IN  /\ Goto(w, IF status = 0 THEN "insert" ELSE "done")
           /\ req' = [req EXCEPT ![w] =
                IF status = 0
                  THEN [Idle EXCEPT !.op = "shorten", !.code = name, !.user = u]
                  ELSE [Idle EXCEPT !.status = status]]
  /\ UNCHANGED <<db, cache>>

\* INSERT with the alias as short_code, then COMMIT.  An id is drawn either way.
InsertAlias(w) ==
  /\ pc[w] = "insert" /\ req[w].code # NoCode /\ nextId <= MaxId
  /\ nextId' = nextId + 1
  /\ \/ /\ Commit(nextId, req[w].code, req[w].user)
        /\ Goto(w, "ttl")
        /\ req' = [req EXCEPT ![w].id = nextId]
     \/ /\ Taken(req[w].code)
        /\ Answer(w, 400, 0)
        /\ UNCHANGED <<rows, link, life>>
  /\ UNCHANGED cache

\* INSERT ... RETURNING id with no short_code: invisible until the transaction commits.
InsertAuto(w) ==
  /\ pc[w] = "insert" /\ req[w].code = NoCode /\ nextId <= MaxId
  /\ nextId' = nextId + 1
  /\ Goto(w, "encode")
  /\ req' = [req EXCEPT ![w].id = nextId]
  /\ UNCHANGED <<rows, link, life, cache>>

\* UPDATE with the hashid of the id, then COMMIT.  Here a code that an alias has
\* taken is an error like any other, and the transaction is rolled back.
EncodeId(w) ==
  /\ pc[w] = "encode"
  /\ LET i == req[w].id
     IN  \/ /\ Commit(i, Encode[i], req[w].user)
            /\ Goto(w, "ttl")
            /\ req' = [req EXCEPT ![w].code = Encode[i]]
         \/ /\ Taken(Encode[i])
            /\ Answer(w, 500, 0)
            /\ UNCHANGED <<rows, link, life>>
  /\ UNCHANGED <<nextId, cache>>

\* A statement or the COMMIT fails: nothing is left but the id that was drawn,
\* or the COMMIT took effect and only its reply is lost.
CreateFails(w) ==
  /\ "db" \in Faults
  /\ \/ /\ pc[w] \in {"insert", "encode"}
        /\ UNCHANGED db
     \/ /\ pc[w] = "insert" /\ nextId <= MaxId
        /\ nextId' = nextId + 1
        /\ UNCHANGED <<rows, link, life>>
     \/ /\ pc[w] = "insert" /\ req[w].code # NoCode /\ nextId <= MaxId
        /\ nextId' = nextId + 1
        /\ Commit(nextId, req[w].code, req[w].user)
     \/ /\ pc[w] = "encode"
        /\ Commit(req[w].id, Encode[req[w].id], req[w].user)
        /\ UNCHANGED nextId
  /\ Answer(w, 500, 0)
  /\ UNCHANGED cache

\* nextval fails: the sequence has reached its maximum value.
SequenceExhausted(w) ==
  /\ pc[w] = "insert" /\ nextId > MaxId
  /\ Answer(w, 500, 0)
  /\ UNCHANGED <<db, cache>>

\* time.Until(*url.ExpiresAt), and no SET when it is not positive.
CreateTTLUnchecked(w) ==
  /\ pc[w] = "ttl"
  /\ HoldTTL(w, "publish")
  /\ UNCHANGED <<db, cache>>
CreateTTL(w) ==
  /\ pc[w] = "ttl"
  /\ IF CacheTTL(req[w].id) > 0
       THEN HoldTTL(w, "publish")
       ELSE Answer(w, 201, req[w].id)
  /\ UNCHANGED <<db, cache>>

\* What SET stores under the code: Create the bare URL, GetByCode the row as it was read.
Stored(w) == [kind |-> IF pc[w] = "publish" THEN "raw" ELSE "json",
              id |-> req[w].id, ttl |-> req[w].ttl]
Set(w) == cache' = [cache EXCEPT ![CacheKey(req[w].code)] = Stored(w)]

\* SET takes effect and its reply is lost: it will be sent again, or given up.
SetLost(w) ==
  /\ pc[w] \in Storing /\ "redis" \in Faults
  /\ Set(w)
  /\ UNCHANGED <<db, pc, req>>

\* SET of the new code; an error of Redis is only logged.
PublishJSON(w) ==
  /\ pc[w] = "publish"
  /\ cache' = [cache EXCEPT ![req[w].code] =
                 [kind |-> "json", id |-> req[w].id, ttl |-> req[w].ttl]]
  /\ Answer(w, 201, req[w].id)
  /\ UNCHANGED db
Publish(w) ==
  /\ pc[w] = "publish"
  /\ \/ Set(w)
     \/ "redis" \in Faults /\ UNCHANGED cache
  /\ Answer(w, 201, req[w].id)
  /\ UNCHANGED db

----------------------------------------------------------------------------
\* Lookups: GET /:code, /clicks/:code and its /stats, /urls/:code/qr use GetByCode;
\* GET /urls/stats/:code asks the database only, for a row of the user's own.

Lookup(w) ==
  /\ pc[w] = "idle"
  /\ \E op \in LookupOps, c \in Codes :
     \E u \in IF op \in {"clicks", "stats"} THEN Users ELSE {NoUser} :
       /\ Goto(w, IF op = "stats" THEN "select" ELSE "get")
       /\ req' = [req EXCEPT ![w] = [Idle EXCEPT !.op = op, !.code = c, !.user = u]]
  /\ UNCHANGED <<db, cache>>

\* GET.  An entry that json.Unmarshal refuses counts as a miss, like an error of Redis.
CacheGetSliding(w) ==
  /\ pc[w] = "get"
  /\ LET e == cache[req[w].code]
     IN  IF e.kind = "json"
           THEN /\ cache' = [cache EXCEPT ![req[w].code].ttl =
                               IF link[e.id].timed THEN @ ELSE DayTTL]
                /\ Found(w, e.id)
           ELSE Goto(w, "select") /\ UNCHANGED <<req, cache>>
  /\ UNCHANGED db
CacheGet(w) ==
  /\ pc[w] = "get"
  /\ LET e == cache[req[w].code]
     IN  \/ e.kind = "json" /\ Found(w, e.id)
         \/ /\ e.kind # "json" \/ "redis" \in Faults
            /\ Goto(w, "select")
            /\ UNCHANGED req
  /\ UNCHANGED <<db, cache>>

\* SELECT ... WHERE short_code = $1, and for stats AND user_id = $2.
Matches(w, i) ==
  /\ link[i].code = req[w].code
  /\ req[w].op = "stats" => link[i].user = req[w].user

SelectAgain(w) ==
  /\ pc[w] = "select"
  /\ \/ \E i \in rows : Matches(w, i) /\ Goto(w, "check") /\ req' = [req EXCEPT ![w].id = i]
     \/ (\A i \in rows : ~Matches(w, i)) /\ Goto(w, "get") /\ UNCHANGED req
  /\ UNCHANGED <<db, cache>>
Select(w) ==
  /\ pc[w] = "select"
  /\ \/ \E i \in rows :
          /\ Matches(w, i)
          /\ Goto(w, "check")
          /\ req' = [req EXCEPT ![w].id = i]
     \/ /\ \A i \in rows : ~Matches(w, i)
        /\ Missed(w, 404)
     \/ /\ "db" \in Faults
        /\ Missed(w, 500)
  /\ UNCHANGED <<db, cache>>

\* Expiry, checked against the row that was read; then the TTL of the entry to store.
Check(w) ==
  /\ pc[w] = "check"
  /\ LET i == req[w].id
         cached == req[w].op # "stats" /\ CacheTTL(i) > 0
     IN  \/ Expired(i) /\ Missed(w, ExpiredStatus(req[w].op))
         \/ ~Expired(i) /\ cached /\ HoldTTL(w, "backfill")
         \/ ~Expired(i) /\ ~cached /\ Found(w, i)
  /\ UNCHANGED <<db, cache>>

\* SET of the row; an error of Redis is only logged.
Backfill(w) ==
  /\ pc[w] = "backfill"
  /\ \/ Set(w)
     \/ "redis" \in Faults /\ UNCHANGED cache
  /\ Found(w, req[w].id)
  /\ UNCHANGED db

----------------------------------------------------------------------------
\* DELETE /urls/:code

Delete(w) ==
  /\ pc[w] = "idle"
  /\ \E c \in Codes, u \in Users :
       req' = [req EXCEPT ![w] = [Idle EXCEPT !.op = "delete", !.code = c, !.user = u]]
  /\ Goto(w, "invalidate")
  /\ UNCHANGED <<db, cache>>

\* DEL in the service, before the database knows; an error is only logged.
Invalidate(w) ==
  /\ pc[w] = "invalidate"
  /\ \/ cache' = [cache EXCEPT ![req[w].code] = Empty]
     \/ "redis" \in Faults /\ UNCHANGED cache
  /\ Goto(w, "remove")
  /\ UNCHANGED <<db, req>>

\* DELETE FROM urls WHERE short_code = $1 AND user_id = $2
DeletableByAnyone(w, i) == link[i].code = req[w].code
Deletable(w, i) == link[i].code = req[w].code /\ link[i].user = req[w].user

RemoveUnchecked(w) ==
  /\ pc[w] = "remove"
  /\ rows' = {i \in rows : ~Deletable(w, i)}
  /\ Goto(w, "purge")
  /\ UNCHANGED <<req, link, life, nextId, cache>>
Remove(w) ==
  /\ pc[w] = "remove"
  /\ rows' = {i \in rows : ~Deletable(w, i)}
  /\ \/ rows' # rows /\ Goto(w, "purge") /\ UNCHANGED req
     \/ rows' = rows /\ Answer(w, 404, 0)
  /\ UNCHANGED <<link, life, nextId, cache>>

\* The statement fails, or takes effect and its reply is lost: no second DEL either way.
RemoveFails(w) ==
  /\ pc[w] = "remove" /\ "db" \in Faults
  /\ \/ UNCHANGED rows
     \/ rows' = {i \in rows : ~Deletable(w, i)}
  /\ Answer(w, 500, 0)
  /\ UNCHANGED <<link, life, nextId, cache>>

\* DEL in the repository, after the row is gone; an error is only logged.
Purge(w) ==
  /\ pc[w] = "purge"
  /\ \/ cache' = [cache EXCEPT ![req[w].code] = Empty]
     \/ "redis" \in Faults /\ UNCHANGED cache
  /\ Answer(w, 204, 0)
  /\ UNCHANGED db

\* The response is out and the goroutine ends.
Reply(w) ==
  /\ pc[w] = "done"
  /\ Goto(w, "idle")
  /\ req' = [req EXCEPT ![w] = Idle]
  /\ UNCHANGED <<db, cache>>

----------------------------------------------------------------------------
\* Background and environment

\* DELETE FROM urls WHERE expires_at < NOW(), when there is something to delete.  When the
\* worker comes to send it is a matter of CleanupWorker.
CleanableSwapped(i) == ~link[i].timed
Cleanable(i) == Expired(i)
DeleteExpired ==
  /\ \E i \in rows : Cleanable(i)
  /\ rows' = {i \in rows : ~Cleanable(i)}
  /\ UNCHANGED <<link, life, nextId, cache, pc, req>>

\* Redis loses a key: a restart, an eviction, or a DEL that is sent again.
Evict(c) ==
  /\ "redis" \in Faults /\ cache[c] # Empty
  /\ cache' = [cache EXCEPT ![c] = Empty]
  /\ UNCHANGED <<db, pc, req>>

Aged(e) == IF e.ttl > 1 THEN [e EXCEPT !.ttl = @ - 1] ELSE Empty

\* One unit of time passes, unless a request has used up its MaxLag.
Tick ==
  /\ \A w \in Workers : pc[w] \in Storing => req[w].lag < MaxLag
  /\ life' = [i \in Ids |-> IF link[i].timed /\ life[i] > Floor THEN life[i] - 1 ELSE life[i]]
  /\ cache' = [c \in Codes |-> Aged(cache[c])]
  /\ req' = [w \in Workers |-> IF pc[w] \in Storing THEN [req[w] EXCEPT !.lag = @ + 1]
                                                    ELSE req[w]]
  /\ UNCHANGED <<rows, link, nextId, pc>>

----------------------------------------------------------------------------

\* The steps of a request after it has arrived.
Step(w) ==
  \/ InsertAlias(w) \/ InsertAuto(w) \/ EncodeId(w) \/ CreateFails(w)
  \/ SequenceExhausted(w) \/ CreateTTL(w) \/ Publish(w)
  \/ CacheGet(w) \/ Select(w) \/ Check(w) \/ Backfill(w)
  \/ Invalidate(w) \/ Remove(w) \/ RemoveFails(w) \/ Purge(w)
  \/ Reply(w)

Next ==
  \/ \E w \in Workers : Shorten(w) \/ Lookup(w) \/ Delete(w) \/ SetLost(w) \/ Step(w)
  \/ DeleteExpired
  \/ \E c \in Codes : Evict(c)
  \/ Tick

Spec == Init /\ [][Next]_vars

----------------------------------------------------------------------------
\* Properties

TypeOK ==
  /\ rows \subseteq Ids
  /\ link \in [Ids -> Links]
  /\ life \in [Ids -> Floor..MaxLife]
  /\ nextId \in 1..(MaxId + 1)
  /\ cache \in [Codes -> Entries]
  /\ pc \in [Workers -> Steps]
  /\ req \in [Workers -> Requests]

\* A short code means one link: however creations interleave, and with hashids and
\* aliases drawn from the same strings, no two rows of urls share a code.
UniqueLiveCode ==
  \A i, j \in rows : link[i].code = link[j].code => i = j

\* The code of a link follows the rules that Shorten enforces: it is the hashid of
\* the id, or a custom alias, and then in lower case and not reserved.
AliasRules ==
  \A i \in Ids : Committed(i) =>
    LET c == link[i].code
    IN  c = Encode[i] \/ (Lower[c] = c /\ c \notin Reserved)

\* The key a link is cached under is its own code, whoever stored it and whatever has
\* happened to the row since.
CacheHoldsOwnCode ==
  \A c \in Codes : cache[c] # Empty => link[cache[c].id].code = c

\* The TTL of a cache entry is computed in one step and stored in a later one, yet no
\* entry outlives the expiry of its link by more than a request may lag behind.
CacheHonoursExpiry ==
  \A c \in Codes :
    cache[c] # Empty /\ link[cache[c].id].timed =>
      cache[c].ttl <= life[cache[c].id] + MaxLag

\* A successful answer is about a link of the code that was asked for, whichever of
\* cache and database it came from, and analytics are shown to the link's owner only.
AnswersGenuine ==
  \A w \in Workers : pc[w] = "done" /\ req[w].status \in Carrying =>
    LET i == IF req[w].op = "record" THEN req[w].target ELSE req[w].id
    IN  /\ i # 0
        /\ link[i].code = req[w].code
        /\ req[w].op \in {"clicks", "stats", "shorten"} => link[i].user = req[w].user

\* A row disappears only because it has expired, or because its owner asked for it.
OwnerOnlyDelete ==
  [][\A i \in rows \ rows' :
       \/ Expired(i)
       \/ \E w \in Workers : /\ pc[w] = "remove" /\ req[w].op = "delete"
                            /\ link[i].code = req[w].code /\ link[i].user = req[w].user
    ]_vars

\* The row of i is gone, or will never be: no transaction still holds the id.
Dead(i) ==
  /\ i < nextId /\ i \notin rows
  /\ \A w \in Workers : pc[w] = "encode" => req[w].id # i

\* A lookup may still find i: in the cache, or in a row that was read before it went.
Reachable(i) ==
  \/ \E c \in Codes : cache[c].kind = "json" /\ cache[c].id = i
  \/ \E w \in Workers : pc[w] \in {"check", "backfill"} /\ req[w].id = i

\* Once a link has been removed and the last copy of its row is gone, no request brings
\* it back.  A creation that is slow to publish is no exception: what it stores is the
\* bare URL, which no lookup accepts.
GoneForGood ==
  [][\A i \in Ids : Dead(i) /\ ~Reachable(i) => (Dead(i) /\ ~Reachable(i))']_vars

\* A request as a client of the table sees it.  A request that has taken effect is past its
\* wish, and what a lookup does concerns the table only by its answer.
Asked == {"insert", "encode", "invalidate", "remove"}
Created == {"ttl", "publish"}
TableStage ==
  [w \in Workers |-> CASE pc[w] \in Asked   -> "asked"
                       [] pc[w] \in Created -> "created"
                       [] pc[w] = "purge"   -> "deleted"
                       [] pc[w] = "done"    -> "told"
                       [] OTHER             -> "idle"]
TableWish ==
  [w \in Workers |->
     IF pc[w] \in Asked THEN [op |-> req[w].op, code |-> req[w].code, user |-> req[w].user]
                        ELSE [op |-> "none", code |-> NoCode, user |-> NoUser]]
TableMade ==
  [w \in Workers |-> IF pc[w] \in Created \/ req[w].status = 201 THEN req[w].id ELSE 0]
TableStatus == [w \in Workers |-> req[w].status]

Table == INSTANCE LinkTable WITH stage <- TableStage, wish <- TableWish,
                                 made <- TableMade, status <- TableStatus

\* Transactions, cache and clean-up together are a table of links in which requests take
\* effect at one moment each, and the status codes tell the truth about it: a 201 has created
\* the link it answers with, a 204 has deleted a link of the user's own, and 400 and 404 were
\* true when the request was refused.
ImplementsLinkTable == Table!TableSpec

\* The links as those see them who only look up codes.
LifeCode == [i \in Ids |-> link[i].code]
LifeStale == {i \in Ids \ rows : Committed(i) /\ Reachable(i)}

Life == INSTANCE LinkLife WITH code <- LifeCode, stale <- LifeStale

\* Behind every interleaving of transactions, lookups, the cache and the clean-up, a link that
\* leaves the table may linger in copies, and without a copy it never comes back.
ImplementsLinkLife == Life!LifeSpec

\* What a lookup finds, for a target or for a click, is in the table or a copy at that very
\* moment, and has the code that was asked for, however long ago the row was read.
FindsFindable ==
  [][\A w \in Workers : pc[w] \in {"get", "check", "backfill"} =>
       /\ req[w].op = "redirect" /\ req'[w].op = "record" =>
            req'[w].target \in Life!Findable(req[w].code)
       /\ pc'[w] = "done" /\ req'[w].id # 0 =>
            req'[w].id \in Life!Findable(req[w].code)]_vars

\* The docs of DELETE /urls/:code say "Permanently removes a short URL and its associated
\* analytics".  So a lookup that arrives when a link has been deleted and no other request
\* is running should not find it.  (Violated: a lookup that read the row before it went
\* stores it in the cache after both DELs, and it is served until its TTL is over.)
DeletedLinkNotServed ==
  \A w \in Workers : pc[w] = "get" /\ req[w].op \in LookupOps =>
    LET e == cache[req[w].code]
    IN  e.kind = "json" /\ ~link[e.id].timed /\ e.id \notin rows =>
          \E v \in Workers \ {w} : pc[v] # "idle"

\* Create logs "cache populated", and README.md promises "Redis for caching ... to reduce
\* database load".  So a lookup that finds its key in Redis should need no database.
\* (Violated: Create stores the bare URL, and GetByCode expects the JSON of a row.)
CachedLookupHits ==
  \A w \in Workers : pc[w] = "get" /\ cache[req[w].code] # Empty =>
    cache[req[w].code].kind = "json"

=============================================================================
