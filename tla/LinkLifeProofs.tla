---------------------------- MODULE LinkLifeProofs ----------------------------
(***************************************************************************)
(* Proofs about LinkStore as those see it who look codes up, for every     *)
(* value of its constants: it implements LinkLife, and what a lookup finds *)
(* is what LinkLife lets it find.                                          *)
(***************************************************************************)
EXTENDS LinkTableProofs

\* Links move as LinkLife says, or not at all.
LifeMoves == [Life!LifeNext]_(Life!lifeVars)

----------------------------------------------------------------------------
\* Copies

\* Steps at which a request has a row that a lookup has read.
Copying == {"check", "backfill"}

\* A step that leaves the cache alone, of a request that is not looking up.
LEMMA CopiesKept ==
  ASSUME NEW w \in Workers, cache' = cache, pc[w] \notin Copying, pc'[w] \notin Copying,
         \A v \in Workers \ {w} : pc'[v] = pc[v] /\ req'[v] = req[v]
  PROVE  \A i : Reachable(i) <=> Reachable(i)'
BY DEF Reachable, Copying

\* A link without a row or a copy has none after the step.
LEMMA NoNewCopies ==
  ASSUME TypeInv, Allocation, [Next]_vars, NEW i \in Ids, i \notin rows, Committed(i),
         ~Reachable(i)
  PROVE  ~Reachable(i)'
<1>1. Dead(i)
  <2>1. nextId \in Int /\ i \in Int
    BY LinkStoreAssumption DEF TypeInv, DatabaseTypes, Ids
  <2>2. i < nextId
    BY <2>1 DEF Allocation
  <2> QED BY <2>2 DEF Dead, Allocation
<1> QED BY <1>1, StaysGone

----------------------------------------------------------------------------
\* What a step does to the links

\* No row comes or goes: copies can only be given up.
LEMMA RowsKept ==
  ASSUME TypeInv, Allocation, [Next]_vars, UNCHANGED <<rows, link>>
  PROVE  LifeMoves
<1>1. LifeCode' = LifeCode
  BY DEF LifeCode
<1>2. LifeStale' \subseteq LifeStale
  BY NoNewCopies DEF LifeStale, Committed
<1>3. CASE LifeStale' = LifeStale
  BY <1>1, <1>3 DEF LifeMoves, Life!lifeVars
<1>4. CASE LifeStale' # LifeStale
  <2> DEFINE S == LifeStale \ LifeStale'
  <2>1. S # {} /\ S \subseteq LifeStale /\ LifeStale' = LifeStale \ S
    BY <1>2, <1>4
  <2>2. S \in SUBSET Life!Ids
    BY DEF LifeStale, Life!Ids, Ids
  <2> HIDE DEF S
  <2>3. Life!Forget(S)
    BY <1>1, <2>1 DEF Life!Forget
  <2> QED BY <2>2, <2>3 DEF LifeMoves, Life!LifeNext
<1> QED BY <1>3, <1>4

\* Rows go, and of some a copy is left.
LEMMA RowsGo ==
  ASSUME TypeInv, rows' \subseteq rows, link' = link, \A i : Reachable(i) <=> Reachable(i)'
  PROVE  LifeMoves
<1> DEFINE S == rows \ rows'
<1>1. LifeCode' = LifeCode
  BY DEF LifeCode
<1>2. S \in SUBSET Ids /\ rows' = rows \ S /\ S \subseteq rows
  BY DEF TypeInv, DatabaseTypes
<1>3. LifeStale' = LifeStale \cup {i \in S : Committed(i) /\ Reachable(i)}
  BY <1>2 DEF LifeStale, Committed
<1> HIDE DEF S
<1>4. CASE S = {}
  <2>1. rows' = rows /\ LifeStale' = LifeStale
    BY <1>2, <1>3, <1>4
  <2> QED BY <1>1, <2>1 DEF LifeMoves, Life!lifeVars
<1>5. CASE S # {}
  <2>1. {i \in S : Committed(i) /\ Reachable(i)} \in SUBSET S
    OBVIOUS
  <2>2. Life!Drop(S)
    BY <1>1, <1>2, <1>3, <1>5, <2>1 DEF Life!Drop
  <2>3. S \in SUBSET Life!Ids
    BY <1>2 DEF Life!Ids, Ids
  <2> QED BY <2>2, <2>3 DEF LifeMoves, Life!LifeNext
<1> QED BY <1>4, <1>5

\* A transaction commits: a link is added.
LEMMA CommitAdds ==
  ASSUME TypeInv, NEW i \in Ids, NEW c \in Codes, NEW u, Commit(i, c, u), ~Committed(i),
         \A j : Reachable(j) <=> Reachable(j)'
  PROVE  LifeMoves
<1>1. PICK timed \in BOOLEAN :
        link' = [link EXCEPT ![i] = [code |-> c, user |-> u, timed |-> timed]]
  BY DEF Commit
<1>2. /\ link'[i].code = c /\ link[i].code = NoCode
      /\ \A j \in Ids \ {i} : link'[j] = link[j]
  BY <1>1 DEF TypeInv, DatabaseTypes, Committed, Blank
<1>3. /\ rows' = rows \cup {i} /\ rows \subseteq Ids
      /\ \A j \in rows : link[j].code # c
  BY DEF Commit, Taken, TypeInv, DatabaseTypes
<1>4. LifeStale' = LifeStale
  <2>1. \A j \in Ids \ rows : (j \notin rows' /\ Committed(j)') <=> Committed(j)
    BY <1>2, <1>3 DEF Committed
  <2> QED BY <1>2, <1>3 DEF LifeStale, Committed
<1>5. LifeCode' = [LifeCode EXCEPT ![i] = c]
  BY <1>2 DEF LifeCode
<1>6. LifeCode[i] = NoCode /\ \A j \in rows : LifeCode[j] # c
  BY <1>2, <1>3 DEF LifeCode
<1>7. Life!Add(i, c)
  BY <1>3, <1>4, <1>5, <1>6 DEF Life!Add
<1>8. i \in Life!Ids
  BY DEF Life!Ids, Ids
<1> QED BY <1>7, <1>8 DEF LifeMoves, Life!LifeNext

----------------------------------------------------------------------------
\* Every step is one of LinkLife

LEMMA CreationIsLife ==
  ASSUME TableInv, [Next]_vars, NEW w \in Workers, InsertAlias(w) \/ EncodeId(w) \/ CreateFails(w)
  PROVE  LifeMoves
<1>0. /\ TypeInv /\ Allocation /\ RequestTypes /\ pc[w] \in {"insert", "encode"}
      /\ \A v \in Workers \ {w} : pc'[v] = pc[v] /\ req'[v] = req[v]
      /\ cache' = cache
  BY OneAtATime DEF TableInv, TypeInv, InsertAlias, EncodeId, CreateFails, Step
<1>1. pc'[w] \in {"ttl", "done"}
  <2>1. Goto(w, "ttl") \/ \E s, j : Answer(w, s, j)
    BY DEF InsertAlias, EncodeId, CreateFails
  <2>2. ASSUME Goto(w, "ttl") PROVE pc'[w] = "ttl"
    BY <1>0, <2>2 DEF Goto, RequestTypes
  <2>3. ASSUME NEW s, NEW j, Answer(w, s, j) PROVE pc'[w] = "done"
    BY <1>0, <2>3, AnswerEffect
  <2> QED BY <2>1, <2>2, <2>3
<1>2. \A i : Reachable(i) <=> Reachable(i)'
  BY <1>0, <1>1, CopiesKept DEF Copying
<1>3. \/ UNCHANGED <<rows, link>>
      \/ /\ pc[w] = "insert" /\ nextId <= MaxId /\ req[w].code # NoCode
         /\ Commit(nextId, req[w].code, req[w].user)
      \/ pc[w] = "encode" /\ Commit(req[w].id, Encode[req[w].id], req[w].user)
  BY DEF InsertAlias, EncodeId, CreateFails, db
<1>4. ASSUME pc[w] = "insert", nextId <= MaxId, req[w].code # NoCode,
             Commit(nextId, req[w].code, req[w].user)
      PROVE  LifeMoves
  <2>1. nextId \in Ids /\ ~Committed(nextId)
    BY <1>4, At
  <2>2. req[w].code \in Codes
    BY <1>0, <1>4 DEF RequestTypes, Requests
  <2> QED BY <1>0, <1>2, <1>4, <2>1, <2>2, CommitAdds
<1>5. ASSUME pc[w] = "encode", Commit(req[w].id, Encode[req[w].id], req[w].user)
      PROVE  LifeMoves
  <2>1. req[w].id \in Ids /\ ~Committed(req[w].id)
    BY <1>5, At
  <2>2. Encode[req[w].id] \in Codes
    BY <2>1, LinkStoreAssumption
  <2> QED BY <1>0, <1>2, <1>5, <2>1, <2>2, CommitAdds
<1> QED BY <1>0, <1>3, <1>4, <1>5, RowsKept

LEMMA RemovalIsLife ==
  ASSUME TableInv, NEW w \in Workers, Remove(w) \/ RemoveFails(w)
  PROVE  LifeMoves
<1>0. /\ TypeInv /\ RequestTypes /\ pc[w] = "remove" /\ cache' = cache /\ link' = link
      /\ \A v \in Workers \ {w} : pc'[v] = pc[v] /\ req'[v] = req[v]
      /\ rows' \subseteq rows
  BY OneAtATime DEF TableInv, TypeInv, Remove, RemoveFails, Step
<1>1. pc'[w] \in {"purge", "done"}
  <2>1. Goto(w, "purge") \/ \E s, j : Answer(w, s, j)
    BY DEF Remove, RemoveFails
  <2>2. ASSUME Goto(w, "purge") PROVE pc'[w] = "purge"
    BY <1>0, <2>2 DEF Goto, RequestTypes
  <2>3. ASSUME NEW s, NEW j, Answer(w, s, j) PROVE pc'[w] = "done"
    BY <1>0, <2>3, AnswerEffect
  <2> QED BY <2>1, <2>2, <2>3
<1>2. \A i : Reachable(i) <=> Reachable(i)'
  BY <1>0, <1>1, CopiesKept DEF Copying
<1> QED BY <1>0, <1>2, RowsGo

LEMMA NextIsLife ==
  ASSUME TableInv, [Next]_vars
  PROVE  LifeMoves
<1>0. TypeInv /\ Allocation
  BY DEF TableInv
<1>1. ASSUME NEW w \in Workers,
             Shorten(w) \/ Lookup(w) \/ Delete(w) \/ InsertAuto(w) \/ SequenceExhausted(w)
               \/ CreateTTL(w) \/ Publish(w) \/ CacheGet(w) \/ Select(w) \/ Check(w)
               \/ Backfill(w) \/ Invalidate(w) \/ Purge(w) \/ Reply(w)
      PROVE  UNCHANGED <<rows, link>>
  BY <1>1 DEF Shorten, Lookup, Delete, InsertAuto, SequenceExhausted, CreateTTL, Publish,
              CacheGet, Select, Check, Backfill, Invalidate, Purge, Reply, db
<1>2. CASE \E w \in Workers : Shorten(w) \/ Lookup(w) \/ Delete(w) \/ Step(w)
  BY <1>0, <1>1, <1>2, RowsKept, CreationIsLife, RemovalIsLife DEF Step
<1>3. CASE DeleteExpired
  <2>1. /\ rows' \subseteq rows /\ link' = link
        /\ \A i : Reachable(i) <=> Reachable(i)'
    BY <1>3 DEF DeleteExpired, Reachable
  <2> QED BY <1>0, <2>1, RowsGo
<1>4. CASE \/ (\E c \in Codes : Evict(c)) \/ (\E w \in Workers : SetLost(w))
           \/ Tick \/ UNCHANGED vars
  <2>1. UNCHANGED <<rows, link>>
    BY <1>4 DEF Evict, SetLost, Tick, vars, db
  <2> QED BY <1>0, <2>1, RowsKept
<1> QED BY <1>2, <1>3, <1>4 DEF Next

----------------------------------------------------------------------------
\* What a lookup finds

\* A link of the code, in the table or a copy.
LEMMA CopyFindable ==
  ASSUME NEW c, NEW i, Names(i, c), Reachable(i)
  PROVE  i \in Life!Findable(c)
<1>1. i \in rows \cup LifeStale /\ LifeCode[i] = c
  BY DEF Names, LifeStale, LifeCode
<1> QED BY <1>1 DEF Life!Findable

\* What FindsFindable says of one request.
FindsAt(w) ==
  /\ req[w].op = "redirect" /\ req'[w].op = "record" =>
       req'[w].target \in Life!Findable(req[w].code)
  /\ pc'[w] = "done" /\ req'[w].id # 0 => req'[w].id \in Life!Findable(req[w].code)

\* An answer names the link that was found, or none.
LEMMA AnswerFinds ==
  ASSUME RequestTypes, NEW w \in Workers, NEW status, NEW i, Answer(w, status, i),
         i = 0 \/ i \in Life!Findable(req[w].code)
  PROVE  FindsAt(w)
<1>1. CASE status \in Carrying
  <2>1. req'[w].id = i /\ req'[w].op = req[w].op
    BY <1>1, AnswerEffect
  <2> QED BY <2>1 DEF FindsAt
<1>2. CASE status \notin Carrying
  <2>1. req'[w] = [Idle EXCEPT !.status = status]
    BY <1>2 DEF Answer, RequestTypes
  <2>2. req'[w].id = 0 /\ req'[w].op = "none"
    BY <2>1 DEF Idle
  <2> QED BY <2>2 DEF FindsAt
<1> QED BY <1>1, <1>2

LEMMA FoundFinds ==
  ASSUME RequestTypes, NEW w \in Workers, NEW i, Found(w, i), i \in Life!Findable(req[w].code)
  PROVE  FindsAt(w)
<1>1. CASE req[w].op = "redirect"
  <2>1. pc'[w] = "get" /\ req'[w].target = i
    BY <1>1, RedirectEffect
  <2> QED BY <2>1 DEF FindsAt
<1>2. CASE req[w].op # "redirect"
  <2>1. PICK s : Answer(w, s, i) \/ Answer(w, s, 0)
    BY <1>2 DEF Found
  <2> QED BY <2>1, AnswerFinds
<1> QED BY <1>1, <1>2

\* A step of the lookup itself.
LEMMA LookupFinds ==
  ASSUME TableInv, NEW w \in Workers, CacheGet(w) \/ Check(w) \/ Backfill(w)
  PROVE  FindsAt(w)
<1>0. RequestTypes /\ CacheTypes /\ CachedNames /\ Established(w) /\ req[w] \in Requests
  BY At DEF TableInv, TypeInv, CodeInv
<1>1. CASE CacheGet(w)
  <2>1. ASSUME cache[req[w].code].kind = "json", Found(w, cache[req[w].code].id)
        PROVE  FindsAt(w)
    <3>1. req[w].code \in Codes
      BY <1>1 DEF CacheGet, TableInv, TypeInv, Carried
    <3>2. cache[req[w].code] # Empty
      BY <2>1 DEF Empty
    <3>3. Names(cache[req[w].code].id, req[w].code)
      BY <1>0, <3>1, <3>2 DEF CachedNames
    <3>4. Reachable(cache[req[w].code].id)
      BY <2>1, <3>1 DEF Reachable
    <3> QED BY <1>0, <2>1, <3>3, <3>4, CopyFindable, FoundFinds
  <2>2. ASSUME Goto(w, "select"), UNCHANGED req PROVE FindsAt(w)
    BY <1>0, <2>2 DEF FindsAt, Goto, RequestTypes
  <2> QED BY <1>1, <2>1, <2>2 DEF CacheGet
<1>2. CASE Check(w) \/ Backfill(w)
  <2>1. /\ Names(req[w].id, req[w].code) /\ pc[w] \in {"check", "backfill"}
    BY <1>0, <1>2 DEF Established, Check, Backfill
  <2>2. req[w].id \in Life!Findable(req[w].code)
    BY <2>1, CopyFindable DEF Reachable
  <2>3. ASSUME HoldTTL(w, "backfill") PROVE FindsAt(w)
    <3>1. pc'[w] = "backfill" /\ req'[w].op = req[w].op
      BY <1>0, <2>3, HoldEffect
    <3> QED BY <3>1 DEF FindsAt
  <2>4. ASSUME NEW s, Missed(w, s) PROVE FindsAt(w)
    BY <1>0, <2>4, AnswerFinds DEF Missed
  <2> QED BY <1>0, <1>2, <2>2, <2>3, <2>4, FoundFinds DEF Check, Backfill
<1> QED BY <1>1, <1>2

\* No other step moves a lookup.
LEMMA OthersFindNothing ==
  ASSUME TypeInv, NEW w \in Workers, pc'[w] = pc[w], req'[w].op = req[w].op,
         pc[w] \in {"get", "check", "backfill"}
  PROVE  FindsAt(w)
BY DEF FindsAt

----------------------------------------------------------------------------
\* Theorems

\* Behind every interleaving of transactions, lookups, the cache and the clean-up, a link that
\* leaves the table may linger in copies, and without a copy it never comes back.
THEOREM StoreIsLife == Spec => ImplementsLinkLife
<1>1. Init => Life!LifeInit
  BY DEF Init, Blank, Committed, LifeCode, LifeStale, Life!LifeInit, Life!Ids, Ids
<1>2. TableInv /\ [Next]_vars => [Life!LifeNext]_(Life!lifeVars)
  BY NextIsLife DEF LifeMoves
<1> QED BY <1>1, <1>2, TableInvariance, PTL DEF Spec, ImplementsLinkLife, Life!LifeSpec

\* What a lookup finds, for a target or for a click, is in the table or a copy at that very
\* moment, and has the code that was asked for, however long ago the row was read.
THEOREM LookupsFind == Spec => FindsFindable
<1>1. ASSUME TableInv, [Next]_vars, NEW w \in Workers, pc[w] \in {"get", "check", "backfill"}
      PROVE  FindsAt(w)
  <2>0. TypeInv /\ pc \in [Workers -> Steps] /\ req \in [Workers -> Requests]
    BY <1>1 DEF TableInv, TypeInv, RequestTypes
  <2>1. CASE Shorten(w) \/ Lookup(w) \/ Delete(w) \/ Step(w)
    <3>1. ASSUME Shorten(w) \/ Lookup(w) \/ Delete(w) \/ InsertAlias(w) \/ InsertAuto(w)
                   \/ EncodeId(w) \/ CreateFails(w) \/ SequenceExhausted(w) \/ CreateTTL(w)
                   \/ Publish(w) \/ Invalidate(w) \/ Remove(w) \/ RemoveFails(w)
                   \/ Purge(w) \/ Reply(w)
          PROVE  pc[w] \in {"idle", "insert", "encode", "ttl", "publish", "invalidate",
                            "remove", "purge", "done"}
      BY <3>1 DEF Shorten, Lookup, Delete, InsertAlias, InsertAuto, EncodeId, CreateFails,
         SequenceExhausted, CreateTTL, Publish, Invalidate, Remove, RemoveFails, Purge, Reply
    <3>2. ~Select(w)
      BY <1>1 DEF Select
    <3>3. CacheGet(w) \/ Check(w) \/ Backfill(w)
      BY <1>1, <2>1, <3>1, <3>2 DEF Step
    <3> QED BY <1>1, <3>3, LookupFinds
  <2>2. CASE \E v \in Workers \ {w} : Shorten(v) \/ Lookup(v) \/ Delete(v) \/ Step(v)
    BY <1>1, <2>0, <2>2, OneAtATime, OthersFindNothing
  <2>3. CASE Tick
    <3>1. req'[w] = (IF pc[w] \in Storing THEN [req[w] EXCEPT !.lag = @ + 1] ELSE req[w])
          /\ req[w] \in Requests /\ pc' = pc
      BY <2>0, <2>3 DEF Tick
    <3>2. req'[w].op = req[w].op
      BY <3>1 DEF Requests
    <3> QED BY <1>1, <2>0, <3>1, <3>2, OthersFindNothing
  <2>4. CASE \/ DeleteExpired \/ (\E c \in Codes : Evict(c)) \/ (\E v \in Workers : SetLost(v))
             \/ UNCHANGED vars
    BY <1>1, <2>0, <2>4, OthersFindNothing DEF DeleteExpired, Evict, SetLost, vars
  <2> QED BY <1>1, <2>1, <2>2, <2>3, <2>4 DEF Next
<1> DEFINE Finds == \A w \in Workers : pc[w] \in {"get", "check", "backfill"} => FindsAt(w)
<1>2. TableInv /\ [Next]_vars => [Finds]_vars
  BY <1>1
<1> HIDE DEF Finds
<1>3. Spec => [][Finds]_vars
  BY <1>2, TableInvariance, PTL DEF Spec
<1> QED BY <1>3 DEF FindsFindable, Finds, FindsAt

=============================================================================
