--------------------------- MODULE LinkTableProofs ----------------------------
(***************************************************************************)
(* Proofs about LinkStore as clients see it, for every value of its        *)
(* constants: the rules for codes and deletions, and that it implements    *)
(* LinkTable.                                                              *)
(***************************************************************************)
EXTENDS LinkStoreProofs

----------------------------------------------------------------------------
\* The invariant

\* An alias that Shorten lets through.
Allowed(c) == c \in Codes /\ Lower[c] = c /\ c \notin Reserved

\* What a request that concerns the table carries to the step at which it takes effect.
Concerned(w) ==
  /\ pc[w] # "done" => req[w].status = 0
  /\ pc[w] = "insert" => req[w].code = NoCode \/ Allowed(req[w].code)
  /\ pc[w] = "encode" => req[w].code = NoCode
  /\ pc[w] \in {"invalidate", "remove", "purge"} =>
       req[w].op = "delete" /\ req[w].code \in Codes /\ req[w].user \in Users

TableInv ==
  /\ TypeInv /\ Allocation /\ CodeInv /\ AliasRules
  /\ \A w \in Workers : Concerned(w)

\* The steps of a lookup, which say nothing about the table until they answer.
Reading == {"idle", "get", "select", "check", "backfill"}

\* The table takes a step, or none that it would notice.
TableMoves == [Table!TableNext]_(Table!tableVars)

----------------------------------------------------------------------------
\* The refinement mapping at one request

\* Where the mapping puts a request.
LEMMA StageAt ==
  ASSUME NEW w \in Workers
  PROVE  /\ pc[w] \in Asked => TableStage[w] = "asked"
         /\ pc[w] \in Created => TableStage[w] = "created"
         /\ pc[w] = "purge" => TableStage[w] = "deleted"
         /\ pc[w] = "done" => TableStage[w] = "told"
         /\ pc[w] \in Reading => TableStage[w] = "idle"
BY DEF TableStage, Asked, Created, Reading

\* And after a step.
LEMMA StageNext ==
  ASSUME NEW w \in Workers
  PROVE  /\ pc'[w] \in Asked => TableStage'[w] = "asked"
         /\ pc'[w] \in Created => TableStage'[w] = "created"
         /\ pc'[w] = "purge" => TableStage'[w] = "deleted"
         /\ pc'[w] = "done" => TableStage'[w] = "told"
         /\ pc'[w] \in Reading => TableStage'[w] = "idle"
BY DEF TableStage, Asked, Created, Reading

\* A step of one request is a step of that request in the table.
LEMMA Elsewhere ==
  ASSUME NEW w \in Workers, \A v \in Workers \ {w} : pc'[v] = pc[v] /\ req'[v] = req[v]
  PROVE  /\ TableStage' = [TableStage EXCEPT ![w] = TableStage'[w]]
         /\ TableWish' = [TableWish EXCEPT ![w] = TableWish'[w]]
         /\ TableMade' = [TableMade EXCEPT ![w] = TableMade'[w]]
         /\ TableStatus' = [TableStatus EXCEPT ![w] = TableStatus'[w]]
<1>1. \A v \in Workers \ {w} : /\ TableStage'[v] = TableStage[v] /\ TableWish'[v] = TableWish[v]
                               /\ TableMade'[v] = TableMade[v] /\ TableStatus'[v] = TableStatus[v]
  BY DEF TableStage, TableWish, TableMade, TableStatus
<1>2. /\ TableStage = [v \in Workers |-> TableStage[v]]
      /\ TableStage' = [v \in Workers |-> TableStage'[v]]
  BY DEF TableStage
<1>3. /\ TableWish = [v \in Workers |-> TableWish[v]]
      /\ TableWish' = [v \in Workers |-> TableWish'[v]]
      /\ TableMade = [v \in Workers |-> TableMade[v]]
      /\ TableMade' = [v \in Workers |-> TableMade'[v]]
  BY DEF TableWish, TableMade
<1>4. /\ TableStatus = [v \in Workers |-> TableStatus[v]]
      /\ TableStatus' = [v \in Workers |-> TableStatus'[v]]
  BY DEF TableStatus
<1> HIDE DEF TableStage, TableWish, TableMade, TableStatus
<1> QED BY <1>1, <1>2, <1>3, <1>4

\* What a step may change of a request without anybody noticing.
Unnoticed(w) ==
  /\ req'[w].status = req[w].status
  /\ \/ /\ pc'[w] = pc[w] /\ req'[w].op = req[w].op /\ req'[w].code = req[w].code
        /\ req'[w].user = req[w].user /\ req'[w].id = req[w].id
     \/ /\ pc[w] \in Asked /\ pc'[w] \in Asked /\ req[w].status = 0
        /\ req'[w].op = req[w].op /\ req'[w].code = req[w].code /\ req'[w].user = req[w].user
     \/ pc[w] \in Created /\ pc'[w] \in Created /\ req'[w].id = req[w].id
     \/ pc[w] \in Reading /\ pc'[w] \in Reading /\ req[w].status = 0

\* Such a step is none of the table.
LEMMA Stutters ==
  ASSUME \A w \in Workers : Unnoticed(w), UNCHANGED <<rows, link>>
  PROVE  TableMoves
<1>1. ASSUME NEW w \in Workers
      PROVE  /\ TableStage'[w] = TableStage[w] /\ TableWish'[w] = TableWish[w]
             /\ TableMade'[w] = TableMade[w] /\ TableStatus'[w] = TableStatus[w]
  <2> USE DEF TableStage, TableWish, TableMade, TableStatus
  <2>0. Unnoticed(w)
    OBVIOUS
  <2>1. CASE pc'[w] = pc[w] /\ req'[w].op = req[w].op /\ req'[w].code = req[w].code
             /\ req'[w].user = req[w].user /\ req'[w].id = req[w].id
    BY <2>0, <2>1 DEF Unnoticed
  <2>2. CASE /\ pc[w] \in Asked /\ pc'[w] \in Asked /\ req[w].status = 0
             /\ req'[w].op = req[w].op /\ req'[w].code = req[w].code /\ req'[w].user = req[w].user
    BY <2>0, <2>2 DEF Unnoticed, Asked, Created
  <2>3. CASE pc[w] \in Created /\ pc'[w] \in Created /\ req'[w].id = req[w].id
    BY <2>0, <2>3 DEF Unnoticed, Asked, Created
  <2>4. CASE pc[w] \in Reading /\ pc'[w] \in Reading /\ req[w].status = 0
    BY <2>0, <2>4 DEF Unnoticed, Asked, Created, Reading
  <2> QED BY <2>0, <2>1, <2>2, <2>3, <2>4 DEF Unnoticed
<1>2. TableStage' = TableStage
  BY <1>1 DEF TableStage
<1>3. TableWish' = TableWish
  BY <1>1 DEF TableWish
<1>4. TableMade' = TableMade
  BY <1>1 DEF TableMade
<1>5. TableStatus' = TableStatus
  BY <1>1 DEF TableStatus
<1> QED BY <1>2, <1>3, <1>4, <1>5 DEF TableMoves, Table!tableVars

----------------------------------------------------------------------------
\* Answers

\* What is not at another step is carried on.
LEMMA ConcernedKept ==
  ASSUME NEW v \in Workers, Concerned(v), pc'[v] = pc[v], req'[v].op = req[v].op,
         req'[v].code = req[v].code, req'[v].user = req[v].user, req'[v].status = req[v].status
  PROVE  Concerned(v)'
BY DEF Concerned, Allowed

\* An answer is told, with the link that was created if it says so.
LEMMA AnswerTold ==
  ASSUME TypeInv, NEW w \in Workers, NEW status, NEW i, NEW answers, status \in answers,
         Answer(w, status, i), \A v \in Workers \ {w} : pc'[v] = pc[v] /\ req'[v] = req[v]
  PROVE  /\ Table!Tell(w, answers, IF status = 201 THEN i ELSE 0)
         /\ Concerned(w)'
<1>1. pc'[w] = "done" /\ req'[w].status = status /\ (status = 201 => req'[w].id = i)
  BY AnswerEffect DEF TypeInv, Carrying
<1>2. /\ TableStage'[w] = "told" /\ TableWish'[w] = Table!NoWish
      /\ TableMade'[w] = (IF status = 201 THEN i ELSE 0) /\ TableStatus'[w] = status
  BY <1>1 DEF TableStage, TableWish, TableMade, TableStatus, Asked, Created, Table!NoWish
<1>3. Concerned(w)'
  BY <1>1 DEF Concerned
<1> QED BY <1>2, <1>3, Elsewhere DEF Table!Tell, Table!Go, Table!Settle

\* A request that only reads, or is refused at once, is answered.
LEMMA ReadAnswered ==
  ASSUME TypeInv, NEW w \in Workers, pc[w] \in Reading, UNCHANGED <<rows, link>>,
         NEW status \in {200, 302, 400, 404, 410, 500}, NEW i, Answer(w, status, i),
         \A v \in Workers \ {w} : pc'[v] = pc[v] /\ req'[v] = req[v]
  PROVE  Concerned(w)' /\ TableMoves
<1>1. Table!Tell(w, {200, 302, 400, 404, 410, 500}, 0) /\ Concerned(w)'
  BY AnswerTold
<1>2. TableStage[w] = "idle"
  BY StageAt
<1>3. Table!AnswerOther(w)
  BY <1>1, <1>2 DEF Table!AnswerOther
<1> QED BY <1>1, <1>3 DEF TableMoves, Table!TableNext

\* A lookup ends without a row.
LEMMA ReadMissed ==
  ASSUME TypeInv, NEW w \in Workers, pc[w] \in Reading, UNCHANGED <<rows, link>>,
         NEW status \in {404, 410, 500}, Missed(w, status),
         \A v \in Workers \ {w} : pc'[v] = pc[v] /\ req'[v] = req[v]
  PROVE  Concerned(w)' /\ TableMoves
<1>1. PICK s \in {200, 302, 400, 404, 410, 500} : Answer(w, s, 0)
  BY DEF Missed
<1> QED BY <1>1, ReadAnswered

\* A request that goes on, and has not been noticed.
LEMMA GoesOn ==
  ASSUME NEW w \in Workers, Unnoticed(w), UNCHANGED <<rows, link>>,
         \A v \in Workers \ {w} : pc'[v] = pc[v] /\ req'[v] = req[v]
  PROVE  TableMoves
<1>1. \A v \in Workers : Unnoticed(v)
  BY DEF Unnoticed
<1> QED BY <1>1, Stutters

\* A lookup goes on.
LEMMA ReadGoesOn ==
  ASSUME NEW w \in Workers, Concerned(w), pc[w] \in Reading, pc'[w] \in Reading,
         req'[w].status = req[w].status, UNCHANGED <<rows, link>>,
         \A v \in Workers \ {w} : pc'[v] = pc[v] /\ req'[v] = req[v]
  PROVE  Concerned(w)' /\ TableMoves
<1>1. req[w].status = 0 /\ Unnoticed(w)
  BY DEF Concerned, Reading, Unnoticed
<1>2. Concerned(w)'
  BY <1>1 DEF Concerned, Reading
<1> QED BY <1>1, <1>2, GoesOn

\* A lookup ends with a row.
LEMMA ReadFound ==
  ASSUME TypeInv, NEW w \in Workers, Concerned(w), pc[w] \in Reading, UNCHANGED <<rows, link>>,
         NEW i, Found(w, i), \A v \in Workers \ {w} : pc'[v] = pc[v] /\ req'[v] = req[v]
  PROVE  Concerned(w)' /\ TableMoves
<1>1. CASE req[w].op = "redirect"
  <2>1. /\ pc'[w] = "get"
        /\ req'[w] = [req[w] EXCEPT !.op = "record", !.target = i, !.id = 0, !.ttl = 0, !.lag = 0]
    BY <1>1 DEF TypeInv, RequestTypes, Found, Goto
  <2>2. req'[w].status = req[w].status
    BY <2>1 DEF TypeInv, RequestTypes, Requests
  <2> QED BY <2>1, <2>2, ReadGoesOn DEF Reading
<1>2. CASE req[w].op # "redirect"
  <2>1. PICK s \in {200, 302, 404, 500} : \E j : Answer(w, s, j)
    BY <1>2 DEF Found, FoundStatus
  <2>2. PICK j : Answer(w, s, j)
    BY <2>1
  <2> QED BY <2>2, ReadAnswered
<1> QED BY <1>1, <1>2

----------------------------------------------------------------------------
\* Requests to create

\* A wish as it stands at the step at which it takes effect.
LEMMA WishAt ==
  ASSUME TypeInv, NEW w \in Workers, Concerned(w), pc[w] \in Asked
  PROVE  /\ TableStage[w] = "asked" /\ TableMade[w] = 0 /\ TableStatus[w] = 0
         /\ TableWish[w].op = req[w].op /\ TableWish[w].code = req[w].code
         /\ TableWish[w].user = req[w].user
BY StageAt DEF Concerned, TableWish, TableMade, TableStatus, Asked, Created

\* A link is committed: the table's Insert.
LEMMA CommitInserts ==
  ASSUME TypeInv, NEW w \in Workers, Concerned(w), pc[w] \in {"insert", "encode"},
         req[w].op = "shorten", NEW i \in Ids, ~Committed(i), NEW c \in Codes,
         req[w].code \in {c, NoCode}, Commit(i, c, req[w].user)
  PROVE  Table!Insert(w, i)
<1>1. /\ TableStage[w] = "asked" /\ TableWish[w].op = "shorten" /\ TableWish[w].code \in {c, NoCode}
      /\ TableWish[w].user = req[w].user
  BY WishAt DEF Asked
<1>2. link[i] = Table!NoLink /\ rows' = rows \cup {i} /\ ~Table!InUse(c)
  BY DEF Committed, Blank, Table!NoLink, Commit, Taken, Table!InUse
<1>3. PICK timed \in BOOLEAN :
        link' = [link EXCEPT ![i] = [code |-> c, user |-> req[w].user, timed |-> timed]]
  BY DEF Commit
<1> QED BY <1>1, <1>2, <1>3 DEF Table!Insert

\* The request then has its link.
LEMMA InsertCreates ==
  ASSUME NEW w \in Workers, NEW i \in Ids, Table!Insert(w, i), Concerned(w), pc[w] \in Asked,
         pc'[w] = "ttl", req'[w].id = i, req'[w].status = 0,
         \A v \in Workers \ {w} : pc'[v] = pc[v] /\ req'[v] = req[v]
  PROVE  Concerned(w)' /\ TableMoves
<1>1. /\ TableStage'[w] = "created" /\ TableWish'[w] = Table!NoWish
      /\ TableMade'[w] = i /\ TableStatus'[w] = 0
  BY StageNext DEF TableWish, TableMade, TableStatus, Asked, Created, Table!NoWish
<1>2. TableStatus[w] = 0 /\ req[w].status = 0
  BY DEF TableStatus, Concerned, Asked
<1>3. TableStatus' = TableStatus
  <2>1. \A v \in Workers : req'[v].status = req[v].status
    BY <1>2
  <2> QED BY <2>1 DEF TableStatus
<1>4. Table!Create(w)
  BY <1>1, <1>3, Elsewhere DEF Table!Create, Table!Go, Table!Settle, Table!Ids, Ids
<1>5. Concerned(w)'
  BY DEF Concerned
<1> QED BY <1>4, <1>5 DEF TableMoves, Table!TableNext

\* Or an error, with or without the link.
LEMMA CreationFails ==
  ASSUME TypeInv, NEW w \in Workers, Concerned(w), pc[w] \in Asked, Answer(w, 500, 0),
         \A v \in Workers \ {w} : pc'[v] = pc[v] /\ req'[v] = req[v],
         UNCHANGED <<rows, link>> \/ (\E i \in Ids : Table!Insert(w, i)) \/ Table!Erase(w)
  PROVE  Concerned(w)' /\ TableMoves
<1>1. Table!Tell(w, {500}, 0) /\ Concerned(w)'
  BY AnswerTold
<1>2. TableStage[w] = "asked"
  BY StageAt
<1>3. Table!Fail(w)
  BY <1>1, <1>2 DEF Table!Fail, Table!Ids, Ids
<1> QED BY <1>1, <1>3 DEF TableMoves, Table!TableNext

\* What TableInv says at one request.
LEMMA At ==
  ASSUME TableInv, NEW w \in Workers
  PROVE  /\ TypeInv /\ Concerned(w) /\ Established(w) /\ req[w] \in Requests
         /\ pc[w] \in {"insert", "encode"} => req[w].user \in Users /\ req[w].op = "shorten"
         /\ pc[w] = "encode" => req[w].id \in Ids /\ ~Committed(req[w].id)
         /\ nextId <= MaxId => nextId \in Ids /\ ~Committed(nextId)
<1>1. nextId <= MaxId => nextId \in Ids
  BY LinkStoreAssumption DEF TableInv, TypeInv, DatabaseTypes, Ids
<1> QED BY <1>1 DEF TableInv, TypeInv, Carried, RequestTypes, CodeInv, Established, Allocation,
                    DatabaseTypes

\* A request arrives that concerns the table.
LEMMA Asks ==
  ASSUME NEW w \in Workers, Concerned(w), pc[w] = "idle", pc'[w] \in Asked, req'[w].status = 0,
         [op |-> req'[w].op, code |-> req'[w].code, user |-> req'[w].user] \in Table!Wishes,
         UNCHANGED <<rows, link>>, \A v \in Workers \ {w} : pc'[v] = pc[v] /\ req'[v] = req[v]
  PROVE  TableMoves
<1> DEFINE what == [op |-> req'[w].op, code |-> req'[w].code, user |-> req'[w].user]
<1>1. TableStage'[w] = "asked" /\ TableStage[w] = "idle"
  BY StageAt, StageNext DEF Reading
<1>2. TableWish'[w] = what
  BY DEF TableWish
<1>3. UNCHANGED <<TableMade, TableStatus>>
  <2>1. \A v \in Workers : TableMade'[v] = TableMade[v] /\ TableStatus'[v] = TableStatus[v]
    BY DEF TableMade, TableStatus, Concerned, Asked, Created
  <2> QED BY <2>1 DEF TableMade, TableStatus
<1> HIDE DEF what
<1>4. what \in Table!Wishes
  BY DEF what
<1>5. Table!Ask(w)
  BY <1>1, <1>2, <1>3, <1>4, Elsewhere DEF Table!Ask, Table!Go
<1> QED BY <1>5 DEF TableMoves, Table!TableNext

\* A request to shorten arrives.
LEMMA ShortenTable ==
  ASSUME TableInv, NEW w \in Workers, Shorten(w)
  PROVE  Concerned(w)' /\ TableMoves
<1>0. /\ \A v \in Workers \ {w} : pc'[v] = pc[v] /\ req'[v] = req[v]
      /\ UNCHANGED <<rows, link>> /\ pc[w] = "idle" /\ TypeInv /\ Concerned(w)
      /\ pc \in [Workers -> Steps] /\ req \in [Workers -> Requests]
  BY At, OneAtATime DEF Shorten, db, TypeInv, RequestTypes
<1>1. PICK alias \in Codes \cup {NoCode}, u \in Users,
           url \in {"ok", "invalid", "unbound", "scheme"} :
        /\ Goto(w, IF ShortenRefusal(url, Normalise(alias)) = 0 THEN "insert" ELSE "done")
        /\ req' = [req EXCEPT ![w] =
             IF ShortenRefusal(url, Normalise(alias)) = 0
               THEN [Idle EXCEPT !.op = "shorten", !.code = Normalise(alias), !.user = u]
               ELSE [Idle EXCEPT !.status = ShortenRefusal(url, Normalise(alias))]]
  BY Zenon DEF Shorten
<1> DEFINE name == Normalise(alias)
           status == ShortenRefusal(url, name)
<1>2. status \in {0, 400, 500} /\ (status = 0 => name \notin Reserved)
  BY DEF ShortenRefusal
<1>3. name = NoCode \/ (name \in Codes /\ Lower[name] = name)
  BY LinkStoreAssumption DEF Normalise
<1> HIDE DEF name, status
<1>4. CASE status # 0
  <2>1. Goto(w, "done") /\ req' = [req EXCEPT ![w] = [Idle EXCEPT !.status = status]]
    BY <1>1, <1>4 DEF status, name
  <2>a. status \notin Carrying
    BY <1>2 DEF Carrying
  <2>2. Answer(w, status, 0)
    BY <2>1, <2>a, Zenon DEF Answer
  <2> QED BY <1>0, <1>2, <1>4, <2>2, ReadAnswered DEF Reading
<1>5. CASE status = 0
  <2>1. pc'[w] = "insert" /\ req'[w] = [Idle EXCEPT !.op = "shorten", !.code = name, !.user = u]
    BY <1>0, <1>1, <1>5 DEF Goto, status, name
  <2>2. req'[w].op = "shorten" /\ req'[w].code = name /\ req'[w].user = u /\ req'[w].status = 0
    BY <2>1 DEF Idle
  <2>3. Concerned(w)'
    BY <1>2, <1>3, <1>5, <2>1, <2>2 DEF Concerned, Allowed
  <2>4. [op |-> "shorten", code |-> name, user |-> u] \in Table!Wishes
    BY <1>3 DEF Table!Wishes
  <2> QED BY <1>0, <2>1, <2>2, <2>3, <2>4, Asks DEF Asked
<1> QED BY <1>4, <1>5

\* INSERT with an alias creates the link, or is refused because the alias is in use.
LEMMA InsertAliasTable ==
  ASSUME TableInv, NEW w \in Workers, InsertAlias(w)
  PROVE  Concerned(w)' /\ TableMoves
<1>0. /\ \A v \in Workers \ {w} : pc'[v] = pc[v] /\ req'[v] = req[v]
      /\ pc[w] = "insert" /\ req[w].code \in Codes /\ req[w].code # NoCode
      /\ TypeInv /\ Concerned(w) /\ req[w] \in Requests
      /\ req[w].op = "shorten" /\ req[w].user \in Users
      /\ nextId \in Ids /\ ~Committed(nextId)
      /\ pc \in [Workers -> Steps] /\ req \in [Workers -> Requests]
  BY At, OneAtATime DEF InsertAlias, Step, Requests, TypeInv, RequestTypes
<1>1. CASE /\ Commit(nextId, req[w].code, req[w].user) /\ Goto(w, "ttl")
           /\ req' = [req EXCEPT ![w].id = nextId]
  <2>1. Table!Insert(w, nextId)
    BY <1>0, <1>1, CommitInserts
  <2>2. pc'[w] = "ttl" /\ req'[w].id = nextId /\ req'[w].status = 0
    BY <1>0, <1>1 DEF Goto, Requests, Concerned
  <2> QED BY <1>0, <2>1, <2>2, InsertCreates DEF Asked
<1>2. CASE Taken(req[w].code) /\ Answer(w, 400, 0) /\ UNCHANGED <<rows, link, life>>
  <2>1. Table!Tell(w, {400}, 0) /\ Concerned(w)'
    BY <1>0, <1>2, AnswerTold
  <2>2. TableStage[w] = "asked" /\ TableWish[w].op = "shorten" /\ TableWish[w].code = req[w].code
    BY <1>0, WishAt DEF Asked
  <2>3. Table!InUse(TableWish[w].code)
    BY <1>2, <2>2 DEF Taken, Table!InUse
  <2>4. Table!Refuse(w)
    BY <1>2, <2>1, <2>2, <2>3 DEF Table!Refuse
  <2> QED BY <2>1, <2>4 DEF TableMoves, Table!TableNext
<1> QED BY <1>1, <1>2 DEF InsertAlias

\* INSERT without one is seen by nobody.
LEMMA InsertAutoTable ==
  ASSUME TableInv, NEW w \in Workers, InsertAuto(w)
  PROVE  Concerned(w)' /\ TableMoves
<1>0. /\ \A v \in Workers \ {w} : pc'[v] = pc[v] /\ req'[v] = req[v]
      /\ UNCHANGED <<rows, link>> /\ pc[w] = "insert" /\ req[w].code = NoCode
      /\ Concerned(w) /\ req[w] \in Requests
  BY At, OneAtATime DEF InsertAuto, Step
<1>1. /\ pc'[w] = "encode" /\ req'[w].op = req[w].op /\ req'[w].code = req[w].code
      /\ req'[w].user = req[w].user /\ req'[w].status = req[w].status
  BY <1>0 DEF InsertAuto, Goto, TableInv, TypeInv, RequestTypes, Requests
<1>2. Unnoticed(w) /\ Concerned(w)'
  BY <1>0, <1>1 DEF Unnoticed, Concerned, Asked
<1> QED BY <1>0, <1>2, GoesOn

\* UPDATE with the hashid: the link is created then, or the request fails.
LEMMA EncodeIdTable ==
  ASSUME TableInv, NEW w \in Workers, EncodeId(w)
  PROVE  Concerned(w)' /\ TableMoves
<1> DEFINE i == req[w].id
<1>0. /\ \A v \in Workers \ {w} : pc'[v] = pc[v] /\ req'[v] = req[v]
      /\ pc[w] = "encode" /\ req[w].code = NoCode
      /\ TypeInv /\ Concerned(w) /\ req[w] \in Requests /\ req[w].op = "shorten"
      /\ i \in Ids /\ ~Committed(i) /\ Encode[i] \in Codes
      /\ pc \in [Workers -> Steps] /\ req \in [Workers -> Requests]
  BY At, OneAtATime, LinkStoreAssumption DEF EncodeId, Step, TypeInv, RequestTypes, Concerned
<1> HIDE DEF i
<1>1. CASE /\ Commit(i, Encode[i], req[w].user) /\ Goto(w, "ttl")
           /\ req' = [req EXCEPT ![w].code = Encode[i]]
  <2>1. Table!Insert(w, i)
    BY <1>0, <1>1, CommitInserts
  <2>2. pc'[w] = "ttl" /\ req'[w].id = i /\ req'[w].status = 0
    BY <1>0, <1>1 DEF Goto, Requests, Concerned, i
  <2> QED BY <1>0, <2>1, <2>2, InsertCreates DEF Asked
<1>2. CASE Answer(w, 500, 0) /\ UNCHANGED <<rows, link, life>>
  BY <1>0, <1>2, CreationFails DEF Asked
<1> QED BY <1>1, <1>2 DEF EncodeId, i

\* A creation that fails may have created the link.
LEMMA CreateFailsTable ==
  ASSUME TableInv, NEW w \in Workers, CreateFails(w)
  PROVE  Concerned(w)' /\ TableMoves
<1>0. /\ \A v \in Workers \ {w} : pc'[v] = pc[v] /\ req'[v] = req[v]
      /\ pc[w] \in {"insert", "encode"} /\ Answer(w, 500, 0)
      /\ TypeInv /\ Concerned(w) /\ req[w] \in Requests /\ req[w].op = "shorten"
  BY At, OneAtATime DEF CreateFails, Step
<1>1. CASE UNCHANGED <<rows, link>>
  BY <1>0, <1>1, CreationFails DEF Asked
<1>2. CASE /\ pc[w] = "insert" /\ req[w].code # NoCode /\ nextId <= MaxId
           /\ Commit(nextId, req[w].code, req[w].user)
  <2>1. nextId \in Ids /\ ~Committed(nextId) /\ req[w].code \in Codes
    BY <1>0, <1>2, At DEF Requests
  <2>2. Table!Insert(w, nextId)
    BY <1>0, <1>2, <2>1, CommitInserts
  <2> QED BY <1>0, <2>1, <2>2, CreationFails DEF Asked
<1>3. CASE pc[w] = "encode" /\ Commit(req[w].id, Encode[req[w].id], req[w].user)
  <2>1. req[w].id \in Ids /\ ~Committed(req[w].id) /\ Encode[req[w].id] \in Codes
        /\ req[w].code = NoCode
    BY <1>0, <1>3, At, LinkStoreAssumption DEF Concerned
  <2>2. Table!Insert(w, req[w].id)
    BY <1>0, <1>3, <2>1, CommitInserts
  <2> QED BY <1>0, <2>1, <2>2, CreationFails DEF Asked
<1> QED BY <1>1, <1>2, <1>3 DEF CreateFails, db

\* So does one that finds the sequence exhausted.
LEMMA SequenceExhaustedTable ==
  ASSUME TableInv, NEW w \in Workers, SequenceExhausted(w)
  PROVE  Concerned(w)' /\ TableMoves
BY At, OneAtATime, CreationFails DEF SequenceExhausted, Step, Asked, db

\* 201 is answered with the link that was created.
LEMMA CreatedTold ==
  ASSUME TableInv, NEW w \in Workers, pc[w] \in Created, Answer(w, 201, req[w].id), Step(w),
         UNCHANGED <<rows, link>>
  PROVE  Concerned(w)' /\ TableMoves
<1>0. /\ \A v \in Workers \ {w} : pc'[v] = pc[v] /\ req'[v] = req[v]
      /\ TypeInv
  BY At, OneAtATime
<1>1. Table!Tell(w, {201}, req[w].id) /\ Concerned(w)'
  BY <1>0, AnswerTold
<1>2. TableStage[w] = "created" /\ TableMade[w] = req[w].id
  BY StageAt DEF TableMade
<1>3. Table!Confirm(w)
  BY <1>1, <1>2 DEF Table!Confirm
<1> QED BY <1>1, <1>3 DEF TableMoves, Table!TableNext

\* The clock is read, or the answer given when there is nothing to cache.
LEMMA CreateTTLTable ==
  ASSUME TableInv, NEW w \in Workers, CreateTTL(w)
  PROVE  Concerned(w)' /\ TableMoves
<1>0. /\ \A v \in Workers \ {w} : pc'[v] = pc[v] /\ req'[v] = req[v]
      /\ UNCHANGED <<rows, link>> /\ pc[w] = "ttl" /\ TypeInv /\ Concerned(w) /\ Step(w)
  BY At, OneAtATime DEF CreateTTL, Step, db
<1>1. CASE HoldTTL(w, "publish")
  <2>1. /\ pc'[w] = "publish" /\ req'[w].id = req[w].id /\ req'[w].status = req[w].status
    <3>1. req'[w] = [req[w] EXCEPT !.ttl = CacheTTL(req[w].id), !.lag = 0]
      BY <1>0, <1>1 DEF HoldTTL, TypeInv, RequestTypes
    <3> QED BY <1>0, <1>1, <3>1, HoldEffect DEF TypeInv, RequestTypes, Requests
  <2>2. Unnoticed(w) /\ Concerned(w)'
    BY <1>0, <2>1 DEF Unnoticed, Concerned, Created
  <2> QED BY <1>0, <2>2, GoesOn
<1>2. CASE Answer(w, 201, req[w].id)
  BY <1>0, <1>2, CreatedTold DEF Created
<1> QED BY <1>1, <1>2 DEF CreateTTL

\* The new link is cached, or not, and the answer given.
LEMMA PublishTable ==
  ASSUME TableInv, NEW w \in Workers, Publish(w)
  PROVE  Concerned(w)' /\ TableMoves
BY CreatedTold DEF Publish, Step, Created, db

----------------------------------------------------------------------------
\* Lookups

\* A lookup arrives.
LEMMA LookupTable ==
  ASSUME TableInv, NEW w \in Workers, Lookup(w)
  PROVE  Concerned(w)' /\ TableMoves
<1>0. /\ \A v \in Workers \ {w} : pc'[v] = pc[v] /\ req'[v] = req[v]
      /\ UNCHANGED <<rows, link>> /\ pc[w] = "idle" /\ TypeInv /\ Concerned(w)
  BY At, OneAtATime DEF Lookup, db
<1>1. pc'[w] \in {"get", "select"} /\ req'[w].status = 0
  BY <1>0 DEF Lookup, Goto, TypeInv, RequestTypes, Idle
<1> QED BY <1>0, <1>1, ReadGoesOn DEF Reading, Concerned

\* GET of a key.
LEMMA CacheGetTable ==
  ASSUME TableInv, NEW w \in Workers, CacheGet(w)
  PROVE  Concerned(w)' /\ TableMoves
<1>0. /\ \A v \in Workers \ {w} : pc'[v] = pc[v] /\ req'[v] = req[v]
      /\ UNCHANGED <<rows, link>> /\ pc[w] = "get" /\ TypeInv /\ Concerned(w)
  BY At, OneAtATime DEF CacheGet, Step, db
<1>1. CASE Found(w, cache[req[w].code].id)
  BY <1>0, <1>1, ReadFound DEF Reading
<1>2. CASE Goto(w, "select") /\ UNCHANGED req
  <2>1. pc'[w] = "select" /\ req'[w].status = req[w].status
    BY <1>0, <1>2 DEF Goto, TypeInv, RequestTypes
  <2> QED BY <1>0, <2>1, ReadGoesOn DEF Reading
<1> QED BY <1>1, <1>2 DEF CacheGet

\* SELECT.
LEMMA SelectTable ==
  ASSUME TableInv, NEW w \in Workers, Select(w)
  PROVE  Concerned(w)' /\ TableMoves
<1>0. /\ \A v \in Workers \ {w} : pc'[v] = pc[v] /\ req'[v] = req[v]
      /\ UNCHANGED <<rows, link>> /\ pc[w] = "select" /\ TypeInv /\ Concerned(w)
  BY At, OneAtATime DEF Select, Step, db
<1>1. ASSUME NEW i \in rows, Goto(w, "check"), req' = [req EXCEPT ![w].id = i]
      PROVE  Concerned(w)' /\ TableMoves
  <2>1. pc'[w] = "check" /\ req'[w].status = req[w].status
    BY <1>0, <1>1 DEF Goto, TypeInv, RequestTypes, Requests
  <2> QED BY <1>0, <2>1, ReadGoesOn DEF Reading
<1>2. CASE Missed(w, 404) \/ Missed(w, 500)
  BY <1>0, <1>2, ReadMissed DEF Reading
<1> QED BY <1>1, <1>2 DEF Select

\* The row that was read is checked.
LEMMA CheckTable ==
  ASSUME TableInv, NEW w \in Workers, Check(w)
  PROVE  Concerned(w)' /\ TableMoves
<1>0. /\ \A v \in Workers \ {w} : pc'[v] = pc[v] /\ req'[v] = req[v]
      /\ UNCHANGED <<rows, link>> /\ pc[w] = "check" /\ TypeInv /\ Concerned(w)
  BY At, OneAtATime DEF Check, Step, db
<1>1. CASE Missed(w, ExpiredStatus(req[w].op))
  BY <1>0, <1>1, ReadMissed DEF Reading, ExpiredStatus
<1>2. CASE HoldTTL(w, "backfill")
  <2>1. pc'[w] = "backfill" /\ req'[w].status = req[w].status
    <3>1. req'[w] = [req[w] EXCEPT !.ttl = CacheTTL(req[w].id), !.lag = 0]
      BY <1>0, <1>2 DEF HoldTTL, TypeInv, RequestTypes
    <3> QED BY <1>0, <1>2, <3>1, HoldEffect DEF TypeInv, RequestTypes, Requests
  <2> QED BY <1>0, <2>1, ReadGoesOn DEF Reading
<1>3. CASE Found(w, req[w].id)
  BY <1>0, <1>3, ReadFound DEF Reading
<1> QED BY <1>1, <1>2, <1>3 DEF Check

\* The row is cached, or not.
LEMMA BackfillTable ==
  ASSUME TableInv, NEW w \in Workers, Backfill(w)
  PROVE  Concerned(w)' /\ TableMoves
BY At, OneAtATime, ReadFound DEF Backfill, Step, Reading, db

----------------------------------------------------------------------------
\* Requests to delete

\* A deletion arrives.
LEMMA DeleteTable ==
  ASSUME TableInv, NEW w \in Workers, Delete(w)
  PROVE  Concerned(w)' /\ TableMoves
<1>0. /\ \A v \in Workers \ {w} : pc'[v] = pc[v] /\ req'[v] = req[v]
      /\ UNCHANGED <<rows, link>> /\ pc[w] = "idle" /\ Concerned(w)
      /\ pc \in [Workers -> Steps] /\ req \in [Workers -> Requests]
  BY At, OneAtATime DEF Delete, db, TypeInv, RequestTypes
<1>1. PICK c \in Codes, u \in Users :
        req' = [req EXCEPT ![w] = [Idle EXCEPT !.op = "delete", !.code = c, !.user = u]]
  BY DEF Delete
<1>2. /\ pc'[w] = "invalidate" /\ req'[w].op = "delete" /\ req'[w].code = c
      /\ req'[w].user = u /\ req'[w].status = 0
  BY <1>0, <1>1 DEF Delete, Goto, Idle
<1>3. Concerned(w)'
  BY <1>2 DEF Concerned
<1>4. [op |-> "delete", code |-> c, user |-> u] \in Table!Wishes
  BY DEF Table!Wishes
<1> QED BY <1>0, <1>2, <1>3, <1>4, Asks DEF Asked

\* DEL before the row goes.
LEMMA InvalidateTable ==
  ASSUME TableInv, NEW w \in Workers, Invalidate(w)
  PROVE  Concerned(w)' /\ TableMoves
<1>0. /\ \A v \in Workers \ {w} : pc'[v] = pc[v] /\ req'[v] = req[v]
      /\ UNCHANGED <<rows, link, req>> /\ pc[w] = "invalidate" /\ pc'[w] = "remove" /\ Concerned(w)
  BY At, OneAtATime DEF Invalidate, Step, Goto, db, TypeInv, RequestTypes
<1>1. Unnoticed(w) /\ Concerned(w)'
  BY <1>0 DEF Unnoticed, Concerned, Asked
<1> QED BY <1>0, <1>1, GoesOn

\* What a deletion deletes is what the table erases.
LEMMA Erases ==
  ASSUME TypeInv, NEW w \in Workers, Concerned(w), pc[w] = "remove",
         link' = link, rows' = {i \in rows : ~Deletable(w, i)}
  PROVE  /\ rows' # rows => Table!Erase(w)
         /\ rows' = rows => \A i \in rows : ~Table!OwnedAs(i, TableWish[w])
<1>1. /\ TableStage[w] = "asked" /\ TableWish[w].op = "delete"
      /\ TableWish[w].code = req[w].code /\ TableWish[w].user = req[w].user
  BY WishAt DEF Asked, Concerned
<1>2. \A i : Table!OwnedAs(i, TableWish[w]) <=> Deletable(w, i)
  BY <1>1 DEF Table!OwnedAs, Deletable
<1>3. rows' = {i \in rows : ~Table!OwnedAs(i, TableWish[w])}
  BY <1>2
<1> QED BY <1>1, <1>3 DEF Table!Erase

\* DELETE takes the link, or is refused because it is not the user's.
LEMMA RemoveTable ==
  ASSUME TableInv, NEW w \in Workers, Remove(w)
  PROVE  Concerned(w)' /\ TableMoves
<1>0. /\ \A v \in Workers \ {w} : pc'[v] = pc[v] /\ req'[v] = req[v]
      /\ link' = link /\ rows' = {i \in rows : ~Deletable(w, i)} /\ pc[w] = "remove"
      /\ TypeInv /\ Concerned(w) /\ pc \in [Workers -> Steps]
      /\ TableStage[w] = "asked" /\ TableWish[w].op = "delete"
      /\ TableMade[w] = 0 /\ TableStatus[w] = 0
  BY At, OneAtATime, WishAt DEF Remove, Step, Asked, TypeInv, RequestTypes, Concerned
<1>1. CASE rows' # rows /\ Goto(w, "purge") /\ UNCHANGED req
  <2>1. pc'[w] = "purge"
    BY <1>0, <1>1 DEF Goto
  <2>2. Concerned(w)'
    BY <1>0, <1>1, <2>1 DEF Concerned
  <2>3. TableStage'[w] = "deleted" /\ TableWish'[w] = Table!NoWish
    BY <2>1, StageNext DEF TableWish, Asked, Table!NoWish
  <2>4. UNCHANGED <<TableMade, TableStatus>>
    <3>1. \A v \in Workers : TableMade'[v] = TableMade[v] /\ TableStatus'[v] = TableStatus[v]
      BY <1>0, <1>1, <2>1 DEF TableMade, TableStatus, Created
    <3> QED BY <3>1 DEF TableMade, TableStatus
  <2>5. Table!Erase(w)
    BY <1>0, <1>1, Erases
  <2>6. Table!Delete(w)
    BY <1>0, <2>3, <2>4, <2>5, Elsewhere DEF Table!Delete, Table!Go, Table!Settle
  <2> QED BY <2>2, <2>6 DEF TableMoves, Table!TableNext
<1>2. CASE rows' = rows /\ Answer(w, 404, 0)
  <2>1. Table!Tell(w, {404}, 0) /\ Concerned(w)'
    BY <1>0, <1>2, AnswerTold
  <2>2. \A i \in rows : ~Table!OwnedAs(i, TableWish[w])
    BY <1>0, <1>2, Erases
  <2>3. Table!Refuse(w)
    BY <1>0, <1>2, <2>1, <2>2 DEF Table!Refuse
  <2> QED BY <2>1, <2>3 DEF TableMoves, Table!TableNext
<1> QED BY <1>1, <1>2 DEF Remove

\* A DELETE that fails may have taken it.
LEMMA RemoveFailsTable ==
  ASSUME TableInv, NEW w \in Workers, RemoveFails(w)
  PROVE  Concerned(w)' /\ TableMoves
<1>0. /\ \A v \in Workers \ {w} : pc'[v] = pc[v] /\ req'[v] = req[v]
      /\ link' = link /\ pc[w] = "remove" /\ Answer(w, 500, 0) /\ TypeInv /\ Concerned(w)
      /\ rows' = rows \/ rows' = {i \in rows : ~Deletable(w, i)}
  BY At, OneAtATime DEF RemoveFails, Step
<1>1. rows' = rows \/ Table!Erase(w)
  BY <1>0, Erases
<1> QED BY <1>0, <1>1, CreationFails DEF Asked

\* 204 is answered when the key is gone, or not.
LEMMA PurgeTable ==
  ASSUME TableInv, NEW w \in Workers, Purge(w)
  PROVE  Concerned(w)' /\ TableMoves
<1>0. /\ \A v \in Workers \ {w} : pc'[v] = pc[v] /\ req'[v] = req[v]
      /\ UNCHANGED <<rows, link>> /\ pc[w] = "purge" /\ Answer(w, 204, 0) /\ TypeInv
  BY At, OneAtATime DEF Purge, Step, db
<1>1. Table!Tell(w, {204}, 0) /\ Concerned(w)'
  BY <1>0, AnswerTold
<1>2. TableStage[w] = "deleted"
  BY <1>0, StageAt
<1>3. Table!Confirm(w)
  BY <1>0, <1>1, <1>2 DEF Table!Confirm
<1> QED BY <1>1, <1>3 DEF TableMoves, Table!TableNext

\* The goroutine ends.
LEMMA ReplyTable ==
  ASSUME TableInv, NEW w \in Workers, Reply(w)
  PROVE  Concerned(w)' /\ TableMoves
<1>0. /\ \A v \in Workers \ {w} : pc'[v] = pc[v] /\ req'[v] = req[v]
      /\ UNCHANGED <<rows, link>> /\ pc[w] = "done" /\ pc'[w] = "idle" /\ req'[w] = Idle
  BY At, OneAtATime DEF Reply, Step, Goto, db, TableInv, TypeInv, RequestTypes
<1>1. Concerned(w)'
  BY <1>0 DEF Concerned, Idle
<1>2. /\ TableStage[w] = "told" /\ TableStage'[w] = "idle" /\ TableWish'[w] = Table!NoWish
      /\ TableMade'[w] = 0 /\ TableStatus'[w] = 0
  BY <1>0, StageAt, StageNext
     DEF Idle, TableWish, TableMade, TableStatus, Asked, Created, Reading, Table!NoWish
<1>3. Table!Leave(w)
  BY <1>0, <1>2, Elsewhere DEF Table!Leave, Table!Go, Table!Settle
<1> QED BY <1>1, <1>3 DEF TableMoves, Table!TableNext

----------------------------------------------------------------------------
\* The invariant holds, and every step is one of the table

\* What goes on without a request moving.
LEMMA BackgroundTable ==
  ASSUME TableInv,
         \/ DeleteExpired \/ (\E c \in Codes : Evict(c)) \/ (\E w \in Workers : SetLost(w))
         \/ Tick \/ UNCHANGED vars
  PROVE  (\A w \in Workers : Concerned(w)') /\ TableMoves
<1>0. \A w \in Workers : Concerned(w)
  BY DEF TableInv
<1>1. CASE DeleteExpired
  <2>1. UNCHANGED <<link, pc, req>> /\ rows' = {i \in rows : ~Expired(i)}
    BY <1>1 DEF DeleteExpired, Cleanable
  <2>2. \A w \in Workers : Concerned(w)'
    BY <1>0, <2>1 DEF Concerned, Allowed
  <2> DEFINE gone == {i \in rows : Expired(i)}
  <2>3. gone \in SUBSET {i \in rows : link[i].timed} /\ rows' = rows \ gone
    BY <2>1 DEF Expired
  <2>4. UNCHANGED <<TableStage, TableWish, TableMade, TableStatus>>
    BY <2>1 DEF TableStage, TableWish, TableMade, TableStatus
  <2>5. Table!Expire
    BY <2>1, <2>3, <2>4 DEF Table!Expire
  <2> QED BY <2>2, <2>5 DEF TableMoves, Table!TableNext
<1>2. CASE (\E c \in Codes : Evict(c)) \/ (\E w \in Workers : SetLost(w)) \/ UNCHANGED vars
  <2>1. UNCHANGED <<rows, link, pc, req>>
    BY <1>2 DEF Evict, SetLost, vars, db
  <2> QED BY <1>0, <2>1, Stutters DEF Concerned, Allowed, Unnoticed
<1>3. CASE Tick
  <2>1. UNCHANGED <<rows, link, pc>>
    BY <1>3 DEF Tick
  <2>2. ASSUME NEW w \in Workers
        PROVE  /\ req'[w].op = req[w].op /\ req'[w].code = req[w].code
               /\ req'[w].user = req[w].user /\ req'[w].id = req[w].id
               /\ req'[w].status = req[w].status
    <3>1. req'[w] = (IF pc[w] \in Storing THEN [req[w] EXCEPT !.lag = @ + 1] ELSE req[w])
          /\ req[w] \in Requests
      BY <1>3 DEF Tick, TableInv, TypeInv, RequestTypes
    <3> QED BY <3>1 DEF Requests
  <2>3. \A w \in Workers : Concerned(w)'
    BY <1>0, <2>1, <2>2, ConcernedKept
  <2>4. \A w \in Workers : Unnoticed(w)
    BY <2>1, <2>2 DEF Unnoticed
  <2> QED BY <2>1, <2>3, <2>4, Stutters
<1> QED BY <1>1, <1>2, <1>3

\* Every step is one of the table, and leaves its requests concerned.
LEMMA NextIsTable ==
  ASSUME TableInv, [Next]_vars
  PROVE  (\A w \in Workers : Concerned(w)') /\ TableMoves
<1>1. ASSUME NEW w \in Workers, Shorten(w) \/ Lookup(w) \/ Delete(w) \/ Step(w)
      PROVE  (\A v \in Workers : Concerned(v)') /\ TableMoves
  <2>1. Concerned(w)' /\ TableMoves
    BY <1>1, ShortenTable, InsertAliasTable, InsertAutoTable, EncodeIdTable, CreateFailsTable,
       SequenceExhaustedTable, CreateTTLTable, PublishTable, LookupTable, CacheGetTable,
       SelectTable, CheckTable, BackfillTable, DeleteTable, InvalidateTable, RemoveTable,
       RemoveFailsTable, PurgeTable, ReplyTable DEF Step
  <2>2. \A v \in Workers \ {w} : Concerned(v)'
    BY <1>1, At, OneAtATime, ConcernedKept
  <2> QED BY <2>1, <2>2
<1> QED BY <1>1, BackgroundTable DEF Next

\* A commit under a hashid or an alias that was let through.
LEMMA CommitAlias ==
  ASSUME TypeInv, AliasRules, NEW i \in Ids, NEW c, NEW u, Commit(i, c, u),
         c = Encode[i] \/ Allowed(c)
  PROVE  AliasRules'
<1>1. PICK timed \in BOOLEAN :
        link' = [link EXCEPT ![i] = [code |-> c, user |-> u, timed |-> timed]]
  BY DEF Commit
<1>2. link'[i].code = c /\ \A j \in Ids \ {i} : link'[j] = link[j]
  BY <1>1 DEF TypeInv, DatabaseTypes
<1> QED BY <1>2 DEF AliasRules, Allowed, Committed

\* Only commits give codes to links.
LEMMA AliasNext ==
  ASSUME TableInv, [Next]_vars
  PROVE  AliasRules'
<1>0. AliasRules /\ TypeInv
  BY DEF TableInv
<1>1. ASSUME link' = link PROVE AliasRules'
  BY <1>0, <1>1 DEF AliasRules, Committed
<1>2. ASSUME NEW w \in Workers, InsertAlias(w) \/ EncodeId(w) \/ CreateFails(w)
      PROVE  AliasRules'
  <2>1. ASSUME pc[w] = "insert", req[w].code # NoCode, nextId <= MaxId,
               Commit(nextId, req[w].code, req[w].user)
        PROVE  AliasRules'
    <3>1. nextId \in Ids /\ Allowed(req[w].code)
      BY <2>1, At DEF Concerned
    <3> QED BY <1>0, <2>1, <3>1, CommitAlias
  <2>2. ASSUME pc[w] = "encode", Commit(req[w].id, Encode[req[w].id], req[w].user)
        PROVE  AliasRules'
    <3>1. req[w].id \in Ids
      BY <2>2, At
    <3> QED BY <1>0, <2>2, <3>1, CommitAlias
  <2> QED BY <1>1, <1>2, <2>1, <2>2 DEF InsertAlias, EncodeId, CreateFails, db
<1>3. ASSUME NEW w \in Workers,
             Shorten(w) \/ Lookup(w) \/ Delete(w) \/ InsertAuto(w) \/ SequenceExhausted(w)
               \/ CreateTTL(w) \/ Publish(w) \/ CacheGet(w) \/ Select(w) \/ Check(w)
               \/ Backfill(w) \/ Invalidate(w) \/ Remove(w) \/ RemoveFails(w) \/ Purge(w)
               \/ Reply(w)
      PROVE  link' = link
  BY <1>3 DEF Shorten, Lookup, Delete, InsertAuto, SequenceExhausted, CreateTTL, Publish,
              CacheGet, Select, Check, Backfill, Invalidate, Remove, RemoveFails, Purge,
              Reply, db
<1>4. CASE \/ DeleteExpired \/ (\E c \in Codes : Evict(c)) \/ (\E w \in Workers : SetLost(w))
           \/ Tick \/ UNCHANGED vars
  BY <1>1, <1>4 DEF DeleteExpired, Evict, SetLost, Tick, vars, db
<1> QED BY <1>1, <1>2, <1>3, <1>4 DEF Next, Step

\* The invariant holds in every reachable state.
THEOREM TableInvariance == Spec => []TableInv
<1> DEFINE Base == TypeInv /\ Allocation /\ CodeInv
           Rest == AliasRules /\ \A w \in Workers : Concerned(w)
<1>1. Init => Rest
  BY DEF Init, AliasRules, Committed, Concerned, Idle
<1>2. Base /\ Rest <=> TableInv
  BY DEF TableInv
<1>3. TableInv /\ [Next]_vars => Rest'
  BY AliasNext, NextIsTable
<1>4. Spec => []Base
  BY CodeInvariant
<1> HIDE DEF Base, Rest
<1> QED BY <1>1, <1>2, <1>3, <1>4, PTL DEF Spec

----------------------------------------------------------------------------
\* Theorems

\* The code of a link is the hashid of its id, or an alias in lower case that is not reserved,
\* through whichever transaction it came.
THEOREM CodesObeyRules == Spec => []AliasRules
<1>1. TableInv => AliasRules
  BY DEF TableInv
<1> QED BY <1>1, TableInvariance, PTL

\* Transactions, cache and clean-up together are a table of links in which requests take
\* effect at one moment each, and the status codes tell the truth about it.
THEOREM StoreIsTable == Spec => ImplementsLinkTable
<1>1. Init => Table!TableInit
  BY DEF Init, Idle, Blank, Asked, Created, TableStage, TableWish, TableMade, TableStatus,
         Table!TableInit, Table!NoLink, Table!NoWish, Table!Ids, Ids
<1>2. TableInv /\ [Next]_vars => [Table!TableNext]_(Table!tableVars)
  BY NextIsTable DEF TableMoves
<1> QED BY <1>1, <1>2, TableInvariance, PTL DEF Spec, ImplementsLinkTable, Table!TableSpec

\* A row goes because it has expired or because its owner asks, whatever else runs.
THEOREM OwnersDelete == Spec => OwnerOnlyDelete
<1> DEFINE Fair(i) == \/ Expired(i)
                      \/ \E w \in Workers : /\ pc[w] = "remove" /\ req[w].op = "delete"
                                           /\ link[i].code = req[w].code
                                           /\ link[i].user = req[w].user
<1>1. TableInv /\ [Next]_vars => \A i \in rows \ rows' : Fair(i)
  <2> SUFFICES ASSUME TableInv, [Next]_vars, NEW i \in rows \ rows' PROVE Fair(i)
    OBVIOUS
  <2>1. ASSUME NEW w \in Workers, Remove(w) \/ RemoveFails(w) PROVE Fair(i)
    <3>1. pc[w] = "remove" /\ req[w].op = "delete"
      BY <2>1, At DEF Remove, RemoveFails, Concerned
    <3>2. Deletable(w, i)
      BY <2>1 DEF Remove, RemoveFails
    <3> QED BY <3>1, <3>2 DEF Deletable
  <2>2. CASE DeleteExpired
    BY <2>2 DEF DeleteExpired, Cleanable
  <2>3. ASSUME NEW w \in Workers,
               Shorten(w) \/ Lookup(w) \/ Delete(w) \/ InsertAlias(w) \/ InsertAuto(w)
                 \/ EncodeId(w) \/ CreateFails(w) \/ SequenceExhausted(w) \/ CreateTTL(w)
                 \/ Publish(w) \/ CacheGet(w) \/ Select(w) \/ Check(w) \/ Backfill(w)
                 \/ Invalidate(w) \/ Purge(w) \/ Reply(w)
        PROVE  i \in rows'
    BY <2>3 DEF Shorten, Lookup, Delete, InsertAlias, InsertAuto, EncodeId, CreateFails, Commit,
       SequenceExhausted, CreateTTL, Publish, CacheGet, Select, Check, Backfill, Invalidate,
       Purge, Reply, db
  <2>4. CASE \/ (\E c \in Codes : Evict(c)) \/ (\E w \in Workers : SetLost(w))
             \/ Tick \/ UNCHANGED vars
    BY <2>4 DEF Evict, SetLost, Tick, vars, db
  <2> QED BY <2>1, <2>2, <2>3, <2>4 DEF Next, Step
<1> QED BY <1>1, TableInvariance, PTL DEF Spec, OwnerOnlyDelete

\* Where a request may be after a step of its own with an id: in a transaction with the id just
\* drawn, or with a row that it has read, now or before.
LEMMA NewIds ==
  ASSUME TypeInv, NEW w \in Workers, Shorten(w) \/ Lookup(w) \/ Delete(w) \/ Step(w)
  PROVE  /\ pc'[w] = "encode" => req'[w].id = nextId
         /\ pc'[w] \in {"check", "backfill"} =>
              req'[w].id \in rows \/ (pc[w] = "check" /\ req'[w].id = req[w].id)
<1>0. pc \in [Workers -> Steps] /\ req \in [Workers -> Requests] /\ RequestTypes
      /\ req[w] \in Requests
  BY DEF TypeInv, RequestTypes
<1>1. ASSUME NEW s, NEW i, Answer(w, s, i) PROVE pc'[w] = "done"
  BY <1>0, <1>1, AnswerEffect
<1>2. ASSUME NEW i, Found(w, i) PROVE pc'[w] \in {"get", "done"}
  BY <1>0, <1>1, <1>2, RedirectEffect DEF Found
<1>3. CASE Shorten(w)
  <2>1. pc'[w] \in {"insert", "done"}
    <3>1. PICK alias \in Codes \cup {NoCode}, url \in {"ok", "invalid", "unbound", "scheme"} :
            Goto(w, IF ShortenRefusal(url, Normalise(alias)) = 0 THEN "insert" ELSE "done")
      BY <1>3, Zenon DEF Shorten
    <3> QED BY <1>0, <3>1 DEF Goto
  <2> QED BY <2>1
<1>4. CASE Lookup(w) \/ Delete(w) \/ Reply(w) \/ Invalidate(w)
  <2>1. pc'[w] \in {"select", "get", "invalidate", "idle", "remove"}
    BY <1>0, <1>4 DEF Lookup, Delete, Reply, Invalidate, Goto
  <2> QED BY <2>1
<1>5. CASE InsertAuto(w)
  BY <1>0, <1>5 DEF InsertAuto, Goto, Requests
<1>6. CASE \/ InsertAlias(w) \/ EncodeId(w) \/ CreateFails(w) \/ SequenceExhausted(w)
           \/ CreateTTL(w) \/ Publish(w) \/ Remove(w) \/ RemoveFails(w) \/ Purge(w)
  <2>1. pc'[w] \in {"ttl", "publish", "purge", "done"}
    BY <1>0, <1>1, <1>6 DEF InsertAlias, EncodeId, CreateFails, SequenceExhausted, CreateTTL,
       HoldTTL, Publish, Remove, RemoveFails, Purge, Goto
  <2> QED BY <2>1
<1>7. CASE CacheGet(w) \/ Backfill(w)
  <2>1. pc'[w] \in {"get", "select", "done"}
    BY <1>0, <1>2, <1>7 DEF CacheGet, Backfill, Goto
  <2> QED BY <2>1
<1>8. CASE Select(w)
  BY <1>0, <1>1, <1>8 DEF Select, Missed, Goto, Requests
<1>9. CASE Check(w)
  <2>1. CASE HoldTTL(w, "backfill")
    BY <1>0, <1>9, <2>1, HoldEffect DEF Check
  <2>2. CASE pc'[w] \in {"get", "done"}
    BY <2>2
  <2> QED BY <1>1, <1>2, <1>9, <2>1, <2>2 DEF Check, Missed
<1> QED BY <1>3, <1>4, <1>5, <1>6, <1>7, <1>8, <1>9 DEF Step

\* The sequence only rises, and rows are added with the id just drawn or one in a transaction.
LEMMA NewRows ==
  ASSUME TypeInv, [Next]_vars
  PROVE  /\ nextId' \in {nextId, nextId + 1}
         /\ \A i \in rows' \ rows :
              i = nextId \/ \E w \in Workers : pc[w] = "encode" /\ req[w].id = i
<1>1. ASSUME NEW w \in Workers, InsertAlias(w) \/ EncodeId(w) \/ CreateFails(w)
      PROVE  /\ nextId' \in {nextId, nextId + 1}
             /\ \/ rows' = rows \/ rows' = rows \cup {nextId}
                \/ pc[w] = "encode" /\ rows' = rows \cup {req[w].id}
  BY <1>1 DEF InsertAlias, EncodeId, CreateFails, Commit, db
<1>2. ASSUME NEW w \in Workers,
             Shorten(w) \/ Lookup(w) \/ Delete(w) \/ InsertAuto(w) \/ SequenceExhausted(w)
               \/ CreateTTL(w) \/ Publish(w) \/ CacheGet(w) \/ Select(w) \/ Check(w)
               \/ Backfill(w) \/ Invalidate(w) \/ Remove(w) \/ RemoveFails(w) \/ Purge(w)
               \/ Reply(w)
      PROVE  nextId' \in {nextId, nextId + 1} /\ rows' \subseteq rows
  BY <1>2 DEF Shorten, Lookup, Delete, InsertAuto, SequenceExhausted, CreateTTL, Publish,
              CacheGet, Select, Check, Backfill, Invalidate, Remove, RemoveFails, Purge,
              Reply, db
<1>3. CASE \/ DeleteExpired \/ (\E c \in Codes : Evict(c)) \/ (\E w \in Workers : SetLost(w))
           \/ Tick \/ UNCHANGED vars
  BY <1>3 DEF DeleteExpired, Evict, SetLost, Tick, vars, db
<1> QED BY <1>1, <1>2, <1>3 DEF Next, Step

\* A key that a lookup can read was readable before, or is stored by a lookup.
LEMMA NewKeys ==
  ASSUME TypeInv, [Next]_vars, NEW c \in Codes, cache'[c].kind = "json"
  PROVE  \/ cache[c].kind = "json" /\ cache[c].id = cache'[c].id
         \/ \E w \in Workers : pc[w] = "backfill" /\ req[w].id = cache'[c].id
<1>0. cache \in [Codes -> Entries]
  BY DEF TypeInv, CacheTypes
<1>1. ASSUME NEW w \in Workers, pc[w] \in Storing, Set(w)
      PROVE  cache'[c] = cache[c] \/ (pc[w] = "backfill" /\ req[w].id = cache'[c].id)
  <2>1. cache'[c] = cache[c] \/ cache'[c] = Stored(w)
    BY <1>0, <1>1 DEF Set, CacheKey
  <2>2. Stored(w).id = req[w].id /\ (pc[w] = "publish" => Stored(w).kind = "raw")
    BY DEF Stored
  <2> QED BY <1>1, <2>1, <2>2 DEF Storing
<1>2. ASSUME NEW w \in Workers, Publish(w) \/ Backfill(w) \/ SetLost(w)
      PROVE  cache'[c] = cache[c] \/ (pc[w] = "backfill" /\ req[w].id = cache'[c].id)
  BY <1>1, <1>2 DEF Publish, Backfill, SetLost, Storing
<1>3. ASSUME NEW w \in Workers, Invalidate(w) \/ Purge(w) PROVE cache'[c] = cache[c]
  <2>1. cache'[c] = cache[c] \/ cache'[c] = Empty
    BY <1>0, <1>3 DEF Invalidate, Purge
  <2> QED BY <2>1 DEF Empty
<1>4. ASSUME NEW d \in Codes, Evict(d) PROVE cache'[c] = cache[c]
  <2>1. cache'[c] = cache[c] \/ cache'[c] = Empty
    BY <1>0, <1>4 DEF Evict
  <2> QED BY <2>1 DEF Empty
<1>5. CASE Tick
  <2>1. cache'[c] = Aged(cache[c]) /\ cache[c] \in Entries
    BY <1>0, <1>5 DEF Tick
  <2>2. cache'[c] = [cache[c] EXCEPT !.ttl = @ - 1]
    BY <2>1 DEF Aged, Empty
  <2> QED BY <2>1, <2>2 DEF Entries, Empty
<1>6. ASSUME NEW w \in Workers,
             Shorten(w) \/ Lookup(w) \/ Delete(w) \/ InsertAlias(w) \/ InsertAuto(w)
               \/ EncodeId(w) \/ CreateFails(w) \/ SequenceExhausted(w) \/ CreateTTL(w)
               \/ CacheGet(w) \/ Select(w) \/ Check(w) \/ Remove(w) \/ RemoveFails(w) \/ Reply(w)
      PROVE  cache' = cache
  BY <1>6 DEF Shorten, Lookup, Delete, InsertAlias, InsertAuto, EncodeId, CreateFails,
     SequenceExhausted, CreateTTL, CacheGet, Select, Check, Remove, RemoveFails, Reply
<1>7. CASE DeleteExpired \/ UNCHANGED vars
  BY <1>7 DEF DeleteExpired, vars
<1>8. ASSUME NEW w \in Workers, Shorten(w) \/ Lookup(w) \/ Delete(w) \/ SetLost(w) \/ Step(w)
      PROVE  cache'[c] = cache[c] \/ (pc[w] = "backfill" /\ req[w].id = cache'[c].id)
  BY <1>2, <1>3, <1>6, <1>8 DEF Step
<1>9. CASE \E w \in Workers : Shorten(w) \/ Lookup(w) \/ Delete(w) \/ SetLost(w) \/ Step(w)
  BY <1>8, <1>9
<1> QED BY <1>4, <1>5, <1>7, <1>9 DEF Next

\* A link that is out of reach stays so: no lookup finds a copy, and no transaction its id.
LEMMA StaysGone ==
  ASSUME TypeInv, [Next]_vars, NEW i \in Ids, Dead(i), ~Reachable(i)
  PROVE  (Dead(i) /\ ~Reachable(i))'
<1>0. i \in Nat /\ nextId \in Nat /\ i < nextId /\ i \notin rows
      /\ pc \in [Workers -> Steps] /\ req \in [Workers -> Requests]
  BY LinkStoreAssumption DEF TypeInv, DatabaseTypes, RequestTypes, Ids, Dead
<1>1. i < nextId' /\ i \notin rows'
  BY <1>0, NewRows DEF Dead
<1>2. ASSUME NEW w \in Workers,
             \/ pc'[w] = pc[w] /\ req'[w].id = req[w].id
             \/ Shorten(w) \/ Lookup(w) \/ Delete(w) \/ Step(w)
      PROVE  /\ pc'[w] = "encode" => req'[w].id # i
             /\ pc'[w] \in {"check", "backfill"} => req'[w].id # i
  <2>1. CASE pc'[w] = pc[w] /\ req'[w].id = req[w].id
    BY <2>1 DEF Dead, Reachable
  <2>2. CASE Shorten(w) \/ Lookup(w) \/ Delete(w) \/ Step(w)
    BY <1>0, <2>2, NewIds DEF Reachable
  <2> QED BY <1>2, <2>1, <2>2
<1>3. ASSUME NEW w \in Workers
      PROVE  \/ pc'[w] = pc[w] /\ req'[w].id = req[w].id
             \/ Shorten(w) \/ Lookup(w) \/ Delete(w) \/ Step(w)
  <2>1. CASE \E v \in Workers : Shorten(v) \/ Lookup(v) \/ Delete(v) \/ Step(v)
    BY <2>1, OneAtATime
  <2>2. CASE Tick
    <3>1. req'[w] = (IF pc[w] \in Storing THEN [req[w] EXCEPT !.lag = @ + 1] ELSE req[w])
          /\ req[w] \in Requests
      BY <1>0, <2>2 DEF Tick
    <3> QED BY <2>2, <3>1 DEF Tick, Requests
  <2>3. CASE \/ DeleteExpired \/ (\E c \in Codes : Evict(c)) \/ (\E v \in Workers : SetLost(v))
             \/ UNCHANGED vars
    BY <2>3 DEF DeleteExpired, Evict, SetLost, vars
  <2> QED BY <2>1, <2>2, <2>3 DEF Next
<1>4. \A c \in Codes : ~(cache'[c].kind = "json" /\ cache'[c].id = i)
  BY NewKeys DEF Reachable
<1> QED BY <1>1, <1>2, <1>3, <1>4 DEF Dead, Reachable

\* Once a link has been removed and the last copy of its row is gone, no request brings it back.
THEOREM GoneStaysGone == Spec => GoneForGood
<1>1. TypeInv /\ [Next]_vars =>
        \A i \in Ids : Dead(i) /\ ~Reachable(i) => (Dead(i) /\ ~Reachable(i))'
  BY StaysGone
<1> QED BY <1>1, TypeInvariant, PTL DEF Spec, GoneForGood

=============================================================================
