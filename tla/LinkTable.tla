------------------------------ MODULE LinkTable -------------------------------
(***************************************************************************)
(* What a client of the API may conclude about the links from the answers, *)
(* whatever transactions, cache and races are behind them.  There is a     *)
(* table of links; a request to create or delete takes effect in it at     *)
(* most once, at one moment between its arrival and its answer, and the    *)
(* answer says what became of it:                                          *)
(*   201  the link that was asked for was created,                         *)
(*   204  a link of this user with the code was there and was deleted,     *)
(*   400  (to an alias) another link had the code,                         *)
(*   404  (to a deletion) the user had no link with the code,              *)
(*   500  nothing is known.                                                *)
(* No other request takes effect, and links leave by themselves only if    *)
(* they were given an expiry.                                              *)
(***************************************************************************)
EXTENDS Integers

CONSTANTS Workers, Users, Codes, NoCode, NoUser, MaxId

Ids == 1..MaxId

VARIABLES
  rows,    \* the links there are
  link,    \* what each of them is, and was
  stage,   \* where each request is
  wish,    \* what it asks for, until it has taken effect
  made,    \* the link it has created, 0 when none
  status   \* its answer, 0 until it is given

tableVars == <<rows, link, stage, wish, made, status>>

NoLink == [code |-> NoCode, user |-> NoUser, timed |-> FALSE]
NoWish == [op |-> "none", code |-> NoCode, user |-> NoUser]

\* An alias is given as it is stored, in lower case; NoCode leaves the choice to the service.
Wishes == [op : {"shorten"}, code : Codes \cup {NoCode}, user : Users]
            \cup [op : {"delete"}, code : Codes, user : Users]

TableInit ==
  /\ rows = {} /\ link = [i \in Ids |-> NoLink]
  /\ stage = [w \in Workers |-> "idle"]
  /\ wish = [w \in Workers |-> NoWish]
  /\ made = [w \in Workers |-> 0]
  /\ status = [w \in Workers |-> 0]

Go(w, where) == stage' = [stage EXCEPT ![w] = where]
Settle(w) == wish' = [wish EXCEPT ![w] = NoWish]

\* An answer is given, with the link that it is about.
Tell(w, answers, id) ==
  /\ Go(w, "told") /\ Settle(w)
  /\ made' = [made EXCEPT ![w] = id]
  /\ \E answer \in answers : status' = [status EXCEPT ![w] = answer]

InUse(c) == \E i \in rows : link[i].code = c
OwnedAs(i, what) == link[i].code = what.code /\ link[i].user = what.user

Ask(w) ==
  /\ stage[w] = "idle"
  /\ Go(w, "asked")
  /\ \E what \in Wishes : wish' = [wish EXCEPT ![w] = what]
  /\ UNCHANGED <<rows, link, made, status>>

\* Requests that are refused at once, and those that only read.
AnswerOther(w) ==
  /\ stage[w] = "idle"
  /\ Tell(w, {200, 302, 400, 404, 410, 500}, 0)
  /\ UNCHANGED <<rows, link>>

\* Creation takes effect: a new link, with a code that no other has.
Insert(w, i) ==
  /\ stage[w] = "asked" /\ wish[w].op = "shorten"
  /\ link[i] = NoLink /\ rows' = rows \cup {i}
  /\ \E c \in Codes, timed \in BOOLEAN :
       /\ wish[w].code \in {c, NoCode} /\ ~InUse(c)
       /\ link' = [link EXCEPT ![i] = [code |-> c, user |-> wish[w].user, timed |-> timed]]

\* Deletion takes effect.
Erase(w) ==
  /\ stage[w] = "asked" /\ wish[w].op = "delete"
  /\ \E i \in rows : OwnedAs(i, wish[w])
  /\ rows' = {i \in rows : ~OwnedAs(i, wish[w])}
  /\ UNCHANGED link

Create(w) ==
  \E i \in Ids :
    /\ Insert(w, i) /\ Go(w, "created") /\ Settle(w)
    /\ made' = [made EXCEPT ![w] = i]
    /\ UNCHANGED status
Delete(w) == Erase(w) /\ Go(w, "deleted") /\ Settle(w) /\ UNCHANGED <<made, status>>

Confirm(w) ==
  /\ \/ stage[w] = "created" /\ Tell(w, {201}, made[w])
     \/ stage[w] = "deleted" /\ Tell(w, {204}, 0)
  /\ UNCHANGED <<rows, link>>

Refuse(w) ==
  /\ stage[w] = "asked"
  /\ \/ wish[w].op = "shorten" /\ InUse(wish[w].code) /\ Tell(w, {400}, 0)
     \/ wish[w].op = "delete" /\ (\A i \in rows : ~OwnedAs(i, wish[w])) /\ Tell(w, {404}, 0)
  /\ UNCHANGED <<rows, link>>

\* An error, before or after the effect.
Fail(w) ==
  /\ stage[w] = "asked" /\ Tell(w, {500}, 0)
  /\ \/ UNCHANGED <<rows, link>>
     \/ \E i \in Ids : Insert(w, i)
     \/ Erase(w)

Leave(w) ==
  /\ stage[w] = "told" /\ Go(w, "idle") /\ Settle(w)
  /\ made' = [made EXCEPT ![w] = 0]
  /\ status' = [status EXCEPT ![w] = 0]
  /\ UNCHANGED <<rows, link>>

Expire ==
  /\ \E gone \in SUBSET {i \in rows : link[i].timed} : rows' = rows \ gone
  /\ UNCHANGED <<link, stage, wish, made, status>>

TableNext ==
  \/ \E w \in Workers : \/ Ask(w) \/ AnswerOther(w) \/ Create(w) \/ Delete(w)
                        \/ Confirm(w) \/ Refuse(w) \/ Fail(w) \/ Leave(w)
  \/ Expire

TableSpec == TableInit /\ [][TableNext]_tableVars

=============================================================================
