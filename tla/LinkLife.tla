------------------------------- MODULE LinkLife -------------------------------
(***************************************************************************)
(* What becomes of a link, for those who look it up: it is in the table;   *)
(* it is gone from there, while the cache or a slow lookup has a copy; it  *)
(* is gone, and nothing brings it back.  A lookup finds a link of the code *)
(* that it is asked for, in the table or a copy of it.                     *)
(***************************************************************************)
EXTENDS Integers

CONSTANTS
  Codes,   \* short codes
  NoCode,
  MaxId    \* the last value of the sequence behind urls.id

Ids == 1..MaxId

ASSUME LinkLifeAssumption == NoCode \notin Codes /\ MaxId \in Nat

VARIABLES
  rows,   \* ids of the rows of urls
  code,   \* the short code of each link that there is or was
  stale   \* links without a row of which there is a copy

lifeVars == <<rows, code, stale>>

LifeInit == rows = {} /\ stale = {} /\ code = [i \in Ids |-> NoCode]

\* What a lookup of c can find.
Findable(c) == {i \in rows \cup stale : code[i] = c}

\* A link is created under an id that no link had, with a code that no row has.
Add(i, c) ==
  /\ code[i] = NoCode
  /\ \A j \in rows : code[j] # c
  /\ rows' = rows \cup {i}
  /\ code' = [code EXCEPT ![i] = c]
  /\ UNCHANGED stale

\* Rows are deleted: one by its owner, all that have expired by the cleanup worker.
Drop(S) ==
  /\ S # {} /\ S \subseteq rows
  /\ rows' = rows \ S
  /\ \E copies \in SUBSET S : stale' = stale \cup copies
  /\ UNCHANGED code

\* Copies are given up: a key is deleted, expires or is evicted, a lookup ends.
Forget(S) ==
  /\ S # {} /\ S \subseteq stale
  /\ stale' = stale \ S
  /\ UNCHANGED <<rows, code>>

LifeNext ==
  \/ \E i \in Ids, c \in Codes : Add(i, c)
  \/ \E S \in SUBSET Ids : Drop(S) \/ Forget(S)

LifeSpec == LifeInit /\ [][LifeNext]_lifeVars

=============================================================================
