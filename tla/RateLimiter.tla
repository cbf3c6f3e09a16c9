----------------------------- MODULE RateLimiter -----------------------------
(***************************************************************************)
(* The fixed-window rate limiter in front of /api/v1: INCR of a Redis key  *)
(* named by the client's address, EXPIRE by the request that found no key, *)
(* and 429 for a count above the limit.                                    *)
(*                                                                         *)
(* Keys of different clients have nothing in common, so this is one key    *)
(* and the concurrent requests of its client.  The two Redis commands are  *)
(* two steps, and go-redis sends a command again when its reply does not   *)
(* come, so each may take effect several times (the client keeps the       *)
(* default of max_retries; that is a bound, and the model has none).       *)
(* A window is the life of the key.  Above Limit all counts mean the same, *)
(* so count stops at Limit + 1 and needs no other bound.                   *)
(***************************************************************************)
EXTENDS Integers, FiniteSets

CONSTANTS
  Workers,  \* concurrent requests of one client
  Limit,    \* requests per window
  Window,   \* the TTL of the key
  Faults    \* "call": a command fails, or its reply is lost; "restart": Redis loses the key

ASSUME RateLimiterAssumption ==
  /\ IsFiniteSet(Workers)
  /\ Limit \in Nat \ {0}
  /\ Window \in Nat \ {0}

VARIABLES
  count,     \* the key's value, 0 when there is no key
  ttl,       \* time until the key expires, 0 when it has no TTL
  pc, got,   \* where each request is, and the count that INCR gave it
  current,   \* history: the window in which a request counted is still the present one
  admitted,  \* history: counted requests that the present window let through
  wasted,    \* history: increments of the present window whose reply was lost
  lost,      \* history: the EXPIRE of the present window was never carried out
  foreign    \* history: a request of an earlier window has set the TTL of the present one

key == <<count, ttl>>
history == <<admitted, wasted, lost, foreign>>
vars == <<count, ttl, pc, got, current, admitted, wasted, lost, foreign>>

Steps == {"idle", "expire", "judge", "passed", "rejected"}
Goto(w, step) == pc' = [pc EXCEPT ![w] = step]

Init ==
  /\ count = 0 /\ ttl = 0
  /\ pc = [w \in Workers |-> "idle"]
  /\ got = [w \in Workers |-> 0]
  /\ current = [w \in Workers |-> FALSE]
  /\ admitted = 0 /\ wasted = 0 /\ lost = FALSE /\ foreign = FALSE

----------------------------------------------------------------------------

Succ(n) == IF n <= Limit THEN n + 1 ELSE n

\* if count == 1: only the request that created the key sets its TTL
SetsTTLAlways(n) == TRUE
SetsTTLNever(n) == FALSE
SetsTTL(n) == n = 1

\* INCR, answered with the new count.
Incr(w) ==
  /\ pc[w] = "idle"
  /\ count' = Succ(count)
  /\ got' = [got EXCEPT ![w] = count']
  /\ current' = [current EXCEPT ![w] = TRUE]
  /\ Goto(w, IF SetsTTL(count') THEN "expire" ELSE "judge")
  /\ UNCHANGED <<ttl, history>>

\* INCR is carried out and its reply is lost: it will be sent again, or given up.  The place
\* is used, and if that created the key no later answer will be 1.
IncrLost(w) ==
  /\ pc[w] = "idle" /\ "call" \in Faults
  /\ count' = Succ(count)
  /\ wasted' = IF wasted < Limit THEN wasted + 1 ELSE wasted
  /\ lost' = (lost \/ count = 0)
  /\ UNCHANGED <<ttl, pc, got, current, admitted, foreign>>

\* INCR gives an error: the request is let through uncounted.
IncrFails(w) ==
  /\ pc[w] = "idle" /\ "call" \in Faults
  /\ Goto(w, "passed")
  /\ UNCHANGED <<key, got, current, history>>

\* The TTL that EXPIRE leaves behind: there is none to set if Redis has lost the key.
TTLGiven == IF count > 0 THEN Window ELSE 0

\* EXPIRE takes effect, on the key that there is now.
SetTTL(w) ==
  /\ ttl' = TTLGiven
  /\ foreign' = (foreign \/ (count > 0 /\ ~current[w]))
  /\ UNCHANGED <<count, got, current, admitted, wasted, lost>>

\* The reply of EXPIRE is not looked at.
ExpireBlindly(w) ==
  /\ pc[w] = "expire"
  /\ ttl' = Window
  /\ foreign' = (foreign \/ ~current[w])
  /\ Goto(w, "judge")
  /\ UNCHANGED <<count, got, current, admitted, wasted, lost>>
Expire(w) == pc[w] = "expire" /\ SetTTL(w) /\ Goto(w, "judge")

\* EXPIRE is carried out, its reply is lost, and it will be sent again or given up.
ExpireLost(w) == pc[w] = "expire" /\ "call" \in Faults /\ SetTTL(w) /\ UNCHANGED pc

\* EXPIRE gives an error, which is ignored.
ExpireFails(w) ==
  /\ pc[w] = "expire" /\ "call" \in Faults
  /\ lost' = (lost \/ (current[w] /\ ttl = 0))
  /\ Goto(w, "judge")
  /\ UNCHANGED <<key, got, current, admitted, wasted, foreign>>

\* count > limit
OverLimitByOne(n) == n > Limit + 1
OverLimitEarly(n) == n >= Limit
OverLimit(n) == n > Limit

Judge(w) ==
  /\ pc[w] = "judge"
  /\ \/ /\ OverLimit(got[w])
        /\ Goto(w, "rejected")
        /\ UNCHANGED admitted
     \/ /\ ~OverLimit(got[w])
        /\ Goto(w, "passed")
        /\ admitted' = IF current[w] THEN admitted + 1 ELSE admitted
  /\ UNCHANGED <<key, got, current, wasted, lost, foreign>>

\* The handler has run, or 429 is out.
Finish(w) ==
  /\ pc[w] \in {"passed", "rejected"}
  /\ Goto(w, "idle")
  /\ got' = [got EXCEPT ![w] = 0]
  /\ current' = [current EXCEPT ![w] = FALSE]
  /\ UNCHANGED <<key, history>>

----------------------------------------------------------------------------
\* Redis

\* The key goes, and the window with it.
WindowOver ==
  /\ count' = 0 /\ ttl' = 0
  /\ current' = [w \in Workers |-> FALSE]
  /\ admitted' = 0 /\ wasted' = 0 /\ lost' = FALSE /\ foreign' = FALSE

Tick ==
  /\ ttl > 0
  /\ \/ ttl > 1 /\ ttl' = ttl - 1 /\ UNCHANGED <<count, current, history>>
     \/ ttl = 1 /\ WindowOver
  /\ UNCHANGED <<pc, got>>

\* Redis loses the key: a restart, an eviction, or DELETE /urls/:code, which sends DEL for any
\* string in its path, rate:<ip> among them.
Restart ==
  /\ "restart" \in Faults /\ count > 0
  /\ WindowOver
  /\ UNCHANGED <<pc, got>>

----------------------------------------------------------------------------

Step(w) == Expire(w) \/ ExpireFails(w) \/ Judge(w) \/ Finish(w)

Next ==
  \/ \E w \in Workers : Incr(w) \/ IncrLost(w) \/ IncrFails(w) \/ ExpireLost(w) \/ Step(w)
  \/ Tick
  \/ Restart

\* A request that has arrived goes on, since a command is not sent again for ever, and time
\* passes.  Requests need never come.
Fairness == WF_vars(Tick) /\ \A w \in Workers : WF_vars(Step(w))

Spec == Init /\ [][Next]_vars /\ Fairness

----------------------------------------------------------------------------
\* Properties

TypeOK ==
  /\ count \in 0..(Limit + 1) /\ ttl \in 0..Window
  /\ count = 0 => ttl = 0
  /\ pc \in [Workers -> Steps]
  /\ got \in [Workers -> 0..(Limit + 1)]
  /\ current \in [Workers -> BOOLEAN]
  /\ admitted \in Nat /\ wasted \in 0..Limit /\ lost \in BOOLEAN /\ foreign \in BOOLEAN

\* Requests that have a place in the present window and have not been let through yet.
Pending == {w \in Workers : pc[w] \in {"expire", "judge"} /\ current[w] /\ got[w] <= Limit}

\* A window never lets more than Limit counted requests through, whatever order the
\* requests judge their counts in.
AdmittedWithinLimit == admitted + Cardinality(Pending) <= Limit

\* Nobody is turned away before the window is spent: a rejected request finds Limit others
\* let through, about to be, or counted with their reply lost.
RejectedOnlyWhenSpent ==
  \A w \in Workers : pc[w] = "rejected" /\ current[w] =>
    admitted + Cardinality(Pending) + wasted >= Limit

\* A key has no TTL only until the request that created it sets one, or for good after
\* that EXPIRE, or the reply of the INCR that created it, was lost.
NoTTLOnlyAfterLoss ==
  count > 0 /\ ttl = 0 => lost \/ \E w \in Workers : pc[w] = "expire" /\ current[w]

\* The request that has opened the present window is at its EXPIRE.
Opening == \E w \in Workers : pc[w] = "expire" /\ current[w] /\ got[w] = 1

\* The window is fixed: once the request that opened it is past its EXPIRE, its end does not
\* move, though requests keep coming and commands are sent again.  Only an EXPIRE left over
\* from an earlier window, landing on the present one, can move it.
WindowNeverExtended == [][ttl > 0 /\ ttl' > ttl => Opening \/ foreign']_vars

\* A window with a TTL ends, however many requests keep coming.
TimedWindowEnds == ttl > 0 ~> count = 0

\* README.md: "a Redis-backed fixed-window algorithm".  So every window should end.
\* (Violated: INCR and EXPIRE are two commands and the error of EXPIRE is ignored; a key
\* left without a TTL counts for ever, and once above Limit the client is locked out.)
WindowEnds == count > 0 ~> count = 0

=============================================================================
