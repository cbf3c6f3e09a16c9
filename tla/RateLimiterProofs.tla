-------------------------- MODULE RateLimiterProofs ---------------------------
(***************************************************************************)
(* Proofs about RateLimiter, for every finite set of requests, every limit *)
(* and window, and every choice of faults.                                 *)
(***************************************************************************)
EXTENDS RateLimiter, FiniteSetTheorems, TLAPS

----------------------------------------------------------------------------
\* The inductive invariant

\* A request that is counted in the present window is under way, and the window is there.
InWindow == \A w \in Workers : current[w] => pc[w] # "idle" /\ count > 0

\* The counts of the present window go up, and 429 is for one above the limit.
CountsRise ==
  \A w \in Workers :
    /\ current[w] /\ pc[w] \in {"expire", "judge", "rejected"} => got[w] <= count
    /\ pc[w] = "rejected" => got[w] > Limit

\* Of the requests that are counted in a window one was given 1, and no other sets the TTL.
Sets(w) == pc[w] = "expire" /\ current[w]
OneSetter ==
  /\ \A v, w \in Workers : Sets(v) /\ Sets(w) => v = w
  /\ \A w \in Workers : Sets(w) => got[w] = 1

\* What the window has given away: to requests that were or may be let through, and to
\* increments nobody heard of.
Places == admitted + Cardinality(Pending)
PlacesBounded == Places <= Limit /\ Places <= count
PlacesUsed == count <= Places + wasted \/ Limit <= Places + wasted

IInv == /\ TypeOK /\ InWindow /\ CountsRise /\ OneSetter
        /\ PlacesBounded /\ PlacesUsed /\ NoTTLOnlyAfterLoss

----------------------------------------------------------------------------
\* Pending

\* There are finitely many requests, so those that may yet be let through can be counted.
LEMMA PendingFinite == IsFiniteSet(Pending) /\ Cardinality(Pending) \in Nat
<1>1. Pending \in SUBSET Workers
  BY DEF Pending
<1>2. IsFiniteSet(Pending)
  BY <1>1, FS_Subset, RateLimiterAssumption
<1> QED BY <1>2, FS_CardinalityType

\* A request that gets a place makes the pending ones one more.
LEMMA PendingGrows ==
  ASSUME NEW w \in Workers, w \notin Pending, Pending' = Pending \cup {w}
  PROVE  Cardinality(Pending)' = Cardinality(Pending) + 1
BY PendingFinite, FS_AddElement

\* A request that is let through makes them one less.
LEMMA PendingShrinks ==
  ASSUME NEW w \in Workers, w \in Pending, Pending' = Pending \ {w}
  PROVE  Cardinality(Pending)' = Cardinality(Pending) - 1
BY PendingFinite, FS_RemoveElement

\* An increment that nobody heard of is made up for by the place it wastes.
LEMMA Wasting ==
  ASSUME NEW p \in Nat, NEW n \in Nat, NEW wider \in Nat, NEW m \in Nat, NEW more \in Nat,
         n <= p + m \/ Limit <= p + m, more >= m,
         wider = n \/ more = Limit \/ (more = m + 1 /\ wider = n + 1)
  PROVE  wider <= p + more \/ Limit <= p + more
BY RateLimiterAssumption

----------------------------------------------------------------------------
\* The invariant holds

\* The state without a key satisfies the invariant.
LEMMA InitHolds == Init => IInv
<1> SUFFICES ASSUME Init PROVE IInv
  OBVIOUS
<1>1. TypeOK
  <2>1. Limit \in Nat /\ Window \in Nat
    BY RateLimiterAssumption
  <2>2. pc \in [Workers -> Steps] /\ got \in [Workers -> 0..(Limit + 1)]
    BY <2>1 DEF Init, Steps
  <2>3. current \in [Workers -> BOOLEAN] /\ lost \in BOOLEAN /\ foreign \in BOOLEAN
    BY DEF Init
  <2> QED BY <2>1, <2>2, <2>3 DEF Init, TypeOK
<1>2. InWindow /\ CountsRise /\ OneSetter /\ NoTTLOnlyAfterLoss
  BY DEF Init, InWindow, CountsRise, OneSetter, Sets, NoTTLOnlyAfterLoss
<1>3. Pending = {}
  BY DEF Init, Pending
<1>4. Places = 0
  BY <1>3, FS_EmptySet DEF Init, Places
<1>5. PlacesBounded /\ PlacesUsed
  BY <1>4, RateLimiterAssumption DEF Init, PlacesBounded, PlacesUsed
<1> QED BY <1>1, <1>2, <1>5 DEF IInv

\* An increment takes the next place, if there is one left, and the first creates the key.
LEMMA IncrHolds ==
  ASSUME IInv, NEW w \in Workers, Incr(w)
  PROVE  IInv'
<1> USE RateLimiterAssumption
<1>0. /\ TypeOK /\ pc[w] = "idle" /\ ~current[w] /\ count' \in 1..(Limit + 1) /\ count' >= count
      /\ got' = [got EXCEPT ![w] = count'] /\ current' = [current EXCEPT ![w] = TRUE]
      /\ pc' = [pc EXCEPT ![w] = IF count' = 1 THEN "expire" ELSE "judge"]
      /\ UNCHANGED <<ttl, admitted, wasted, lost, foreign>>
  BY DEF IInv, TypeOK, InWindow, Incr, Succ, SetsTTL, Goto, history
<1>1. count' = 1 => count = 0
  BY <1>0 DEF TypeOK, Incr, Succ
<1>2. TypeOK'
  BY <1>0 DEF TypeOK, Steps
<1>3. InWindow' /\ CountsRise'
  BY <1>0 DEF IInv, TypeOK, InWindow, CountsRise
<1>4. OneSetter'
  BY <1>0, <1>1 DEF IInv, TypeOK, InWindow, OneSetter, Sets
<1>5. NoTTLOnlyAfterLoss'
  <2>1. CASE count = 0
    <3>1. count' = 1
      BY <1>0, <2>1 DEF TypeOK, Incr, Succ
    <3>2. pc'[w] = "expire" /\ current'[w]
      BY <1>0, <3>1 DEF TypeOK
    <3> QED BY <3>2 DEF NoTTLOnlyAfterLoss
  <2>2. CASE count # 0
    <3>1. \A v \in Workers : pc[v] = "expire" /\ current[v] => pc'[v] = "expire" /\ current'[v]
      BY <1>0 DEF TypeOK
    <3> QED BY <1>0, <2>2, <3>1 DEF IInv, TypeOK, NoTTLOnlyAfterLoss
  <2> QED BY <2>1, <2>2
<1>6. PlacesBounded' /\ PlacesUsed'
  <2>1. Cardinality(Pending) \in Nat
    BY PendingFinite
  <2>2. CASE count < Limit
    <3>1. count' = count + 1 /\ count' <= Limit
      BY <1>0, <2>2 DEF TypeOK, Incr, Succ
    <3>2. w \notin Pending /\ Pending' = Pending \cup {w}
      BY <1>0, <3>1 DEF TypeOK, Pending
    <3>a. Cardinality(Pending)' = Cardinality(Pending) + 1
      BY <3>2, PendingGrows
    <3>3. Places' = Places + 1
      BY <1>0, <2>1, <3>a DEF TypeOK, Places
    <3> QED BY <1>0, <2>1, <2>2, <3>1, <3>3 DEF IInv, TypeOK, Places, PlacesBounded, PlacesUsed
  <2>3. CASE count >= Limit
    <3>1. count' > Limit
      BY <1>0, <2>3 DEF TypeOK, Incr, Succ
    <3>2. Pending' = Pending
      BY <1>0, <3>1 DEF TypeOK, Pending
    <3>3. Places' = Places
      BY <1>0, <3>2 DEF Places
    <3> QED BY <1>0, <2>1, <2>3, <3>1, <3>3 DEF IInv, TypeOK, Places, PlacesBounded, PlacesUsed
  <2> QED BY <1>0, <2>2, <2>3 DEF TypeOK
<1> QED BY <1>2, <1>3, <1>4, <1>5, <1>6 DEF IInv

\* An increment whose reply is lost wastes a place, and maybe the TTL; one that fails does not.
LEMMA IncrFailsHolds ==
  ASSUME IInv, NEW w \in Workers, IncrFails(w) \/ IncrLost(w)
  PROVE  IInv'
<1> USE RateLimiterAssumption
<1>0. /\ TypeOK /\ pc[w] = "idle" /\ ~current[w]
      /\ pc' = pc \/ pc' = [pc EXCEPT ![w] = "passed"]
      /\ UNCHANGED <<ttl, got, current, admitted, foreign>>
  BY DEF IInv, InWindow, IncrFails, IncrLost, Goto, key, history
<1>1. /\ count' \in 0..(Limit + 1) /\ count' >= count /\ wasted' \in 0..Limit /\ wasted' >= wasted
      /\ lost' \in BOOLEAN /\ (lost => lost') /\ (count = 0 /\ count' > 0 => lost')
      /\ count' # count => wasted' = Limit \/ (wasted' = wasted + 1 /\ count' = count + 1)
  <2>1. /\ count' \in {count, Succ(count)}
        /\ wasted' \in {wasted, IF wasted < Limit THEN wasted + 1 ELSE wasted}
        /\ count' # count => wasted' = IF wasted < Limit THEN wasted + 1 ELSE wasted
    BY DEF IncrFails, IncrLost, key, history
  <2>2. (lost' = lost /\ count' = count) \/ (lost' = (lost \/ count = 0))
    BY DEF IncrFails, IncrLost, key, history
  <2>3. lost' \in BOOLEAN /\ (lost => lost') /\ (count = 0 /\ count' > 0 => lost')
    <3>1. CASE lost' = lost /\ count' = count
      <4>1. count = 0 => ~(count' > 0)
        BY <3>1
      <4> QED BY <1>0, <3>1, <4>1, Zenon DEF TypeOK
    <3>2. CASE lost' = (lost \/ count = 0)
      BY <3>2, Zenon
    <3> QED BY <2>2, <3>1, <3>2
  <2>4. count' \in 0..(Limit + 1) /\ count' >= count /\ (count' # count => count' = count + 1)
    BY <1>0, <2>1 DEF TypeOK, Succ
  <2>5. /\ wasted' \in 0..Limit /\ wasted' >= wasted
        /\ count' # count => wasted' = Limit \/ wasted' = wasted + 1
    BY <1>0, <2>1 DEF TypeOK
  <2> QED BY <2>3, <2>4, <2>5
<1>2. TypeOK'
  BY <1>0, <1>1 DEF TypeOK, Steps
<1>3. InWindow' /\ CountsRise' /\ OneSetter'
  BY <1>0, <1>1 DEF IInv, TypeOK, InWindow, CountsRise, OneSetter, Sets
<1>4. NoTTLOnlyAfterLoss'
  <2>1. \A v \in Workers : pc[v] = "expire" /\ current[v] => pc'[v] = "expire" /\ current'[v]
    BY <1>0 DEF TypeOK
  <2> QED BY <1>0, <1>1, <2>1 DEF IInv, TypeOK, NoTTLOnlyAfterLoss
<1>5. PlacesBounded' /\ PlacesUsed'
  <2>1. Pending' = Pending /\ Cardinality(Pending) \in Nat
    BY <1>0, PendingFinite DEF TypeOK, Pending
  <2>a. admitted' = admitted /\ Places' = Places
    BY <1>0, <2>1 DEF Places
  <2>b. Places \in Nat
    BY <1>0, <2>1 DEF TypeOK, Places
  <2>2. Places' = Places /\ Places \in Nat
    BY <2>a, <2>b
  <2>3. PlacesBounded'
    BY <1>0, <1>1, <2>2 DEF IInv, TypeOK, PlacesBounded
  <2>4. PlacesUsed'
    <3>1. count \in Nat /\ wasted \in Nat /\ count' \in Nat /\ wasted' \in Nat
      BY <1>0, <1>1 DEF TypeOK
    <3>2. count <= Places + wasted \/ Limit <= Places + wasted
      BY DEF IInv, PlacesUsed
    <3>3. wasted' >= wasted /\ (count' = count \/ wasted' = Limit
                                 \/ (wasted' = wasted + 1 /\ count' = count + 1))
      BY <1>1, Zenon
    <3>4. count' <= Places + wasted' \/ Limit <= Places + wasted'
      BY <2>2, <3>1, <3>2, <3>3, Wasting, RateLimiterAssumption
    <3> QED BY <2>2, <3>4, Zenon DEF PlacesUsed
  <2> QED BY <2>3, <2>4
<1> QED BY <1>2, <1>3, <1>4, <1>5 DEF IInv

\* EXPIRE, carried out or not, answered or not: requests keep their places.
LEMMA ExpireHolds ==
  ASSUME IInv, NEW w \in Workers, Expire(w) \/ ExpireLost(w) \/ ExpireFails(w)
  PROVE  IInv'
<1> USE RateLimiterAssumption
<1>0. /\ TypeOK /\ pc[w] = "expire" /\ pc' \in {pc, [pc EXCEPT ![w] = "judge"]}
      /\ UNCHANGED <<count, got, current, admitted, wasted>>
  BY DEF IInv, Expire, ExpireLost, ExpireFails, SetTTL, Goto, key
<1>1. TypeOK'
  <2>1. ttl' \in 0..Window /\ (count = 0 => ttl' = 0)
    BY <1>0 DEF TypeOK, Expire, ExpireLost, ExpireFails, SetTTL, TTLGiven, key
  <2>2. lost' \in BOOLEAN /\ foreign' \in BOOLEAN
    BY <1>0 DEF TypeOK, Expire, ExpireLost, ExpireFails, SetTTL
  <2> QED BY <1>0, <2>1, <2>2 DEF TypeOK, Steps
<1>2. InWindow' /\ CountsRise'
  BY <1>0 DEF IInv, TypeOK, InWindow, CountsRise
<1>3. OneSetter'
  <2>1. \A v \in Workers : Sets(v)' => Sets(v)
    BY <1>0 DEF TypeOK, Sets
  <2> QED BY <1>0, <2>1 DEF IInv, OneSetter
<1>4. NoTTLOnlyAfterLoss'
  <2>1. CASE Expire(w) \/ ExpireLost(w)
    BY <1>0, <2>1 DEF TypeOK, Expire, ExpireLost, SetTTL, TTLGiven, NoTTLOnlyAfterLoss
  <2>2. CASE ExpireFails(w)
    <3>1. \A v \in Workers \ {w} : pc[v] = "expire" /\ current[v] => pc'[v] = "expire" /\ current'[v]
      BY <1>0 DEF TypeOK
    <3> QED BY <1>0, <2>2, <3>1 DEF IInv, TypeOK, ExpireFails, key, NoTTLOnlyAfterLoss
  <2> QED BY <2>1, <2>2
<1>6. Pending' = Pending
  BY <1>0 DEF TypeOK, Pending
<1>7. PlacesBounded' /\ PlacesUsed'
  BY <1>0, <1>6 DEF IInv, Places, PlacesBounded, PlacesUsed
<1> QED BY <1>1, <1>2, <1>3, <1>4, <1>7 DEF IInv

\* A request that is let through turns its place into an admission; one that is turned away
\* had none.
LEMMA JudgeHolds ==
  ASSUME IInv, NEW w \in Workers, Judge(w)
  PROVE  IInv'
<1> USE RateLimiterAssumption
<1>0. /\ TypeOK /\ pc[w] = "judge"
      /\ pc' = [pc EXCEPT ![w] = IF got[w] > Limit THEN "rejected" ELSE "passed"]
      /\ UNCHANGED <<count, ttl, got, current, wasted, lost, foreign>>
      /\ admitted' = IF got[w] <= Limit /\ current[w] THEN admitted + 1 ELSE admitted
  BY DEF IInv, TypeOK, Judge, OverLimit, Goto, key
<1>1. TypeOK'
  BY <1>0 DEF TypeOK, Steps
<1>2. InWindow' /\ CountsRise' /\ OneSetter'
  BY <1>0 DEF IInv, TypeOK, InWindow, CountsRise, OneSetter, Sets
<1>3. NoTTLOnlyAfterLoss'
  <2>1. \A v \in Workers : pc[v] = "expire" /\ current[v] => pc'[v] = "expire" /\ current'[v]
    BY <1>0 DEF TypeOK
  <2> QED BY <1>0, <2>1 DEF IInv, NoTTLOnlyAfterLoss
<1>4. Places' = Places
  <2>1. CASE got[w] <= Limit /\ current[w]
    <3>1. w \in Pending /\ Pending' = Pending \ {w}
      BY <1>0, <2>1 DEF TypeOK, Pending
    <3>2. Cardinality(Pending)' = Cardinality(Pending) - 1
      BY <3>1, PendingShrinks
    <3> QED BY <1>0, <2>1, <3>2, PendingFinite DEF TypeOK, Places
  <2>2. CASE ~(got[w] <= Limit /\ current[w])
    <3>1. Pending' = Pending
      BY <1>0, <2>2 DEF TypeOK, Pending
    <3> QED BY <1>0, <2>2, <3>1 DEF Places
  <2> QED BY <2>1, <2>2
<1>5. PlacesBounded' /\ PlacesUsed'
  BY <1>0, <1>4 DEF IInv, PlacesBounded, PlacesUsed
<1> QED BY <1>1, <1>2, <1>3, <1>5 DEF IInv

\* A request that ends leaves the window as it is.
LEMMA FinishHolds ==
  ASSUME IInv, NEW w \in Workers, Finish(w)
  PROVE  IInv'
<1> USE RateLimiterAssumption
<1>0. /\ TypeOK /\ pc[w] \in {"passed", "rejected"} /\ pc' = [pc EXCEPT ![w] = "idle"]
      /\ got' = [got EXCEPT ![w] = 0] /\ current' = [current EXCEPT ![w] = FALSE]
      /\ UNCHANGED <<count, ttl, admitted, wasted, lost, foreign>>
  BY DEF IInv, Finish, Goto, key, history
<1>1. TypeOK'
  BY <1>0 DEF TypeOK, Steps
<1>2. InWindow' /\ CountsRise' /\ OneSetter'
  BY <1>0 DEF IInv, TypeOK, InWindow, CountsRise, OneSetter, Sets
<1>3. NoTTLOnlyAfterLoss'
  <2>1. \A v \in Workers : pc[v] = "expire" /\ current[v] => pc'[v] = "expire" /\ current'[v]
    BY <1>0 DEF TypeOK
  <2> QED BY <1>0, <2>1 DEF IInv, NoTTLOnlyAfterLoss
<1>4. Pending' = Pending
  BY <1>0 DEF TypeOK, Pending
<1>5. PlacesBounded' /\ PlacesUsed'
  BY <1>0, <1>4 DEF IInv, Places, PlacesBounded, PlacesUsed
<1> QED BY <1>1, <1>2, <1>3, <1>5 DEF IInv

\* With the window goes all that was counted in it.
LEMMA WindowOverHolds ==
  ASSUME IInv, WindowOver, UNCHANGED <<pc, got>>
  PROVE  IInv'
<1> USE RateLimiterAssumption
<1>1. TypeOK'
  <2>1. count' = 0 /\ ttl' = 0 /\ admitted' = 0 /\ wasted' = 0
        /\ lost' \in BOOLEAN /\ foreign' \in BOOLEAN
    BY DEF WindowOver
  <2>2. current' \in [Workers -> BOOLEAN]
    BY DEF WindowOver
  <2> QED BY <2>1, <2>2 DEF IInv, TypeOK
<1>2. InWindow' /\ CountsRise' /\ OneSetter' /\ NoTTLOnlyAfterLoss'
  BY DEF IInv, InWindow, CountsRise, OneSetter, Sets, NoTTLOnlyAfterLoss, WindowOver
<1>3. Pending' = {}
  BY DEF Pending, WindowOver
<1>4. Places' = 0
  BY <1>3, FS_EmptySet DEF Places, WindowOver
<1>5. PlacesBounded' /\ PlacesUsed'
  BY <1>4 DEF PlacesBounded, PlacesUsed, WindowOver
<1> QED BY <1>1, <1>2, <1>5 DEF IInv

\* A unit of time passes within a window.
LEMMA TickHolds ==
  ASSUME IInv, Tick
  PROVE  IInv'
<1> USE RateLimiterAssumption
<1>1. CASE WindowOver
  BY <1>1, WindowOverHolds DEF Tick
<1>2. ASSUME ttl > 1, ttl' = ttl - 1, UNCHANGED <<count, current, history>> PROVE IInv'
  <2>1. UNCHANGED <<pc, got, count, current, admitted, wasted, lost, foreign>>
    BY <1>2 DEF Tick, history
  <2>2. TypeOK'
    BY <1>2, <2>1 DEF IInv, TypeOK
  <2>3. InWindow' /\ CountsRise' /\ OneSetter' /\ NoTTLOnlyAfterLoss'
    BY <1>2, <2>1 DEF IInv, TypeOK, InWindow, CountsRise, OneSetter, Sets, NoTTLOnlyAfterLoss
  <2>4. Pending' = Pending
    BY <2>1 DEF Pending
  <2>5. PlacesBounded' /\ PlacesUsed'
    BY <2>1, <2>4 DEF IInv, Places, PlacesBounded, PlacesUsed
  <2> QED BY <2>2, <2>3, <2>5 DEF IInv
<1> QED BY <1>1, <1>2 DEF Tick

\* Every step keeps the invariant.
LEMMA NextHolds == IInv /\ [Next]_vars => IInv'
<1> SUFFICES ASSUME IInv, [Next]_vars PROVE IInv'
  OBVIOUS
<1>1. ASSUME UNCHANGED vars PROVE IInv'
  <2>1. Pending' = Pending
    BY <1>1 DEF vars, Pending
  <2> QED BY <1>1, <2>1 DEF vars, IInv, TypeOK, InWindow, CountsRise, OneSetter, Sets,
             Places, PlacesBounded, PlacesUsed, NoTTLOnlyAfterLoss
<1>2. CASE Restart
  BY <1>2, WindowOverHolds DEF Restart
<1> QED BY <1>1, <1>2, IncrHolds, IncrFailsHolds, ExpireHolds, JudgeHolds, FinishHolds, TickHolds
       DEF Next, Step

\* The invariant holds in every reachable state.
THEOREM Invariance == Spec => []IInv
BY InitHolds, NextHolds, PTL DEF Spec

----------------------------------------------------------------------------
\* Theorems

\* The types hold for every number of requests, every limit and every window.
THEOREM TypeCorrect == Spec => []TypeOK
<1>1. IInv => TypeOK
  BY DEF IInv
<1> QED BY <1>1, Invariance, PTL

\* A window of the limiter lets no more than Limit counted requests through, in whatever
\* order INCR and the comparisons of any number of requests fall.
THEOREM NeverTooMany == Spec => []AdmittedWithinLimit
<1>1. IInv => AdmittedWithinLimit
  BY DEF IInv, PlacesBounded, Places, AdmittedWithinLimit
<1> QED BY <1>1, Invariance, PTL

\* 429 is given only when the window is spent, whatever commands and replies were lost.
THEOREM NeverTooEarly == Spec => []RejectedOnlyWhenSpent
<1>1. IInv => RejectedOnlyWhenSpent
  <2> SUFFICES ASSUME IInv, NEW w \in Workers, pc[w] = "rejected", current[w]
               PROVE  admitted + Cardinality(Pending) + wasted >= Limit
    BY DEF RejectedOnlyWhenSpent
  <2>1. got[w] > Limit /\ got[w] <= count
    BY DEF IInv, CountsRise
  <2> QED BY <2>1, PendingFinite, RateLimiterAssumption DEF IInv, TypeOK, PlacesUsed, Places
<1> QED BY <1>1, Invariance, PTL

\* A key without a TTL is about to get one, unless the EXPIRE or the reply of the INCR that
\* created it was lost.
THEOREM TTLComes == Spec => []NoTTLOnlyAfterLoss
<1>1. IInv => NoTTLOnlyAfterLoss
  BY DEF IInv
<1> QED BY <1>1, Invariance, PTL

\* Of the requests that a window counts, only the one that opened it can move its end, by an
\* EXPIRE that is sent again.
THEOREM WindowFixed == Spec => WindowNeverExtended
<1>1. IInv /\ [Next]_vars => [ttl > 0 /\ ttl' > ttl => Opening \/ foreign']_vars
  <2> SUFFICES ASSUME IInv, [Next]_vars, ttl > 0, ttl' > ttl PROVE Opening \/ foreign'
    OBVIOUS
  <2>1. PICK w \in Workers : pc[w] = "expire" /\ SetTTL(w)
    BY DEF IInv, TypeOK, Next, Step, Incr, IncrLost, IncrFails, Expire, ExpireLost, ExpireFails,
           Judge, Finish, Tick, Restart, WindowOver, key, history, vars
  <2>2. CASE current[w]
    BY <2>1, <2>2 DEF IInv, OneSetter, Sets, Opening
  <2>3. CASE ~current[w]
    <3>1. count > 0
      BY DEF IInv, TypeOK
    <3>2. foreign' = (foreign \/ (count > 0 /\ ~current[w]))
      BY <2>1 DEF SetTTL
    <3> QED BY <2>3, <3>1, <3>2, Zenon
  <2> QED BY <2>2, <2>3
<1> QED BY <1>1, Invariance, PTL DEF Spec, WindowNeverExtended

=============================================================================
