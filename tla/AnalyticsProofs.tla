--------------------------- MODULE AnalyticsProofs ----------------------------
(***************************************************************************)
(* Proofs about Analytics, for every set of clicks and codes, every size   *)
(* of a batch, every number of links and every choice of faults.           *)
(***************************************************************************)
EXTENDS Analytics, SequenceTheorems, FiniteSetTheorems, WellFoundedInduction, TLAPS

----------------------------------------------------------------------------
\* The inductive invariant

\* A link that there is or was.
Drawn(i) == i \in Ids /\ code[i] # NoCode

\* The types, but for those of the dashboard and a bound on the counters.
Typed ==
  /\ accepted \in Seq(Clicks) /\ handed \in Seq(Clicks)
  /\ phase = "serving"
  /\ \A i \in rows \cup stale : Drawn(i)
  /\ \A i \in stale : i \notin rows
  /\ code \in [Ids -> Codes \cup {NoCode}]
  /\ counter \in [Ids -> Nat]
  /\ table \subseteq Clicks /\ spoiled \subseteq Clicks
  /\ pc \in [Clicks -> {"new", "record", "send", "answered"}]
  /\ asked \in [Clicks -> Codes \cup {NoCode}]
  /\ url \in [Clicks -> Ids \cup {0}]
  /\ inc \in [Clicks -> {"none", "pending", "done", "failed"}]

\* A click that was sent is for a link that there was, and stays so.
Sent(n) == pc[n] = "answered" /\ Drawn(url[n])
ClicksSent ==
  /\ \A n \in Clicks : pc[n] = "send" => Drawn(url[n])
  /\ \A k \in 1..Len(accepted) : Sent(accepted[k])
  /\ \A k \in 1..Len(handed) : Sent(handed[k])
  /\ \A n \in table : Sent(n)

\* The increments that were made on a code.
Counted(c) == {n \in Clicks : asked[n] = c /\ inc[n] = "done"}

\* They are finitely many, for a code that there was; no other column has counted.
Increments ==
  /\ IsFiniteSet({n \in Clicks : inc[n] = "done"})
  /\ \A n \in Clicks : pc[n] = "new" => inc[n] = "none"
  /\ \A n \in Clicks : inc[n] # "none" => \E i \in Ids : Drawn(i) /\ code[i] = asked[n]
  /\ \A i \in Ids : code[i] = NoCode => counter[i] = 0
  /\ \A i \in Ids : counter[i] <= Cardinality({n \in Clicks : inc[n] = "done"})

IInv == Typed /\ ClicksSent /\ Increments /\ NoOrphanClicks /\ CountsRedirects /\ LossHasCause

----------------------------------------------------------------------------
\* Counting

\* Counted is finite.
LEMMA CountedFinite ==
  ASSUME Increments, NEW c
  PROVE  IsFiniteSet(Counted(c)) /\ Cardinality(Counted(c)) \in Nat
<1>1. Counted(c) \in SUBSET {n \in Clicks : inc[n] = "done"}
  BY DEF Counted
<1>2. IsFiniteSet(Counted(c))
  BY <1>1, FS_Subset DEF Increments
<1> QED BY <1>2, FS_CardinalityType

\* What CountsRedirects says of one column.
Exact(i) == \A j \in Ids : Removed(j) => code[j] # code[i]
CountOf(i) ==
  /\ counter[i] <= Cardinality(Counted(code[i]))
  /\ Exact(i) => counter[i] = Cardinality(Counted(code[i]))

LEMMA CountsByColumn == CountsRedirects <=> \A i \in rows : CountOf(i)
BY DEF CountsRedirects, CountOf, Exact, Counted

----------------------------------------------------------------------------
\* What steps leave alone

\* A removed link stays removed, and a drawn one drawn.
LEMMA RemovedStays ==
  ASSUME \A i \in Ids : Drawn(i) => code'[i] = code[i], rows' \cap {i \in Ids : Drawn(i)} \subseteq rows
  PROVE  \A i \in Ids : (Removed(i) => Removed(i)') /\ (Drawn(i) => Drawn(i)')
BY DEF Removed, Drawn

\* A step on the links: no click is new, and none that was sent changes.
LEMMA SentStays ==
  ASSUME ClicksSent, UNCHANGED <<accepted, handed, pc, url>>,
         \A i \in Ids : Drawn(i) => code'[i] = code[i], table' \subseteq table
  PROVE  ClicksSent'
<1>1. \A i : Drawn(i) => i \in Ids /\ code'[i] # NoCode
  BY DEF Drawn
<1>2. \A n : Sent(n) => pc'[n] = "answered" /\ url'[n] \in Ids /\ code'[url'[n]] # NoCode
  BY <1>1 DEF Sent
<1> QED BY <1>1, <1>2 DEF ClicksSent, Sent, Drawn

\* What is lost keeps its cause.
LEMMA CausesStay ==
  ASSUME Typed, ClicksSent, LossHasCause, handed' = handed, spoiled' = spoiled,
         \A n \in Clicks : Sent(n) => url'[n] = url[n],
         \A i \in Ids : Removed(i) => Removed(i)',
         \A n \in table : n \in table' \/ Removed(url[n])'
  PROVE  LossHasCause'
<1>0. /\ Len(handed) \in Nat /\ BatchSize \in Nat \ {0}
      /\ \A m \in 1..Len(handed) : handed[m] \in Clicks /\ Sent(handed[m])
  BY ClickLogAssumption DEF Typed, ClicksSent
<1>1. \A m \in 1..Len(handed) : url'[handed[m]] = url[handed[m]] /\ url[handed[m]] \in Ids
  BY <1>0 DEF Sent, Drawn
<1>2. \A m \in 1..Len(handed) : Removed(url[handed[m]]) => Removed(url[handed[m]])'
  BY <1>1
<1>3. \A k \in 1..Len(handed) :
        handed[k] \in table => handed[k] \in table' \/ Removed(url[handed[k]])'
  BY <1>0
<1>4. \A k \in 1..Len(handed) : k > k - BatchSize /\ k < k + BatchSize
  BY <1>0
<1> QED BY <1>2, <1>3, <1>4 DEF LossHasCause

----------------------------------------------------------------------------
\* The initial state

LEMMA InitHolds == Init => IInv
<1> SUFFICES ASSUME Init PROVE IInv
  OBVIOUS
<1>1. /\ accepted = <<>> /\ handed = <<>> /\ Len(<<>>) = 0
      /\ accepted \in Seq(Clicks) /\ handed \in Seq(Clicks)
  BY EmptySeq DEF Init, LogInit
<1>2. Typed
  BY <1>1 DEF Init, LogInit, LifeInit, Typed
<1>3. ClicksSent
  BY <1>1 DEF Init, LifeInit, ClicksSent
<1>4. Increments
  <2>1. {n \in Clicks : inc[n] = "done"} = {}
    BY DEF Init
  <2>2. Cardinality({n \in Clicks : inc[n] = "done"}) = 0 /\ IsFiniteSet({n \in Clicks : inc[n] = "done"})
    BY <2>1, FS_EmptySet
  <2>3. \A i \in Ids : counter[i] = 0
    BY DEF Init
  <2>4. \A i \in Ids : counter[i] <= Cardinality({n \in Clicks : inc[n] = "done"})
    BY <2>2, <2>3
  <2> QED BY <2>2, <2>3, <2>4 DEF Init, Increments
<1>5. NoOrphanClicks /\ CountsRedirects /\ LossHasCause
  BY <1>1 DEF Init, LifeInit, NoOrphanClicks, CountsRedirects, LossHasCause
<1> QED BY <1>2, <1>3, <1>4, <1>5 DEF IInv

----------------------------------------------------------------------------
\* Links

LEMMA CreateHolds ==
  ASSUME IInv, NEW i \in Ids, NEW c \in Codes, Create(i, c)
  PROVE  IInv'
<1> USE DEF IInv
<1>0. /\ code[i] = NoCode /\ c # NoCode /\ rows' = rows \cup {i}
      /\ UNCHANGED <<accepted, handed, phase, stale, pc, asked, url, inc, counter, table, spoiled>>
  BY LinkLifeAssumption DEF Create, Add, logVars, redirectVars
<1>1. /\ code' \in [Ids -> Codes \cup {NoCode}] /\ code'[i] = c
      /\ \A j \in Ids \ {i} : code'[j] = code[j]
  BY DEF Create, Add, Typed
<1>2. \A j \in Ids : Drawn(j) => code'[j] = code[j] /\ j # i
  BY <1>0, <1>1 DEF Drawn
<1>3. \A j \in Ids : (Removed(j) => Removed(j)') /\ (Drawn(j) => Drawn(j)')
  BY <1>0, <1>2, RemovedStays
<1>4. Typed'
  <2>1. \A j \in (rows \cup stale)' : j \in Ids /\ code'[j] # NoCode
    BY <1>0, <1>1, <1>2 DEF Typed, Drawn
  <2>2. \A j \in stale' : j \notin rows'
    BY <1>0 DEF Typed, Drawn
  <2> QED BY <1>0, <1>1, <2>1, <2>2 DEF Typed, Drawn
<1>5. ClicksSent'
  BY <1>0, <1>2, SentStays
<1>6. Increments'
  <2>1. ASSUME NEW n \in Clicks, inc[n] # "none"
        PROVE  \E j \in Ids : code'[j] # NoCode /\ code'[j] = asked[n]
    <3>1. PICK j \in Ids : Drawn(j) /\ code[j] = asked[n]
      BY <2>1 DEF Increments
    <3> QED BY <1>2, <3>1 DEF Drawn
  <2>2. \A j \in Ids : code'[j] = NoCode => counter[j] = 0
    BY <1>0, <1>1 DEF Increments
  <2> QED BY <1>0, <2>1, <2>2 DEF Increments, Drawn
<1>7. NoOrphanClicks'
  BY <1>0 DEF NoOrphanClicks
<1>8. CountsRedirects'
  <2>1. \A d : Counted(d)' = Counted(d)
    BY <1>0 DEF Counted
  <2>2. ASSUME NEW j \in rows PROVE CountOf(j)'
    <3>1. Drawn(j) /\ code'[j] = code[j] /\ counter'[j] = counter[j] /\ CountOf(j)
      BY <1>0, <1>2, CountsByColumn DEF Typed, Drawn
    <3>2. Exact(j)' => Exact(j)
      <4>1. \A l \in Ids : Removed(l) => code'[l] = code[l] /\ Removed(l)'
        BY <1>2, <1>3 DEF Removed, Drawn
      <4> QED BY <3>1, <4>1 DEF Exact
    <3>3. Cardinality(Counted(code[j]))' = Cardinality(Counted(code[j]))
      BY <2>1, <3>1
    <3> QED BY <3>1, <3>2, <3>3 DEF CountOf
  <2>3. ASSUME NEW j \in Ids, j = i PROVE CountOf(j)'
    <3>1. counter'[j] = 0 /\ code'[j] = c
      BY <1>0, <1>1, <2>3 DEF Increments
    <3>2. Cardinality(Counted(c)) \in Nat
      BY CountedFinite
    <3>3. ASSUME \A l \in Ids : Removed(l)' => code'[l] # c PROVE Counted(c) = {}
      <4> SUFFICES ASSUME NEW n \in Counted(c) PROVE FALSE
        OBVIOUS
      <4>1. PICK l \in Ids : Drawn(l) /\ code[l] = c
        BY DEF Counted, Increments
      <4>2. Removed(l)
        BY <4>1 DEF Removed, Drawn, Create, Add
      <4> QED BY <1>2, <1>3, <3>3, <4>1, <4>2
    <3> QED BY <2>1, <3>1, <3>2, <3>3, FS_EmptySet DEF CountOf, Exact
  <2>4. \A j \in rows' : CountOf(j)'
    BY <1>0, <2>2, <2>3
  <2> QED BY <2>4 DEF CountsRedirects, CountOf, Exact, Counted
<1>9. LossHasCause'
  BY <1>0, <1>3, CausesStay
<1> QED BY <1>4, <1>5, <1>6, <1>7, <1>8, <1>9

\* Its rows of clicks go with a link, and its column.
LEMMA RemoveHolds ==
  ASSUME IInv, NEW S \in SUBSET Ids, Remove(S)
  PROVE  IInv'
<1> USE DEF IInv
<1>0. /\ S \subseteq rows /\ rows' = rows \ S /\ code' = code
      /\ table' = {n \in table : url[n] \notin S}
      /\ UNCHANGED <<accepted, handed, phase, pc, asked, url, inc, counter, spoiled>>
  BY DEF Remove, Drop, logVars, redirectVars
<1>1. \A j \in Ids : (Removed(j) => Removed(j)') /\ (Drawn(j) => Drawn(j)')
  BY <1>0, RemovedStays
<1>2. \A j \in stale' : j \in stale \cup S
  BY DEF Remove, Drop
<1>3. Typed'
  BY <1>0, <1>2 DEF Typed, Drawn
<1>4. ClicksSent'
  BY <1>0, SentStays
<1>5. Increments'
  BY <1>0 DEF Increments, Drawn
<1>6. NoOrphanClicks'
  BY <1>0 DEF NoOrphanClicks
<1>7. CountsRedirects'
  <2>1. \A d : Counted(d)' = Counted(d)
    BY <1>0 DEF Counted
  <2>2. ASSUME NEW j \in rows' PROVE CountOf(j)'
    <3>1. CountOf(j)
      BY <1>0, CountsByColumn
    <3>2. Exact(j)' => Exact(j)
      BY <1>0, <1>1 DEF Exact
    <3> QED BY <1>0, <2>1, <3>1, <3>2 DEF CountOf
  <2> QED BY <2>2 DEF CountsRedirects, CountOf, Exact, Counted
<1>8. LossHasCause'
  <2>1. \A j \in S : Removed(j)'
    BY <1>0 DEF Removed, Typed, Drawn
  <2>2. \A n \in table : n \in table' \/ Removed(url[n])'
    BY <1>0, <2>1
  <2> QED BY <1>0, <1>1, <2>2, CausesStay
<1> QED BY <1>3, <1>4, <1>5, <1>6, <1>7, <1>8

\* Copies are dropped, or a dashboard reads.
LEMMA ReadsHold ==
  ASSUME IInv, UNCHANGED <<logVars, rows, code, redirectVars, counter, table, spoiled>>,
         stale' \subseteq stale
  PROVE  IInv'
<1> USE DEF IInv, logVars, redirectVars
<1>1. Typed'
  BY DEF Typed, Drawn
<1>2. ClicksSent' /\ Increments'
  BY DEF ClicksSent, Sent, Increments, Drawn
<1>3. NoOrphanClicks' /\ LossHasCause'
  BY DEF NoOrphanClicks, LossHasCause, Removed
<1>4. CountsRedirects'
  BY DEF CountsRedirects, Removed
<1> QED BY <1>1, <1>2, <1>3, <1>4

----------------------------------------------------------------------------
\* Redirects

LEMMA FollowHolds ==
  ASSUME IInv, NEW n \in Clicks, NEW c \in Codes, Follow(n, c)
  PROVE  IInv'
<1> USE DEF IInv
<1>0. /\ UNCHANGED <<accepted, handed, phase, rows, code, stale, url, counter, table, spoiled>>
      /\ pc' = [pc EXCEPT ![n] = "record"] /\ asked' = [asked EXCEPT ![n] = c]
      /\ inc' = [inc EXCEPT ![n] = "pending"] /\ pc[n] = "new" /\ inc[n] = "none"
  BY DEF Follow, logVars, lifeVars, Increments
<1>1. \A m \in Clicks \ {n} : pc'[m] = pc[m] /\ asked'[m] = asked[m] /\ inc'[m] = inc[m]
  BY <1>0 DEF Typed
<1>2. pc'[n] = "record" /\ asked'[n] = c /\ inc'[n] = "pending"
  BY <1>0 DEF Typed
<1>3. PICK i \in Ids : Drawn(i) /\ code[i] = c
  BY DEF Follow, Findable, Typed, Drawn
<1>4. Typed'
  BY <1>0 DEF Typed, Drawn
<1>5. ClicksSent'
  <2>1. \A m \in Clicks : Sent(m) => Sent(m)'
    BY <1>0, <1>1 DEF Sent, Drawn
  <2> QED BY <1>0, <1>1, <1>2, <2>1 DEF ClicksSent, Typed, Drawn
<1>6. {m \in Clicks : inc'[m] = "done"} = {m \in Clicks : inc[m] = "done"}
  BY <1>0, <1>1, <1>2
<1>7. Increments'
  <2>1. \A m \in Clicks : inc'[m] # "none" => \E j \in Ids : Drawn(j)' /\ code'[j] = asked'[m]
    BY <1>0, <1>1, <1>2, <1>3 DEF Increments, Drawn
  <2>2. \A m \in Clicks : pc'[m] = "new" => inc'[m] = "none"
    BY <1>1, <1>2 DEF Increments
  <2> QED BY <1>0, <1>6, <2>1, <2>2 DEF Increments
<1>8. CountsRedirects'
  <2>1. \A d : Counted(d)' = Counted(d)
    BY <1>0, <1>1, <1>2 DEF Counted
  <2> QED BY <1>0, <2>1 DEF CountsRedirects, Counted, Removed
<1>9. NoOrphanClicks' /\ LossHasCause'
  BY <1>0 DEF NoOrphanClicks, LossHasCause, Removed
<1> QED BY <1>4, <1>5, <1>7, <1>8, <1>9

\* The lookup finds a link that there was.
LEMMA RecordClickHolds ==
  ASSUME IInv, NEW n \in Clicks, RecordClick(n)
  PROVE  IInv'
<1> USE DEF IInv
<1>0. /\ UNCHANGED <<accepted, handed, phase, rows, code, stale, asked, inc, counter, table, spoiled>>
      /\ pc[n] = "record"
  BY DEF RecordClick, logVars, lifeVars
<1>1. \/ \E i \in Ids : /\ Drawn(i) /\ url' = [url EXCEPT ![n] = i]
                        /\ pc' = [pc EXCEPT ![n] = "send"]
      \/ pc' = [pc EXCEPT ![n] = "answered"] /\ url' = url
  BY DEF RecordClick, Findable, Typed, Drawn
<1>2. /\ \A m \in Clicks \ {n} : pc'[m] = pc[m] /\ url'[m] = url[m]
      /\ pc'[n] = "answered" \/ (pc'[n] = "send" /\ Drawn(url'[n]))
  BY <1>1 DEF Typed
<1>3. \A m \in Clicks : Sent(m) => m # n /\ url'[m] = url[m] /\ Sent(m)'
  BY <1>0, <1>2 DEF Sent, Drawn
<1>4. Typed'
  BY <1>0, <1>1 DEF Typed, Drawn
<1>5. ClicksSent'
  <2>1. \A m \in Clicks : pc'[m] = "send" => Drawn(url[m])'
    BY <1>0, <1>2 DEF ClicksSent, Drawn
  <2>2. /\ \A k \in 1..Len(accepted) : Sent(accepted[k])'
        /\ \A k \in 1..Len(handed) : Sent(handed[k])'
        /\ \A m \in table : Sent(m)'
    BY <1>0, <1>3 DEF ClicksSent, Typed
  <2> QED BY <1>0, <2>1, <2>2 DEF ClicksSent
<1>6. Increments' /\ CountsRedirects'
  <2>1. \A m \in Clicks : pc'[m] = "new" => pc[m] = "new"
    BY <1>2
  <2> QED BY <1>0, <2>1 DEF Increments, CountsRedirects, Removed, Drawn
<1>7. NoOrphanClicks'
  BY <1>0, <1>3 DEF NoOrphanClicks, ClicksSent, Typed
<1>8. LossHasCause'
  <2>1. \A i \in Ids : Removed(i) => Removed(i)'
    BY <1>0 DEF Removed
  <2> QED BY <1>0, <1>3, <2>1, CausesStay
<1> QED BY <1>4, <1>5, <1>6, <1>7, <1>8

LEMMA SendHolds ==
  ASSUME IInv, NEW n \in Clicks, Send(n)
  PROVE  IInv'
<1> USE DEF IInv
<1>0. /\ UNCHANGED <<handed, phase, rows, code, stale, asked, url, inc, counter, table, spoiled>>
      /\ accepted' = Append(accepted, n)
      /\ pc[n] = "send" /\ pc' = [pc EXCEPT ![n] = "answered"]
  BY DEF Send, Accept, lifeVars
<1>1. /\ \A m \in Clicks \ {n} : pc'[m] = pc[m]
      /\ pc'[n] = "answered" /\ Drawn(url[n])
  BY <1>0 DEF Typed, ClicksSent
<1>2. Sent(n)' /\ \A m \in Clicks : Sent(m) => Sent(m)'
  BY <1>0, <1>1 DEF Sent, Drawn
<1>3. /\ accepted' \in Seq(Clicks) /\ Len(accepted') = Len(accepted) + 1 /\ Len(accepted) \in Nat
      /\ \A k \in 1..Len(accepted') : accepted'[k] = n \/ (k \in 1..Len(accepted) /\ accepted'[k] = accepted[k])
  BY <1>0 DEF Typed
<1>4. Typed'
  BY <1>0, <1>3 DEF Typed, Drawn
<1>5. ClicksSent'
  <2>1. \A m \in Clicks : pc'[m] = "send" => Drawn(url[m])'
    BY <1>0, <1>1 DEF ClicksSent, Drawn
  <2>2. \A k \in 1..Len(accepted') : Sent(accepted[k])'
    <3>1. \A m \in Clicks : m = n \/ Sent(m) => pc'[m] = "answered" /\ Drawn(url[m])
      BY <1>1, <1>2 DEF Sent
    <3>2. \A k \in 1..Len(accepted) : accepted[k] \in Clicks /\ Sent(accepted[k])
      BY DEF ClicksSent, Typed
    <3>3. \A k \in 1..Len(accepted') : pc'[accepted'[k]] = "answered" /\ Drawn(url[accepted'[k]])
      BY <1>3, <3>1, <3>2
    <3> QED BY <1>0, <3>3 DEF Sent, Drawn
  <2>3. (\A k \in 1..Len(handed) : Sent(handed[k])') /\ (\A m \in table : Sent(m)')
    BY <1>0, <1>2 DEF ClicksSent, Typed
  <2> QED BY <1>0, <2>1, <2>2, <2>3 DEF ClicksSent
<1>6. Increments' /\ CountsRedirects'
  <2>1. \A m \in Clicks : pc'[m] = "new" => pc[m] = "new"
    BY <1>1
  <2> QED BY <1>0, <2>1 DEF Increments, CountsRedirects, Removed, Drawn
<1>7. NoOrphanClicks' /\ LossHasCause'
  BY <1>0 DEF NoOrphanClicks, LossHasCause, Removed
<1> QED BY <1>4, <1>5, <1>6, <1>7

\* One more is counted, in the columns of all rows with the code and in no other.
LEMMA IncrementClickHolds ==
  ASSUME IInv, NEW n \in Clicks, IncrementClick(n)
  PROVE  IInv'
<1> USE DEF IInv
<1>0. /\ UNCHANGED <<accepted, handed, phase, rows, code, stale, pc, asked, url, table, spoiled>>
      /\ inc[n] = "pending"
  BY DEF IncrementClick, logVars, lifeVars
<1>1. Typed'
  <2>1. counter' \in [Ids -> Nat]
    BY DEF IncrementClick, Typed
  <2>2. inc' \in [Clicks -> {"none", "pending", "done", "failed"}]
    BY DEF IncrementClick, Typed
  <2> QED BY <1>0, <2>1, <2>2 DEF Typed, Drawn
<1>2. ClicksSent' /\ NoOrphanClicks' /\ LossHasCause'
  BY <1>0 DEF ClicksSent, NoOrphanClicks, LossHasCause, Sent, Removed, Drawn
<1>3. /\ \A m \in Clicks \ {n} : inc'[m] = inc[m]
      /\ inc'[n] \in {"done", "failed"}
  BY DEF IncrementClick, Typed
<1>4. \A m \in Clicks : (pc'[m] = "new" => inc'[m] = "none") /\ (inc'[m] # "none" => inc[m] # "none")
  BY <1>0, <1>3 DEF Increments
<1>5. CASE inc'[n] = "failed"
  <2>1. counter' = counter /\ \A m \in Clicks : inc'[m] = "done" <=> inc[m] = "done"
    BY <1>0, <1>3, <1>5 DEF IncrementClick, Typed
  <2>2. {m \in Clicks : inc'[m] = "done"} = {m \in Clicks : inc[m] = "done"}
    BY <2>1
  <2>3. Increments'
    BY <1>0, <1>4, <2>1, <2>2 DEF Increments, Drawn
  <2>4. \A d : Counted(d)' = Counted(d)
    BY <1>0, <2>1 DEF Counted
  <2>5. CountsRedirects'
    BY <1>0, <2>1, <2>4 DEF CountsRedirects, Counted, Removed
  <2> QED BY <1>1, <1>2, <2>3, <2>5
<1>6. CASE inc'[n] = "done"
  <2>1. counter' = [i \in Ids |-> IF i \in rows /\ code[i] = asked[n]
                                     THEN counter[i] + 1 ELSE counter[i]]
    BY <1>6 DEF IncrementClick, Typed
  <2>2. {m \in Clicks : inc'[m] = "done"} = {m \in Clicks : inc[m] = "done"} \cup {n}
    BY <1>3, <1>6
  <2>3. IsFiniteSet({m \in Clicks : inc'[m] = "done"})
    BY <2>2, FS_AddElement DEF Increments
  <2>4. \A i \in Ids : code[i] = NoCode => counter'[i] = 0
    BY <2>1 DEF Increments, Typed, Drawn
  <2>5. \A i \in Ids : counter'[i] <= Cardinality({m \in Clicks : inc'[m] = "done"})
    <3> DEFINE D == {m \in Clicks : inc[m] = "done"}
    <3>1. IsFiniteSet(D) /\ n \notin D /\ Cardinality(D) \in Nat
      BY <1>0, FS_CardinalityType DEF Increments
    <3>2. Cardinality({m \in Clicks : inc'[m] = "done"}) = Cardinality(D) + 1
      BY <2>2, <3>1, FS_AddElement
    <3>3. \A i \in Ids : counter[i] \in Nat /\ counter[i] <= Cardinality(D)
      BY DEF Increments, Typed
    <3> HIDE DEF D
    <3> QED BY <2>1, <3>1, <3>2, <3>3
  <2>5a. Increments'
    BY <1>0, <1>4, <2>3, <2>4, <2>5 DEF Increments, Drawn
  <2>6. ASSUME NEW i \in rows PROVE CountOf(i)'
    <3>1. /\ CountOf(i) /\ counter[i] \in Nat /\ i \in Ids
          /\ IsFiniteSet(Counted(code[i])) /\ Cardinality(Counted(code[i])) \in Nat
      BY CountsByColumn, CountedFinite DEF Typed, Drawn
    <3>2. Exact(i)' => Exact(i)
      BY <1>0 DEF Exact, Removed
    <3>3. CASE code[i] = asked[n]
      <4>1. Counted(code[i])' = Counted(code[i]) \cup {n} /\ n \notin Counted(code[i])
        BY <1>0, <1>3, <1>6, <3>3 DEF Counted
      <4>2. Cardinality(Counted(code[i]) \cup {n}) = Cardinality(Counted(code[i])) + 1
        BY <3>1, <4>1, FS_AddElement
      <4>3. counter'[i] = counter[i] + 1
        BY <2>1, <3>1, <3>3
      <4> QED BY <1>0, <3>1, <3>2, <4>1, <4>2, <4>3 DEF CountOf
    <3>4. CASE code[i] # asked[n]
      <4>1. Counted(code[i])' = Counted(code[i])
        BY <1>0, <1>3, <1>6, <3>4 DEF Counted
      <4>2. counter'[i] = counter[i]
        BY <2>1, <3>1, <3>4
      <4> QED BY <1>0, <3>1, <3>2, <4>1, <4>2 DEF CountOf
    <3> QED BY <3>3, <3>4
  <2>7. CountsRedirects'
    BY <1>0, <2>6 DEF CountsRedirects, CountOf, Exact, Counted
  <2> QED BY <1>1, <1>2, <2>5a, <2>7
<1> QED BY <1>3, <1>5, <1>6

----------------------------------------------------------------------------
\* The collector's flush

\* A batch is the next stretch of the accepted clicks.
LEMMA BatchInLine ==
  ASSUME Typed, NEW k \in 1..BatchSize, Len(handed) + k <= Len(accepted)
  PROVE  /\ NextInLine(k) \in Seq(Clicks) /\ Len(NextInLine(k)) = k
         /\ \A j \in 1..k : /\ Len(handed) + j \in 1..Len(accepted)
                            /\ NextInLine(k)[j] = accepted[Len(handed) + j]
         /\ Range(NextInLine(k)) = {NextInLine(k)[j] : j \in 1..k}
<1> DEFINE first == Len(handed) + 1
           last == Len(handed) + k
<1>1. /\ Len(handed) \in Nat /\ Len(accepted) \in Nat /\ k \in Nat \ {0}
      /\ \A j \in 1..Len(accepted) : accepted[j] \in Clicks
  BY ClickLogAssumption DEF Typed
<1>2. /\ first \in Int /\ last \in Int /\ first <= last /\ last - first + 1 = k
      /\ \A j \in first..last : j \in 1..Len(accepted)
      /\ \A j \in 1..k : first + j - 1 = Len(handed) + j /\ Len(handed) + j \in first..last
  BY <1>1
<1>3. \A j \in first..last : accepted[j] \in Clicks
  BY <1>1, <1>2
<1> HIDE DEF first, last
<1>4. /\ SubSeq(accepted, first, last) \in Seq(Clicks)
      /\ Len(SubSeq(accepted, first, last)) = k
      /\ \A j \in 1..k : SubSeq(accepted, first, last)[j] = accepted[first + j - 1]
  BY <1>2, <1>3, SubSeqProperties
<1>5. NextInLine(k) = SubSeq(accepted, first, last)
  BY DEF NextInLine, first, last
<1>6. DOMAIN NextInLine(k) = 1..k
  BY <1>4, <1>5
<1> QED BY <1>2, <1>4, <1>5, <1>6 DEF Range

LEMMA FlushHolds ==
  ASSUME IInv, NEW k \in 1..BatchSize, Flush(k)
  PROVE  IInv'
<1> USE DEF IInv
<1> DEFINE b == NextInLine(k)
<1>0. /\ UNCHANGED <<accepted, phase, rows, code, stale, pc, asked, url, inc, counter>>
      /\ handed' = handed \o b /\ Len(handed) + k <= Len(accepted)
  BY DEF Flush, HandOver, lifeVars, redirectVars
<1>1. /\ b \in Seq(Clicks) /\ Len(b) = k /\ Range(b) = {b[j] : j \in 1..k}
      /\ \A j \in 1..k : Len(handed) + j \in 1..Len(accepted) /\ b[j] = accepted[Len(handed) + j]
  BY <1>0, BatchInLine
<1>2. \A n \in Range(b) : n \in Clicks /\ Sent(n)
  <2>1. \A j \in 1..Len(accepted) : accepted[j] \in Clicks /\ Sent(accepted[j])
    BY DEF ClicksSent, Typed
  <2> HIDE DEF b
  <2> QED BY <1>1, <2>1
<1>3. /\ \/ table' = table \cup Range(b) /\ \A n \in Range(b) : url[n] \in rows
         \/ table' = table
      /\ spoiled' \in {spoiled, spoiled \cup Range(b)}
      /\ \/ \A j \in 1..k : b[j] \in table' \cup spoiled'
         \/ \E j \in 1..k : url[b[j]] \notin rows
  BY <1>1 DEF Flush, Insertable
<1> HIDE DEF b
<1>4. /\ Len(handed) \in Nat /\ k \in Nat /\ BatchSize \in Nat /\ k <= BatchSize
      /\ handed' \in Seq(Clicks) /\ Len(handed') = Len(handed) + k
      /\ \A j \in 1..Len(handed) : handed'[j] = handed[j]
      /\ \A j \in 1..k : handed'[Len(handed) + j] = b[j]
  <2>1. /\ Len(handed) \in Nat /\ k \in Nat /\ BatchSize \in Nat /\ k <= BatchSize
        /\ handed \in Seq(Clicks)
    BY ClickLogAssumption DEF Typed
  <2>2. /\ handed \o b \in Seq(Clicks) /\ Len(handed \o b) = Len(handed) + k
        /\ \A j \in 1..(Len(handed) + k) :
             (handed \o b)[j] = IF j <= Len(handed) THEN handed[j] ELSE b[j - Len(handed)]
    BY <1>1, <2>1, ConcatProperties
  <2> QED BY <1>0, <2>1, <2>2
<1>5. \A j \in 1..Len(handed') :
        \/ j \in 1..Len(handed)
        \/ \E i \in 1..k : j = Len(handed) + i
  <2> SUFFICES ASSUME NEW j \in 1..Len(handed'), j \notin 1..Len(handed)
               PROVE  j - Len(handed) \in 1..k /\ j = Len(handed) + (j - Len(handed))
    OBVIOUS
  <2> QED BY <1>4
<1>6. Typed'
  BY <1>0, <1>2, <1>3, <1>4 DEF Typed, Drawn
<1>7. ClicksSent'
  <2>1. \A n : Sent(n)' <=> Sent(n)
    BY <1>0 DEF Sent, Drawn
  <2>2. \A j \in 1..Len(handed') : Sent(handed'[j])
    BY <1>1, <1>2, <1>4, <1>5 DEF ClicksSent
  <2>3. \A n \in table' : Sent(n)
    BY <1>2, <1>3 DEF ClicksSent
  <2> QED BY <1>0, <2>1, <2>2, <2>3 DEF ClicksSent, Sent, Drawn
<1>8. Increments' /\ CountsRedirects'
  BY <1>0 DEF Increments, CountsRedirects, Removed, Drawn
<1>9. NoOrphanClicks'
  BY <1>0, <1>3 DEF NoOrphanClicks
<1>10. LossHasCause'
  <2> DEFINE Cause(j) == \E m \in 1..Len(handed') :
               m > j - BatchSize /\ m < j + BatchSize /\ Removed(url[handed'[m]])
  <2>1. ASSUME NEW j \in 1..Len(handed) PROVE handed'[j] \in table' \cup spoiled' \/ Cause(j)
    <3>1. CASE handed[j] \in table \cup spoiled
      BY <1>3, <1>4, <3>1
    <3>2. ASSUME NEW m \in 1..Len(handed),
                 m > j - BatchSize, m < j + BatchSize, Removed(url[handed[m]])
          PROVE  Cause(j)
      <4>1. m \in 1..Len(handed') /\ handed'[m] = handed[m]
        BY <1>4
      <4> QED BY <3>2, <4>1
    <3> QED BY <3>1, <3>2 DEF LossHasCause
  <2>2. ASSUME NEW j \in 1..k
        PROVE  handed'[Len(handed) + j] \in table' \cup spoiled' \/ Cause(Len(handed) + j)
    <3>1. CASE b[j] \in table' \cup spoiled'
      BY <1>4, <3>1
    <3>2. ASSUME NEW i \in 1..k, url[b[i]] \notin rows
          PROVE  Cause(Len(handed) + j)
      <4>1. Drawn(url[b[i]])
        BY <1>1, <1>2 DEF Sent
      <4>2. Removed(url[b[i]])
        BY <3>2, <4>1 DEF Removed, Drawn
      <4>3. /\ Len(handed) + i \in 1..Len(handed')
            /\ Len(handed) + i > (Len(handed) + j) - BatchSize
            /\ Len(handed) + i < (Len(handed) + j) + BatchSize
        BY <1>4
      <4>4. Removed(url[handed'[Len(handed) + i]])
        BY <1>4, <4>2 DEF Removed
      <4> QED BY <4>3, <4>4
    <3> QED BY <1>3, <3>1, <3>2
  <2>3. \A j \in 1..Len(handed') : handed'[j] \in table' \cup spoiled' \/ Cause(j)
    BY <1>5, <2>1, <2>2
  <2> QED BY <1>0, <2>3 DEF LossHasCause, Removed
<1> QED BY <1>6, <1>7, <1>8, <1>9, <1>10

----------------------------------------------------------------------------
\* The dashboard

\* The pairs that ClicksOf counts, for a column f.
Pairs(S, f) == UNION {{i} \X (1..f[i]) : i \in S}

LEMMA IdsFinite ==
  /\ IsFiniteSet(Ids) /\ Cardinality(Ids) = MaxId /\ MaxId \in Nat
  /\ \A S \in SUBSET Ids :
       IsFiniteSet(S) /\ Cardinality(S) \in Nat /\ Cardinality(S) <= Cardinality(Ids)
<1>1. /\ 1 \in Int /\ MaxId \in Int /\ MaxId \in Nat
  BY LinkLifeAssumption
<1>2. IsFiniteSet(Ids) /\ Cardinality(Ids) = IF 1 > MaxId THEN 0 ELSE MaxId - 1 + 1
  BY <1>1, FS_Interval DEF Ids
<1>3. Cardinality(Ids) = MaxId
  BY <1>1, <1>2
<1>4. ASSUME NEW S \in SUBSET Ids
      PROVE  IsFiniteSet(S) /\ Cardinality(S) \in Nat /\ Cardinality(S) <= Cardinality(Ids)
  BY <1>2, FS_Subset, FS_CardinalityType
<1> QED BY <1>1, <1>2, <1>3, <1>4

LEMMA PairsFinite ==
  ASSUME NEW S \in SUBSET Ids, NEW f \in [Ids -> Nat]
  PROVE  IsFiniteSet(Pairs(S, f)) /\ Cardinality(Pairs(S, f)) \in Nat
<1>1. IsFiniteSet(S)
  BY IdsFinite
<1>2. ASSUME NEW i \in S PROVE IsFiniteSet({i} \X (1..f[i]))
  <2>1. IsFiniteSet({i})
    BY FS_Singleton
  <2>2. f[i] \in Int /\ 1 \in Int
    OBVIOUS
  <2>3. IsFiniteSet(1..f[i])
    BY <2>2, FS_Interval
  <2> QED BY <2>1, <2>3, FS_Product
<1>3. IsFiniteSet({{i} \X (1..f[i]) : i \in S})
  <2> DEFINE P(i) == {i} \X (1..f[i])
             h == [i \in S |-> P(i)]
  <2>1. h \in Surjection(S, {P(i) : i \in S})
    <3> HIDE DEF P
    <3> QED BY DEF Surjection
  <2>2. IsFiniteSet({P(i) : i \in S})
    <3> HIDE DEF h, P
    <3> QED BY <1>1, <2>1, FS_Surjection
  <2> QED BY <2>2
<1>4. IsFiniteSet(Pairs(S, f))
  BY <1>2, <1>3, FS_UNION DEF Pairs
<1> QED BY <1>4, FS_CardinalityType

\* A sum does not fall when rows come and columns rise.
LEMMA PairsGrow ==
  ASSUME NEW S, NEW T \in SUBSET Ids, S \subseteq T,
         NEW f \in [Ids -> Nat], NEW g \in [Ids -> Nat], \A i \in S : f[i] <= g[i]
  PROVE  Cardinality(Pairs(S, f)) <= Cardinality(Pairs(T, g))
<1>1. ASSUME NEW i \in S PROVE {i} \X (1..f[i]) \subseteq {i} \X (1..g[i])
  <2>1. 1..f[i] \subseteq 1..g[i]
    <3>1. f[i] \in Nat /\ g[i] \in Nat /\ f[i] <= g[i]
      OBVIOUS
    <3> QED BY <3>1
  <2> QED BY <2>1
<1>2. Pairs(S, f) \subseteq Pairs(T, g)
  BY <1>1 DEF Pairs
<1> QED BY <1>2, PairsFinite, FS_Subset

\* A list that is not full is the whole of the set: else take the element outside of it that
\* has the fewest larger ones.  They are all listed, so they are less than n, and it is too.
LEMMA ShortListIsAll ==
  ASSUME NEW S, IsFiniteSet(S), NEW n \in Nat, S \subseteq Int,
         Cardinality(Newest(S, n)) < n
  PROVE  Newest(S, n) = S
<1> DEFINE Larger(i) == {j \in S : j > i}
           Left == {Larger(i) : i \in S \ Newest(S, n)}
<1> SUFFICES ASSUME S \ Newest(S, n) # {} PROVE FALSE
  BY DEF Newest
<1>1. Left # {} /\ Left \subseteq FiniteSubsetsOf(S)
  <2>1. \A i : Larger(i) \in SUBSET S
    OBVIOUS
  <2>2. \A T \in SUBSET S : T \in FiniteSubsetsOf(S)
    BY FS_Subset DEF FiniteSubsetsOf
  <2>3. Left # {}
    OBVIOUS
  <2> QED BY <2>1, <2>2, <2>3
<1>2. PICK U \in Left : \A V \in Left : <<V, U>> \notin StrictSubsetOrdering(S)
  <2> HIDE DEF Left
  <2> QED BY <1>1, FS_StrictSubsetOrderingWellFounded, WFMin
<1>3. PICK i \in S \ Newest(S, n) : U = Larger(i)
  BY <1>2
<1>4. ASSUME NEW j \in Larger(i) PROVE j \in Newest(S, n)
  <2> SUFFICES ASSUME j \notin Newest(S, n) PROVE FALSE
    OBVIOUS
  <2>1. Larger(j) \in Left
    BY <1>4
  <2>2. Larger(j) \subseteq Larger(i) /\ j \notin Larger(j) /\ j \in Larger(i)
    <3>1. i \in Int /\ j \in Int /\ j > i /\ ~(j > j)
      BY <1>4
    <3>2. \A l \in S : l > j => l > i
      BY <3>1
    <3> QED BY <1>4, <3>1, <3>2
  <2>3. <<Larger(j), Larger(i)>> \in StrictSubsetOrdering(S)
    BY <1>4, <2>2 DEF StrictSubsetOrdering
  <2> QED BY <1>2, <1>3, <2>1, <2>3
<1>5. Larger(i) \in SUBSET Newest(S, n) /\ IsFiniteSet(Newest(S, n))
  BY <1>4, FS_Subset DEF Newest
<1>6. Cardinality(Larger(i)) <= Cardinality(Newest(S, n))
  BY <1>5, FS_Subset
<1>7. Cardinality(Larger(i)) \in Nat /\ Cardinality(Newest(S, n)) \in Nat
  BY <1>5, FS_Subset, FS_CardinalityType
<1>8. Cardinality(Larger(i)) < n
  BY <1>6, <1>7
<1> QED BY <1>3, <1>8 DEF Newest

\* The table of links, as the dashboard measures it.
LEMMA RowsFinite ==
  ASSUME Typed
  PROVE  /\ rows \in SUBSET Ids /\ IsFiniteSet(rows) /\ Cardinality(rows) \in 0..MaxId
         /\ Cardinality(rows) \in Nat /\ ClicksOf(rows) \in Nat
<1>1. rows \in SUBSET Ids
  BY DEF Typed, Drawn
<1>2. MaxId \in Nat
  BY IdsFinite
<1>3. IsFiniteSet(rows) /\ Cardinality(rows) <= MaxId /\ Cardinality(rows) \in Nat
  BY <1>1, IdsFinite
<1>4. ClicksOf(rows) = Cardinality(Pairs(rows, counter))
  BY DEF ClicksOf, Pairs
<1>5. ClicksOf(rows) \in Nat
  BY <1>1, <1>4, PairsFinite DEF Typed
<1> QED BY <1>1, <1>2, <1>3, <1>5

\* What a dashboard request has read is not more than what is there, unless a link went.
DashTyped == dash \in [at : {"idle", "summary"}, links : 0..MaxId, clicks : Nat, cut : BOOLEAN]
TotalsBelow ==
  dash.at = "summary" /\ ~dash.cut =>
    dash.links <= Cardinality(rows) /\ dash.clicks <= ClicksOf(rows)
DashInv == DashTyped /\ TotalsBelow

\* Without a removal the tables only grow.
LEMMA TotalsGrow ==
  ASSUME IInv, IInv', DashInv, dash' = dash,
         rows \subseteq rows', \A i \in rows : counter[i] <= counter'[i]
  PROVE  DashInv'
<1>1. /\ Typed /\ Cardinality(rows) \in Nat /\ ClicksOf(rows) \in Nat
      /\ rows \subseteq Ids /\ counter \in [Ids -> Nat]
  BY RowsFinite DEF IInv, Typed
<1>2. /\ rows' \in SUBSET Ids /\ IsFiniteSet(rows') /\ Cardinality(rows') \in Nat
      /\ counter' \in [Ids -> Nat]
  <2>1. rows' \in SUBSET Ids /\ counter' \in [Ids -> Nat]
    BY DEF IInv, Typed, Drawn
  <2> QED BY <2>1, IdsFinite
<1>3. Cardinality(rows) <= Cardinality(rows')
  BY <1>2, FS_Subset
<1>4. Cardinality(Pairs(rows, counter)) <= Cardinality(Pairs(rows', counter'))
  BY <1>1, <1>2, PairsGrow
<1>5. Cardinality(Pairs(rows', counter')) \in Nat
  BY <1>2, PairsFinite
<1>6. /\ ClicksOf(rows) = Cardinality(Pairs(rows, counter))
      /\ ClicksOf(rows)' = Cardinality(Pairs(rows', counter'))
  BY DEF ClicksOf, Pairs
<1>7. DashTyped'
  BY DEF DashInv, DashTyped
<1>8. ASSUME dash.at = "summary", ~dash.cut
      PROVE  dash.links <= Cardinality(rows') /\ dash.clicks <= ClicksOf(rows)'
  <2>1. dash.links \in Nat /\ dash.clicks \in Nat
    BY LinkLifeAssumption DEF DashInv, DashTyped
  <2>2. dash.links <= Cardinality(rows) /\ dash.clicks <= ClicksOf(rows)
    BY <1>8 DEF DashInv, TotalsBelow
  <2> QED BY <1>1, <1>2, <1>3, <1>4, <1>5, <1>6, <2>1, <2>2
<1> QED BY <1>7, <1>8 DEF DashInv, TotalsBelow

LEMMA RemoveCuts ==
  ASSUME DashInv, NEW S, Remove(S)
  PROVE  DashInv'
<1>1. dash' = [dash EXCEPT !.cut = dash.at # "idle"]
  BY DEF Remove
<1>2. dash' \in [at : {"idle", "summary"}, links : 0..MaxId, clicks : Nat, cut : BOOLEAN]
  BY <1>1 DEF DashInv, DashTyped
<1>3. dash'.at = dash.at /\ dash'.cut = (dash.at # "idle")
  BY <1>1 DEF DashInv, DashTyped
<1> QED BY <1>2, <1>3 DEF DashInv, DashTyped, TotalsBelow

\* The first query: the totals of this moment.
LEMMA SummariseHolds ==
  ASSUME IInv, Summarise
  PROVE  DashInv'
<1>1. /\ Cardinality(rows) \in 0..MaxId /\ ClicksOf(rows) \in Nat /\ Cardinality(rows) \in Nat
  BY RowsFinite DEF IInv
<1>2. /\ dash' = [at |-> "summary", links |-> Cardinality(rows), clicks |-> ClicksOf(rows),
                 cut |-> FALSE]
      /\ rows' = rows /\ counter' = counter
  BY DEF Summarise, NoDash, lifeVars
<1>3. DashTyped'
  BY <1>1, <1>2 DEF DashTyped
<1>4. Cardinality(rows') = Cardinality(rows) /\ ClicksOf(rows)' = ClicksOf(rows)
  BY <1>2 DEF ClicksOf
<1>5. dash'.links = Cardinality(rows) /\ dash'.clicks = ClicksOf(rows)
  BY <1>2
<1>6. dash'.links <= Cardinality(rows') /\ dash'.clicks <= ClicksOf(rows)'
  BY <1>1, <1>4, <1>5
<1> QED BY <1>3, <1>6 DEF DashInv, TotalsBelow

\* A click more in the columns of a code.
LEMMA ColumnsRise ==
  ASSUME Typed, NEW n \in Clicks, IncrementClick(n)
  PROVE  rows' = rows /\ dash' = dash /\ \A i \in rows : counter[i] <= counter'[i]
<1>1. \A i \in rows : i \in Ids /\ counter[i] \in Nat
  BY DEF Typed, Drawn
<1>2. \A i \in rows : counter'[i] = counter[i] \/ counter'[i] = counter[i] + 1
  BY <1>1 DEF IncrementClick
<1> QED BY <1>1, <1>2 DEF IncrementClick, lifeVars

LEMMA DashNext == IInv /\ IInv' /\ DashInv /\ [Next]_vars => DashInv'
<1> SUFFICES ASSUME IInv, IInv', DashInv, [Next]_vars PROVE DashInv'
  OBVIOUS
<1>1. ASSUME dash' = dash, rows \subseteq rows', counter' = counter PROVE DashInv'
  <2>1. \A i \in rows : counter[i] <= counter'[i]
    BY <1>1 DEF IInv, Typed, Drawn
  <2> QED BY <1>1, <2>1, TotalsGrow
<1>2. CASE \E i \in Ids, c \in Codes : Create(i, c)
  BY <1>1, <1>2 DEF Create, Add
<1>3. CASE \E S \in SUBSET Ids : Remove(S)
  BY <1>3, RemoveCuts
<1>4. CASE \E S \in SUBSET Ids : LoseCopies(S)
  BY <1>1, <1>4 DEF LoseCopies, Forget
<1>5. ASSUME NEW n \in Clicks,
             (\E c \in Codes : Follow(n, c)) \/ RecordClick(n) \/ Send(n)
      PROVE  DashInv'
  BY <1>1, <1>5 DEF Follow, RecordClick, Send, lifeVars
<1>6. ASSUME NEW n \in Clicks, IncrementClick(n) PROVE DashInv'
  BY <1>6, ColumnsRise, TotalsGrow DEF IInv
<1>7. CASE \E k \in 1..BatchSize : Flush(k)
  BY <1>1, <1>7 DEF Flush, lifeVars
<1>8. CASE Summarise
  BY <1>8, SummariseHolds
<1>9. CASE ListRecent \/ SecondQueryFails
  <2>1. dash' = NoDash
    BY <1>9 DEF ListRecent, SecondQueryFails
  <2>2. NoDash \in [at : {"idle", "summary"}, links : 0..MaxId, clicks : Nat, cut : BOOLEAN]
    BY LinkLifeAssumption DEF NoDash
  <2> QED BY <2>1, <2>2 DEF DashInv, DashTyped, TotalsBelow, NoDash
<1>10. CASE UNCHANGED vars
  BY <1>1, <1>10 DEF vars, lifeVars
<1> QED BY <1>2, <1>3, <1>4, <1>5, <1>6, <1>7, <1>8, <1>9, <1>10 DEF Next

LEMMA DashInit == Init => DashInv
<1> SUFFICES ASSUME Init PROVE DashInv
  OBVIOUS
<1>1. dash = [at |-> "idle", links |-> 0, clicks |-> 0, cut |-> FALSE]
  BY DEF Init, NoDash
<1>2. dash \in [at : {"idle", "summary"}, links : 0..MaxId, clicks : Nat, cut : BOOLEAN]
  BY <1>1, LinkLifeAssumption
<1> QED BY <1>1, <1>2 DEF DashInv, DashTyped, TotalsBelow

----------------------------------------------------------------------------
\* Theorems

LEMMA NextHolds == IInv /\ [Next]_vars => IInv'
<1> SUFFICES ASSUME IInv, [Next]_vars PROVE IInv'
  OBVIOUS
<1>1. CASE \E i \in Ids, c \in Codes : Create(i, c)
  BY <1>1, CreateHolds
<1>2. CASE \E S \in SUBSET Ids : Remove(S)
  BY <1>2, RemoveHolds
<1>3. ASSUME NEW S \in SUBSET Ids, LoseCopies(S) PROVE IInv'
  BY <1>3, ReadsHold DEF LoseCopies, Forget
<1>4. ASSUME NEW n \in Clicks,
             \/ \E c \in Codes : Follow(n, c)
             \/ RecordClick(n) \/ Send(n) \/ IncrementClick(n)
      PROVE  IInv'
  BY <1>4, FollowHolds, RecordClickHolds, SendHolds, IncrementClickHolds
<1>5. CASE \E k \in 1..BatchSize : Flush(k)
  BY <1>5, FlushHolds
<1>6. CASE Summarise \/ ListRecent \/ SecondQueryFails \/ UNCHANGED vars
  BY <1>6, ReadsHold DEF Summarise, ListRecent, SecondQueryFails, vars, lifeVars
<1> QED BY <1>1, <1>2, <1>3, <1>4, <1>5, <1>6 DEF Next

\* The invariant holds in every reachable state.
THEOREM Invariance == Spec => []IInv
BY InitHolds, NextHolds, PTL DEF Spec

\* With it, what a dashboard request has read.
THEOREM DashInvariance == Spec => []DashInv
BY Invariance, DashInit, DashNext, PTL DEF Spec

\* The types.  The one bound that needs finitely many redirects is that of the columns.
THEOREM TypeInvariance ==
  ASSUME IsFiniteSet(Clicks)
  PROVE  Spec => []TypeOK
<1>1. ASSUME IInv, DashInv PROVE TypeOK
  <2>0. Typed /\ Increments
    BY <1>1 DEF IInv
  <2>1. Range(accepted) \subseteq Clicks /\ Range(handed) \subseteq Clicks
    BY <2>0 DEF Typed, Range
  <2>2. rows \subseteq {i \in Ids : code[i] # NoCode} /\ stale \subseteq {i \in Ids : Removed(i)}
    BY <2>0 DEF Typed, Drawn, Removed
  <2>3. counter \in [Ids -> 0..Cardinality(Clicks)]
    <3> DEFINE D == {n \in Clicks : inc[n] = "done"}
    <3>1. /\ Cardinality(D) <= Cardinality(Clicks)
          /\ Cardinality(D) \in Nat /\ Cardinality(Clicks) \in Nat
      BY FS_Subset, FS_CardinalityType
    <3>2. /\ counter \in [Ids -> Nat]
          /\ \A i \in Ids : counter[i] <= Cardinality(D)
      BY <2>0 DEF Typed, Increments
    <3> HIDE DEF D
    <3>3. \A i \in Ids : counter[i] \in 0..Cardinality(Clicks)
      BY <3>1, <3>2
    <3> QED BY <3>2, <3>3
  <2>4. dash \in [at : {"idle", "summary"}, links : 0..MaxId, clicks : Nat, cut : BOOLEAN]
    BY <1>1 DEF DashInv, DashTyped
  <2> QED BY <2>0, <2>1, <2>2, <2>3, <2>4 DEF TypeOK, Typed
<1>2. IInv /\ DashInv => TypeOK
  BY <1>1
<1> QED BY <1>2, Invariance, DashInvariance, PTL

\* The totals of a dashboard are not above what its list shows, unless a link was removed
\* between its two queries: all the list misses is what came after the totals.
THEOREM DashboardConsistent == Spec => DashboardDrift
<1> DEFINE Drift == ListRecent /\ ~dash.cut /\ Cardinality(Recent) < RecentLimit =>
                      dash.links <= Cardinality(Recent) /\ dash.clicks <= ClicksOf(Recent)
<1>1. ASSUME IInv, DashInv, ListRecent, ~dash.cut, Cardinality(Recent) < RecentLimit
      PROVE  dash.links <= Cardinality(Recent) /\ dash.clicks <= ClicksOf(Recent)
  <2>1. rows \in SUBSET Ids /\ IsFiniteSet(rows)
    BY <1>1, RowsFinite DEF IInv
  <2>2. rows \subseteq Int /\ RecentLimit \in Nat
    BY <2>1, AnalyticsAssumption DEF Ids
  <2>3. Recent = rows
    BY <1>1, <2>1, <2>2, ShortListIsAll DEF Recent
  <2>4. dash.links <= Cardinality(rows) /\ dash.clicks <= ClicksOf(rows)
    BY <1>1 DEF DashInv, TotalsBelow, ListRecent
  <2> QED BY <2>3, <2>4
<1>2. IInv /\ DashInv /\ [Next]_vars => [Drift]_vars
  BY <1>1
<1> HIDE DEF Drift
<1>3. Spec => [][Drift]_vars
  BY <1>2, Invariance, DashInvariance, PTL DEF Spec
<1> QED BY <1>3 DEF DashboardDrift, Drift

\* No row of clicks outlives its link, whatever is still in the channel or in a batch when the
\* link is removed.
THEOREM NoOrphans == Spec => []NoOrphanClicks
<1>1. IInv => NoOrphanClicks
  BY DEF IInv
<1> QED BY <1>1, Invariance, PTL

\* The column of a link counts its redirects, each once, and misses none but for failures and
\* earlier links of its code.
THEOREM ColumnCounts == Spec => []CountsRedirects
<1>1. IInv => CountsRedirects
  BY DEF IInv
<1> QED BY <1>1, Invariance, PTL

\* A click that was handed over and is not in the table was in a failed INSERT, or within a
\* batch's length of a click of a removed link, for every size of a batch.
THEOREM LossesExplained == Spec => []LossHasCause
<1>1. IInv => LossHasCause
  BY DEF IInv
<1> QED BY <1>1, Invariance, PTL

=============================================================================
