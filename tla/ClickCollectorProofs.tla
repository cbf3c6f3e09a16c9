------------------------ MODULE ClickCollectorProofs --------------------------
(***************************************************************************)
(* Proofs about ClickCollector, for every number of handlers and of        *)
(* clicks, every capacity of the channel and every size of a batch.        *)
(***************************************************************************)
EXTENDS ClickCollector, SequenceTheorems, TLAPS

----------------------------------------------------------------------------
\* The inductive invariant

\* A handler that is busy has a click that has arrived.
Busy(h) == pc[h] # "idle"
ClicksInHand == \A h \in Handlers : Busy(h) => click[h] \in 1..arrived

\* How far the process has stopped: main stops the collector when no handler is left, and
\* closes the stores when the collector is over.
StopOrder ==
  /\ done <=> main \in {"waiting", "closing", "exited"}
  /\ dbOpen <=> main \notin {"closing", "exited"}
  /\ main \in {"stopping", "waiting", "closing", "exited"} => \A h \in Handlers : ~Busy(h)
  /\ main \in {"closing", "exited"} => coll = "returned"
  /\ coll \in {"lastFlush", "returned"} => done

\* What the batch holds, by the place of the collector.
BatchOrder ==
  /\ coll = "select" => Len(batch) < BatchSize
  /\ coll \in {"flush", "lastFlush"} => batch # <<>>
  /\ coll = "returned" => batch = <<>>

\* A click that a handler has was not accepted yet, nor is it in another handler's hands.
Fresh ==
  /\ \A k \in 1..Len(accepted) : accepted[k] \in 1..arrived
  /\ \A h \in Handlers : Busy(h) => \A k \in 1..Len(accepted) : accepted[k] # click[h]
  /\ \A h, g \in Handlers : Busy(h) /\ Busy(g) /\ h # g => click[h] # click[g]

IInv == TypeOK /\ ClicksInHand /\ StopOrder /\ BatchOrder /\ Accounted /\ Fresh

----------------------------------------------------------------------------
\* Lemmas about sequences

\* A sequence is its head followed by its tail.
LEMMA HeadAndTail ==
  ASSUME NEW S, NEW s \in Seq(S), s # <<>>
  PROVE  /\ <<Head(s)>> \in Seq(S)
         /\ s = <<Head(s)>> \o Tail(s)
<1> DEFINE t == <<Head(s)>> \o Tail(s)
<1>1. Head(s) \in S /\ Tail(s) \in Seq(S) /\ Len(Tail(s)) = Len(s) - 1
  BY HeadTailProperties
<1>2. <<Head(s)>> \in Seq(S) /\ Len(<<Head(s)>>) = 1 /\ <<Head(s)>>[1] = Head(s)
  BY <1>1
<1>3. Len(s) \in Nat \ {0}
  BY EmptySeq
<1>4. t \in Seq(S) /\ Len(t) = Len(s)
  BY <1>1, <1>2, <1>3, ConcatProperties
<1>5. \A i \in 1..Len(s) : t[i] = s[i]
  <2> TAKE i \in 1..Len(s)
  <2>1. t[i] = IF i <= 1 THEN <<Head(s)>>[i] ELSE Tail(s)[i - 1]
    BY <1>1, <1>2, <1>3, ConcatProperties
  <2>2. CASE i = 1
    BY <2>1, <2>2, <1>2
  <2>3. CASE i # 1
    <3>1. i - 1 \in 1..Len(Tail(s)) /\ (i - 1) + 1 = i
      BY <2>3, <1>1, <1>3
    <3>2. Tail(s)[i - 1] = s[(i - 1) + 1]
      BY <3>1, HeadTailProperties
    <3> QED BY <2>1, <2>3, <3>1, <3>2
  <2> QED BY <2>2, <2>3
<1>6. s = t
  BY <1>4, <1>5, SeqEqual
<1> QED BY <1>2, <1>6

\* The clicks between the first and the last of three sequences are the second.
LEMMA MiddlePart ==
  ASSUME NEW S, NEW a \in Seq(S), NEW b \in Seq(S), NEW c \in Seq(S), b # <<>>
  PROVE  /\ Len(a) + Len(b) <= Len(a \o b \o c)
         /\ SubSeq(a \o b \o c, Len(a) + 1, Len(a) + Len(b)) = b
<1> DEFINE d == b \o c
<1>1. Len(a) \in Nat /\ Len(b) \in Nat \ {0} /\ Len(c) \in Nat
  BY LenProperties, EmptySeq
<1>2. d \in Seq(S) /\ Len(d) = Len(b) + Len(c)
  BY ConcatProperties
<1>3. a \o b \o c = a \o d
  BY ConcatAssociative
<1>4. Len(a \o d) = Len(a) + Len(d)
  BY <1>2, ConcatProperties
<1> HIDE DEF d
<1>5. SubSeq(a \o d, Len(a) + 1, Len(a) + Len(b)) = SubSeq(d, (Len(a) + 1) - Len(a), (Len(a) + Len(b)) - Len(a))
  BY <1>1, <1>2, SubSeqOfConcat2
<1>6. (Len(a) + 1) - Len(a) = 1 /\ (Len(a) + Len(b)) - Len(a) = Len(b)
  BY <1>1
<1>7. SubSeq(d, 1, Len(b)) = SubSeq(b, 1, Len(b))
  BY <1>1, SubSeqOfConcat1 DEF d
<1>8. SubSeq(b, 1, Len(b)) = b
  BY SubSeqFull
<1> QED BY <1>1, <1>2, <1>3, <1>4, <1>5, <1>6, <1>7, <1>8

----------------------------------------------------------------------------
\* The invariant holds

\* The state in which the process starts satisfies the invariant.
LEMMA InitHolds == Init => IInv
<1> SUFFICES ASSUME Init PROVE IInv
  OBVIOUS
<1>1. <<>> \in Seq(Clicks) /\ Len(<<>>) = 0 /\ <<>> \o <<>> \o <<>> = <<>>
  BY EmptySeq, ConcatEmptySeq
<1>2. TypeOK
  <2>1. 0 \in 0..MaxClicks /\ Len(<<>>) <= ChanCap /\ Len(<<>>) <= BatchSize
    BY <1>1, ClickCollectorAssumption
  <2>2. Numbered(ch) /\ Numbered(batch) /\ Numbered(accepted) /\ Numbered(handed)
    BY <1>1 DEF Init, Numbered
  <2> QED BY <2>1, <2>2 DEF Init, TypeOK
<1>3. ClicksInHand /\ StopOrder /\ Fresh
  BY <1>1 DEF Init, ClicksInHand, StopOrder, Fresh, Busy
<1>4. BatchOrder
  BY <1>1, ClickCollectorAssumption DEF Init, BatchOrder
<1>5. Accounted
  BY <1>1 DEF Init, Accounted
<1> QED BY <1>2, <1>3, <1>4, <1>5 DEF IInv

\* A handler's steps up to its send keep the invariant: the new click is the latest one.
LEMMA ArriveHolds ==
  ASSUME IInv, NEW h \in Handlers, Arrive(h)
  PROVE  IInv'
<1> USE DEF IInv
<1>1. arrived + 1 \in Clicks /\ arrived \in Nat /\ arrived' = arrived + 1
  BY ClickCollectorAssumption DEF Arrive, TypeOK, Clicks
<1>2. TypeOK'
  BY <1>1, ClickCollectorAssumption DEF Arrive, TypeOK, Numbered, Clicks, collVars, mainVars
<1>3. ClicksInHand'
  BY <1>1 DEF Arrive, ClicksInHand, Busy, TypeOK
<1>4. StopOrder' /\ BatchOrder' /\ Accounted'
  BY DEF Arrive, StopOrder, BatchOrder, Accounted, Busy, collVars, mainVars
<1>5. Fresh'
  <2>1. \A g \in Handlers : g # h => (Busy(g)' <=> Busy(g)) /\ click'[g] = click[g]
    BY DEF Arrive, Busy, TypeOK
  <2>2. click'[h] = arrived + 1
    BY DEF Arrive, TypeOK
  <2> QED BY <1>1, <2>1, <2>2 DEF Arrive, Fresh, ClicksInHand
<1> QED BY <1>2, <1>3, <1>4, <1>5

\* A redirect learns whether there is a click to send; the click stays in its handler's hands.
LEMMA ResolveHolds ==
  ASSUME IInv, NEW h \in Handlers, Resolve(h)
  PROVE  IInv'
<1> USE DEF IInv
<1>1. TypeOK'
  <2>1. pc' \in [Handlers -> {"idle", "lookup", "send"}]
    BY DEF Resolve, TypeOK
  <2>2. click' \in [Handlers -> 0..MaxClicks]
    BY ClickCollectorAssumption DEF Resolve, TypeOK
  <2> QED BY <2>1, <2>2 DEF Resolve, TypeOK, Numbered, collVars, mainVars
<1>2. \A g \in Handlers : Busy(g)' => Busy(g) /\ click'[g] = click[g]
  BY DEF Resolve, Busy, TypeOK
<1>3. ClicksInHand' /\ Fresh'
  BY <1>2 DEF Resolve, ClicksInHand, Fresh
<1>4. StopOrder'
  BY <1>2 DEF Resolve, StopOrder, collVars, mainVars
<1>5. BatchOrder' /\ Accounted'
  BY DEF Resolve, BatchOrder, Accounted, collVars, mainVars
<1> QED BY <1>1, <1>3, <1>4, <1>5

\* A completed send keeps the invariant: the click is new to the log, and goes to its end.
LEMMA SendHolds ==
  ASSUME IInv, NEW h \in Handlers, Send(h)
  PROVE  IInv'
<1> USE DEF IInv
<1> DEFINE c == click[h]
<1>1. c \in Clicks /\ c \in 1..arrived
  BY DEF Send, ClicksInHand, Busy, TypeOK, Clicks
<1>2. accepted \in Seq(Clicks) /\ ch \in Seq(Clicks) /\ batch \in Seq(Clicks) /\ handed \in Seq(Clicks)
  BY DEF TypeOK, Numbered
<1>3. /\ Append(accepted, c) \in Seq(Clicks) /\ Append(ch, c) \in Seq(Clicks)
      /\ Len(Append(ch, c)) = Len(ch) + 1
      /\ Len(Append(accepted, c)) = Len(accepted) + 1
      /\ \A k \in 1..Len(accepted) : Append(accepted, c)[k] = accepted[k]
      /\ Append(accepted, c)[Len(accepted) + 1] = c
  BY <1>1, <1>2, AppendProperties
<1>4. Len(ch) \in Nat /\ Len(accepted) \in Nat
  BY <1>2, LenProperties
<1>5. TypeOK'
  BY <1>1, <1>3, <1>4, ClickCollectorAssumption
  DEF Send, HasRoom, TypeOK, Numbered, collVars, mainVars
<1>6. \A g \in Handlers : Busy(g)' => g # h /\ Busy(g) /\ click'[g] = click[g]
  BY DEF Send, Busy, TypeOK
<1>7. ClicksInHand'
  BY <1>6 DEF Send, ClicksInHand
<1>8. StopOrder'
  BY <1>6 DEF Send, StopOrder, collVars, mainVars
<1>9. BatchOrder'
  BY DEF Send, BatchOrder, collVars
<1>10. Accounted'
  <2>1. handed \o batch \in Seq(Clicks)
    BY <1>2, ConcatProperties
  <2>2. <<c>> \in Seq(Clicks)
    BY <1>1
  <2>3. (handed \o batch) \o (ch \o <<c>>) = ((handed \o batch) \o ch) \o <<c>>
    BY <2>1, <2>2, <1>2, ConcatAssociative
  <2>4. Append(ch, c) = ch \o <<c>> /\ Append(accepted, c) = accepted \o <<c>>
    BY <1>1, <1>2, AppendIsConcat
  <2> QED BY <2>3, <2>4 DEF Send, Accounted, collVars
<1>11. Fresh'
  <2>1. Busy(h)
    BY DEF Send, Busy
  <2>2. accepted' = Append(accepted, c) /\ arrived' = arrived
    BY DEF Send
  <2>3. \A k \in 1..Len(accepted)' : k \in 1..Len(accepted) \/ k = Len(accepted) + 1
    BY <2>2, <1>3, <1>4
  <2>4. \A k \in 1..Len(accepted)' :
          accepted'[k] = c \/ (k \in 1..Len(accepted) /\ accepted'[k] = accepted[k])
    BY <2>2, <2>3, <1>3
  <2> QED BY <2>1, <2>2, <2>4, <1>1, <1>6 DEF Fresh
<1> QED BY <1>5, <1>7, <1>8, <1>9, <1>10, <1>11

----------------------------------------------------------------------------
\* The collector

\* What the collector does leaves handlers and main alone, and with them ClicksInHand.
LEMMA ReceiveHolds ==
  ASSUME IInv, Receive
  PROVE  IInv'
<1> USE DEF IInv
<1>1. accepted \in Seq(Clicks) /\ ch \in Seq(Clicks) /\ batch \in Seq(Clicks) /\ handed \in Seq(Clicks)
  BY DEF TypeOK, Numbered
<1>2. Head(ch) \in Clicks /\ Tail(ch) \in Seq(Clicks) /\ Len(Tail(ch)) = Len(ch) - 1 /\ Len(ch) \in Nat
  BY <1>1, HeadTailProperties, LenProperties DEF Receive
<1>3. /\ Append(batch, Head(ch)) \in Seq(Clicks) /\ Append(batch, Head(ch)) # <<>>
      /\ Len(Append(batch, Head(ch))) = Len(batch) + 1 /\ Len(batch) \in Nat
  BY <1>1, <1>2, AppendProperties, LenProperties
<1>4. Len(batch) < BatchSize
  BY DEF Receive, BatchOrder
<1>5. TypeOK'
  BY <1>2, <1>3, <1>4, ClickCollectorAssumption DEF Receive, TypeOK, Numbered, handlerVars, mainVars
<1>6. ClicksInHand' /\ Fresh'
  BY DEF Receive, ClicksInHand, Fresh, Busy, handlerVars
<1>7. StopOrder'
  BY DEF Receive, StopOrder, Busy, handlerVars, mainVars
<1>8. BatchOrder'
  BY <1>3, <1>4, ClickCollectorAssumption DEF Receive, BatchOrder, Full
<1>9. Accounted'
  <2> DEFINE h == <<Head(ch)>>
             t == Tail(ch)
  <2>1. h \in Seq(Clicks) /\ t \in Seq(Clicks) /\ ch = h \o t
    BY <1>1, <1>2, HeadAndTail DEF Receive
  <2>2. Append(batch, Head(ch)) = batch \o h
    BY <1>1, <1>2, AppendIsConcat
  <2>3. accepted' = accepted /\ handed' = handed /\ batch' = batch \o h /\ ch' = t
    BY <2>2 DEF Receive
  <2> HIDE DEF h, t
  <2>4. handed \o batch \in Seq(Clicks)
    BY <1>1, ConcatProperties
  <2>5. handed \o (batch \o h) = (handed \o batch) \o h
    BY <2>1, <1>1, ConcatAssociative
  <2>6. ((handed \o batch) \o h) \o t = (handed \o batch) \o (h \o t)
    BY <2>1, <2>4, ConcatAssociative
  <2> QED BY <2>1, <2>3, <2>5, <2>6, Zenon DEF Accounted
<1> QED BY <1>5, <1>6, <1>7, <1>8, <1>9

\* The case of the ticker keeps the invariant: it moves no click, and never flushes nothing.
LEMMA TickedHolds ==
  ASSUME IInv, Ticked
  PROVE  IInv'
<1> USE DEF IInv
<1>1. TypeOK'
  BY DEF Ticked, TypeOK, Numbered, handlerVars, mainVars
<1>2. ClicksInHand' /\ Fresh' /\ Accounted'
  BY DEF Ticked, ClicksInHand, Fresh, Accounted, Busy, handlerVars
<1>3. StopOrder' /\ BatchOrder'
  BY DEF Ticked, TickFires, StopOrder, BatchOrder, Busy, handlerVars, mainVars
<1> QED BY <1>1, <1>2, <1>3

\* The case of the stop request keeps the invariant: the last batch stays where it is.
LEMMA StoppedHolds ==
  ASSUME IInv, Stopped
  PROVE  IInv'
<1> USE DEF IInv
<1>1. TypeOK'
  BY DEF Stopped, TypeOK, Numbered, handlerVars, mainVars
<1>2. ClicksInHand' /\ Fresh' /\ Accounted'
  BY DEF Stopped, ClicksInHand, Fresh, Accounted, Busy, handlerVars
<1>3. StopOrder' /\ BatchOrder'
  BY DEF Stopped, StopOrder, BatchOrder, Busy, handlerVars, mainVars
<1> QED BY <1>1, <1>2, <1>3

\* The return of a flush keeps the invariant: what was in the batch is now handed over.
LEMMA FlushedHolds ==
  ASSUME IInv, Flushed
  PROVE  IInv'
<1> USE DEF IInv
<1>1. ch \in Seq(Clicks) /\ batch \in Seq(Clicks) /\ handed \in Seq(Clicks)
  BY DEF TypeOK, Numbered
<1>2. /\ handed \o batch \in Seq(Clicks) /\ (handed \o batch) \o <<>> = handed \o batch
      /\ <<>> \in Seq(Clicks) /\ Len(<<>>) = 0
  BY <1>1, ConcatProperties, ConcatEmptySeq, EmptySeq
<1>3. TypeOK'
  BY <1>2, ClickCollectorAssumption
  DEF Flushed, BatchAfterFlush, TypeOK, Numbered, handlerVars, mainVars
<1>4. ClicksInHand' /\ Fresh'
  BY DEF Flushed, ClicksInHand, Fresh, Busy, handlerVars
<1>5. StopOrder'
  BY DEF Flushed, StopOrder, Busy, handlerVars, mainVars
<1>6. BatchOrder'
  BY <1>2, ClickCollectorAssumption DEF Flushed, BatchAfterFlush, BatchOrder
<1>7. Accounted'
  BY <1>2 DEF Flushed, BatchAfterFlush, Accounted
<1> QED BY <1>3, <1>4, <1>5, <1>6, <1>7

----------------------------------------------------------------------------
\* main

MainStep ==
  \/ Signal \/ ListenFails \/ Shutdown \/ ShutdownTimesOut \/ StopClickCollector
  \/ CloseStores \/ Exit

\* main touches nothing but its own variables.
LEMMA MainHolds ==
  ASSUME IInv, MainStep
  PROVE  IInv'
<1> USE DEF IInv
<1>1. UNCHANGED <<handlerVars, ch, collVars, accepted>>
  BY DEF MainStep, Signal, ListenFails, Shutdown, ShutdownTimesOut, StopClickCollector, CloseStores, Exit
<1>2. ClicksInHand' /\ Fresh' /\ BatchOrder' /\ Accounted'
  BY <1>1 DEF ClicksInHand, Fresh, BatchOrder, Accounted, Busy, handlerVars, collVars
<1>3. TypeOK'
  BY <1>1 DEF TypeOK, Numbered, handlerVars, collVars, MainStep, Signal, ListenFails, Shutdown,
              ShutdownTimesOut, StopClickCollector, CloseStores, Exit
<1>4. StopOrder'
  <2>1. CASE Signal \/ ListenFails \/ ShutdownTimesOut
    BY <2>1, <1>1 DEF Signal, ListenFails, ShutdownTimesOut, StopOrder, Busy, handlerVars, collVars
  <2>2. CASE Shutdown
    BY <2>2, <1>1 DEF Shutdown, Drained, StopOrder, Busy, handlerVars, collVars
  <2>3. CASE StopClickCollector
    BY <2>3, <1>1 DEF StopClickCollector, StopOrder, Busy, handlerVars, collVars
  <2>4. CASE CloseStores
    BY <2>4, <1>1 DEF CloseStores, CollectorDone, StopOrder, Busy, handlerVars, collVars
  <2>5. CASE Exit
    BY <2>5, <1>1 DEF Exit, StopOrder, Busy, handlerVars, collVars
  <2> QED BY <2>1, <2>2, <2>3, <2>4, <2>5 DEF MainStep
<1> QED BY <1>2, <1>3, <1>4

\* Every step keeps the invariant.
LEMMA NextHolds == IInv /\ [Next]_vars => IInv'
<1> SUFFICES ASSUME IInv, [Next]_vars PROVE IInv'
  OBVIOUS
<1>1. CASE \E h \in Handlers : Arrive(h) \/ Resolve(h) \/ Send(h)
  BY <1>1, ArriveHolds, ResolveHolds, SendHolds
<1>2. CASE Receive \/ Ticked \/ Stopped \/ Flushed
  BY <1>2, ReceiveHolds, TickedHolds, StoppedHolds, FlushedHolds
<1>3. CASE MainStep
  BY <1>3, MainHolds
<1>4. CASE UNCHANGED vars
  BY <1>4 DEF vars, IInv, TypeOK, Numbered, ClicksInHand, StopOrder, BatchOrder, Accounted, Fresh, Busy
<1> QED BY <1>1, <1>2, <1>3, <1>4 DEF Next, MainStep, Ended

\* The invariant holds in every reachable state.
THEOREM Invariance == Spec => []IInv
BY InitHolds, NextHolds, PTL DEF Spec

----------------------------------------------------------------------------
\* Theorems

\* Types, for every number of handlers and clicks; the channel never holds more than its
\* capacity nor the batch more than its size.
THEOREM TypeCorrect == Spec => []TypeOK
<1>1. IInv => TypeOK
  BY DEF IInv
<1> QED BY <1>1, Invariance, PTL

\* Each click whose send has completed is in exactly one place and in order, whatever the
\* select, the ticker, the flush and the shutdown do.
THEOREM EveryClickAccounted == Spec => []Accounted
<1>1. IInv => Accounted
  BY DEF IInv
<1> QED BY <1>1, Invariance, PTL

\* The collector never selects with a full batch.
THEOREM RoomAtSelect == Spec => []SelectsBelowSize
<1>1. IInv => SelectsBelowSize
  BY DEF IInv, BatchOrder, SelectsBelowSize
<1> QED BY <1>1, Invariance, PTL

\* No handler is left with a click that nobody will take.
THEOREM CollectorStays == Spec => []CollectorOutlivesHandlers
<1>1. IInv => CollectorOutlivesHandlers
  BY DEF IInv, StopOrder, CollectorOutlivesHandlers, Busy
<1> QED BY <1>1, Invariance, PTL

\* main closes the database after the collector's last flush.
THEOREM LastFlushFirst == Spec => []FlushesBeforeClose
<1>1. IInv => FlushesBeforeClose
  BY DEF IInv, TypeOK, StopOrder, BatchOrder, FlushesBeforeClose
<1> QED BY <1>1, Invariance, PTL

----------------------------------------------------------------------------
\* The refinement of ClickLog

\* The state in which the process starts is an empty log.
LEMMA InitIsLog == Init => Log!LogInit
BY DEF Init, Log!LogInit, LogPhase

\* Only main changes the phase.
LEMMA PhaseKept == main' = main => LogPhase' = LogPhase
BY DEF LogPhase

\* A send accepts a click for the first time.
LEMMA SendAccepts ==
  ASSUME IInv, NEW h \in Handlers, Send(h)
  PROVE  Log!Accept(click[h])
<1>1. Busy(h) /\ main' = main
  BY DEF Send, Busy, mainVars
<1>2. LogPhase # "ended"
  BY <1>1 DEF IInv, TypeOK, StopOrder, Send, Running, LogPhase
<1>3. \A k \in 1..Len(accepted) : accepted[k] # click[h]
  BY <1>1 DEF IInv, Fresh
<1> QED BY <1>1, <1>2, <1>3, PhaseKept DEF Log!Accept, Send, collVars

\* A flush hands over the clicks that come next in line, which are those of the batch.
LEMMA FlushHandsOver ==
  ASSUME IInv, Flushed
  PROVE  \E n \in 1..BatchSize : Log!HandOver(n)
<1> DEFINE n == Len(batch)
<1>1. handed \in Seq(Clicks) /\ batch \in Seq(Clicks) /\ ch \in Seq(Clicks)
  BY DEF IInv, TypeOK, Numbered
<1>2. batch # <<>> /\ coll # "returned"
  BY DEF IInv, BatchOrder, Flushed
<1>3. n \in 1..BatchSize
  BY <1>1, <1>2, EmptySeq, ClickCollectorAssumption DEF IInv, TypeOK
<1>4. LogPhase # "ended"
  BY <1>2 DEF IInv, TypeOK, StopOrder, Flushed, Running, LogPhase
<1>5. accepted = handed \o batch \o ch
  BY DEF IInv, Accounted
<1>6. Len(handed) + n <= Len(accepted) /\ SubSeq(accepted, Len(handed) + 1, Len(handed) + n) = batch
  BY <1>1, <1>2, <1>5, MiddlePart
<1>7. handed' = handed \o batch /\ accepted' = accepted /\ main' = main
  BY DEF Flushed, mainVars
<1>8. Log!HandOver(n)
  BY <1>4, <1>6, <1>7, PhaseKept DEF Log!HandOver, Log!NextInLine
<1> QED BY <1>3, <1>8

\* main stops the log, ends it, or is not noticed.
LEMMA MainStopsLog ==
  ASSUME IInv, MainStep
  PROVE  Log!Stop \/ Log!End \/ UNCHANGED Log!logVars
<1>1. accepted' = accepted /\ handed' = handed
  BY DEF MainStep, Signal, ListenFails, Shutdown, ShutdownTimesOut, StopClickCollector, CloseStores,
         Exit, collVars
<1>2. CASE Signal
  BY <1>1, <1>2 DEF Signal, Log!Stop, LogPhase
<1>3. CASE ListenFails \/ ShutdownTimesOut \/ CloseStores
  BY <1>1, <1>3 DEF ListenFails, ShutdownTimesOut, CloseStores, Log!End, LogPhase
<1>4. CASE Shutdown \/ StopClickCollector \/ Exit
  BY <1>1, <1>4 DEF Shutdown, StopClickCollector, Exit, Log!logVars, LogPhase
<1> QED BY <1>2, <1>3, <1>4 DEF MainStep

\* Every step is one of the log or leaves it as it is.
LEMMA NextIsLog == IInv /\ [Next]_vars => [Log!LogNext]_(Log!logVars)
<1> SUFFICES ASSUME IInv, [Next]_vars PROVE [Log!LogNext]_(Log!logVars)
  OBVIOUS
<1>1. ASSUME NEW h \in Handlers, Send(h) PROVE Log!LogNext
  <2>1. click[h] \in Clicks
    BY <1>1 DEF IInv, ClicksInHand, TypeOK, Send, Busy, Clicks
  <2> QED BY <1>1, <2>1, SendAccepts DEF Log!LogNext
<1>2. CASE Flushed
  BY <1>2, FlushHandsOver DEF Log!LogNext
<1>3. CASE MainStep
  BY <1>3, MainStopsLog DEF Log!LogNext
<1>4. ASSUME NEW h \in Handlers, Arrive(h) \/ Resolve(h) PROVE UNCHANGED Log!logVars
  BY <1>4, PhaseKept DEF Arrive, Resolve, collVars, mainVars, Log!logVars
<1>5. CASE Receive \/ Ticked \/ Stopped
  <2>1. UNCHANGED Log!logVars
    BY <1>5, PhaseKept DEF Receive, Ticked, Stopped, collVars, mainVars, Log!logVars
  <2> QED BY <2>1
<1>6. CASE UNCHANGED vars
  BY <1>6, PhaseKept DEF vars, Log!logVars
<1> QED BY <1>1, <1>2, <1>3, <1>4, <1>5, <1>6 DEF Next, MainStep, Ended

\* The collector with its channel, ticker and shutdown is a click log: the safety part of
\* ImplementsClickLog.
THEOREM CollectorIsLog == Spec => Log!LogInit /\ [][Log!LogNext]_(Log!logVars)
BY Invariance, InitIsLog, NextIsLog, PTL DEF Spec

=============================================================================
