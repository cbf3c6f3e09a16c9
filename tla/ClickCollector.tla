---------------------------- MODULE ClickCollector ----------------------------
(***************************************************************************)
(* How clicks travel from the redirect handlers to the clicks table, and   *)
(* how the process stops.                                                  *)
(*                                                                         *)
(* Handlers send clicks into a buffered channel; one goroutine selects     *)
(* between that channel, a ticker and the done channel, and writes batches *)
(* to the database.  On a signal main drains the HTTP server, closes done, *)
(* waits for the collector and closes the database.                        *)
(*                                                                         *)
(* A click is a number, given in the order the redirects arrive.  What the *)
(* database makes of a batch is not told apart: an error is logged and the *)
(* batch is dropped, so handed is what RecordClicksBatch was called with.  *)
(***************************************************************************)
EXTENDS Integers, Sequences

CONSTANTS
  Handlers,   \* goroutines that serve GET /:code
  ChanCap,    \* the buffer of the channel (100)
  BatchSize,  \* clicks in a full batch
  MaxClicks   \* bounds the redirects that arrive

ASSUME ClickCollectorAssumption ==
  /\ ChanCap \in Nat \ {0}
  /\ BatchSize \in Nat \ {0}
  /\ MaxClicks \in Nat

VARIABLES
  pc,        \* where each handler is
  click,     \* the click a handler has, 0 when none
  arrived,   \* how many redirects have arrived
  ch,        \* the channel's buffer
  batch,     \* the collector's local batch
  coll,      \* where the collector is
  done,      \* the done channel is closed
  main,      \* where main is
  dbOpen,    \* db.Close has not been called
  accepted,  \* history: clicks whose send completed, in order
  handed     \* history: clicks that RecordClicksBatch has returned for, in order

handlerVars == <<pc, click, arrived>>
collVars == <<batch, coll, handed>>
mainVars == <<done, main, dbOpen>>
vars == <<pc, click, arrived, ch, batch, coll, done, main, dbOpen, accepted, handed>>

Clicks == 1..MaxClicks
Running == main \notin {"exited", "aborted"}

Init ==
  /\ pc = [h \in Handlers |-> "idle"]
  /\ click = [h \in Handlers |-> 0]
  /\ arrived = 0
  /\ ch = <<>> /\ batch = <<>> /\ coll = "select"
  /\ done = FALSE /\ main = "serving" /\ dbOpen = TRUE
  /\ accepted = <<>> /\ handed = <<>>

----------------------------------------------------------------------------
\* Handlers

\* A redirect arrives.  Shutdown closes the listeners before anything else.
Arrive(h) ==
  /\ main = "serving" /\ pc[h] = "idle" /\ arrived < MaxClicks
  /\ arrived' = arrived + 1
  /\ pc' = [pc EXCEPT ![h] = "lookup"]
  /\ click' = [click EXCEPT ![h] = arrived + 1]
  /\ UNCHANGED <<ch, collVars, mainVars, accepted>>

\* The lookups of GetOriginalURL and RecordClick (see LinkStore): the click is ready,
\* or there is none, for want of a link, of the database, or of the country database.
Resolve(h) ==
  /\ Running /\ pc[h] = "lookup"
  /\ \/ pc' = [pc EXCEPT ![h] = "send"] /\ UNCHANGED click
     \/ pc' = [pc EXCEPT ![h] = "idle"] /\ click' = [click EXCEPT ![h] = 0]
  /\ UNCHANGED <<arrived, ch, collVars, mainVars, accepted>>

\* s.clickCollector.ch <- click, which blocks while the buffer is full; then the
\* redirect is written.
HasRoomOverByOne == Len(ch) <= ChanCap
HasRoom == Len(ch) < ChanCap

Send(h) ==
  /\ Running /\ pc[h] = "send" /\ HasRoom
  /\ ch' = Append(ch, click[h])
  /\ accepted' = Append(accepted, click[h])
  /\ pc' = [pc EXCEPT ![h] = "idle"]
  /\ click' = [click EXCEPT ![h] = 0]
  /\ UNCHANGED <<arrived, collVars, mainVars>>

----------------------------------------------------------------------------
\* The collector: three cases of one select, and the flush

\* len(batch) >= c.batchSize, after the append
FullOverByOne(b) == Len(b) > BatchSize
Full(b) == Len(b) >= BatchSize

\* case click := <-c.ch
Receive ==
  /\ Running /\ coll = "select" /\ ch # <<>>
  /\ ch' = Tail(ch)
  /\ batch' = Append(batch, Head(ch))
  /\ coll' = IF Full(batch') THEN "flush" ELSE "select"
  /\ UNCHANGED <<handlerVars, mainVars, accepted, handed>>

\* case <-ticker.C, which does nothing when the batch is empty
TickIgnored == FALSE
TickFires == batch # <<>>
Ticked ==
  /\ Running /\ coll = "select" /\ TickFires
  /\ coll' = "flush"
  /\ UNCHANGED <<handlerVars, ch, batch, handed, mainVars, accepted>>

\* case <-c.done.  The select takes any case that is ready: this one also while clicks
\* are left in the channel.
StoppedSelectsOn ==
  /\ Running /\ coll = "select" /\ done
  /\ coll' = IF batch = <<>> THEN "select" ELSE "flush"
  /\ UNCHANGED <<handlerVars, ch, batch, handed, mainVars, accepted>>
Stopped ==
  /\ Running /\ coll = "select" /\ done
  /\ coll' = IF batch = <<>> THEN "returned" ELSE "lastFlush"
  /\ UNCHANGED <<handlerVars, ch, batch, handed, mainVars, accepted>>

\* batch = nil
BatchKept == batch
BatchAfterFlush == <<>>

\* RecordClicksBatch returns, with or without an error: its context ends after 5s.
FlushedQuits ==
  /\ Running /\ coll \in {"flush", "lastFlush"}
  /\ handed' = handed \o batch
  /\ batch' = BatchAfterFlush
  /\ coll' = "returned"
  /\ UNCHANGED <<handlerVars, ch, mainVars, accepted>>
Flushed ==
  /\ Running /\ coll \in {"flush", "lastFlush"}
  /\ handed' = handed \o batch
  /\ batch' = BatchAfterFlush
  /\ coll' = IF coll = "flush" THEN "select" ELSE "returned"
  /\ UNCHANGED <<handlerVars, ch, mainVars, accepted>>

----------------------------------------------------------------------------
\* main, from the signal on

Signal ==
  /\ main = "serving"
  /\ main' = "draining"
  /\ UNCHANGED <<handlerVars, ch, collVars, done, dbOpen, accepted>>

\* ListenAndServe returns an error, and its goroutine calls os.Exit(1).
ListenFails ==
  /\ main = "serving"
  /\ main' = "aborted"
  /\ UNCHANGED <<handlerVars, ch, collVars, done, dbOpen, accepted>>

\* srv.Shutdown returns nil once no handler is running.
Drained == \A h \in Handlers : pc[h] = "idle"
Shutdown ==
  /\ main = "draining" /\ Drained
  /\ main' = "stopping"
  /\ UNCHANGED <<handlerVars, ch, collVars, done, dbOpen, accepted>>

\* srv.Shutdown gives up after 5s, and main calls os.Exit(1).
ShutdownTimesOutOnly ==
  /\ main = "draining" /\ ~Drained
  /\ main' = "stopping"
  /\ UNCHANGED <<handlerVars, ch, collVars, done, dbOpen, accepted>>
ShutdownTimesOut ==
  /\ main = "draining" /\ ~Drained
  /\ main' = "aborted"
  /\ UNCHANGED <<handlerVars, ch, collVars, done, dbOpen, accepted>>

\* StopClickCollector
StopClickCollector ==
  /\ main = "stopping"
  /\ done' = TRUE
  /\ main' = "waiting"
  /\ UNCHANGED <<handlerVars, ch, collVars, dbOpen, accepted>>

\* WaitClickCollector, then cleanupCancel, db.Close and rdb.Close
NoWait == TRUE
CollectorDone == coll = "returned"
CloseStores ==
  /\ main = "waiting" /\ CollectorDone
  /\ dbOpen' = FALSE
  /\ main' = "closing"
  /\ UNCHANGED <<handlerVars, ch, collVars, done, accepted>>

\* main returns, and the process is gone.
Exit ==
  /\ main = "closing"
  /\ main' = "exited"
  /\ UNCHANGED <<handlerVars, ch, collVars, done, dbOpen, accepted>>

\* The process has ended: nothing runs any more.
Ended == ~Running /\ UNCHANGED vars

----------------------------------------------------------------------------

Next ==
  \/ \E h \in Handlers : Arrive(h) \/ Resolve(h) \/ Send(h)
  \/ Receive \/ Ticked \/ Stopped \/ Flushed
  \/ Signal \/ ListenFails \/ Shutdown \/ ShutdownTimesOut \/ StopClickCollector \/ CloseStores \/ Exit
  \/ Ended

\* Every goroutine is scheduled.  A select picks among its ready cases at random, so none
\* that is ready again and again is passed over for ever; blocked senders wait in a queue.
\* Redirects and the signal need never come.
Fairness ==
  /\ \A h \in Handlers : WF_vars(Resolve(h)) /\ SF_vars(Send(h))
  /\ SF_vars(Receive) /\ SF_vars(Ticked) /\ SF_vars(Stopped) /\ WF_vars(Flushed)
  /\ WF_vars(Shutdown \/ ShutdownTimesOut)
  /\ WF_vars(StopClickCollector) /\ WF_vars(CloseStores) /\ WF_vars(Exit)

Spec == Init /\ [][Next]_vars /\ Fairness

----------------------------------------------------------------------------
\* Properties

Numbered(s) == s \in Seq(Clicks)

TypeOK ==
  /\ pc \in [Handlers -> {"idle", "lookup", "send"}]
  /\ click \in [Handlers -> 0..MaxClicks]
  /\ arrived \in 0..MaxClicks
  /\ coll \in {"select", "flush", "lastFlush", "returned"}
  /\ main \in {"serving", "draining", "stopping", "waiting", "closing", "exited", "aborted"}
  /\ done \in BOOLEAN /\ dbOpen \in BOOLEAN
  /\ Numbered(ch) /\ Numbered(batch) /\ Numbered(accepted) /\ Numbered(handed)
  /\ Len(ch) <= ChanCap /\ Len(batch) <= BatchSize

\* Every click whose send completed is in exactly one place, in the order of the sends:
\* handed to the database, in the batch, or in the channel.  None is lost, doubled or
\* overtaken by the select, the batching or the flush.
Accounted == accepted = handed \o batch \o ch

\* Whenever the collector selects again its batch has room for one more click, so no
\* INSERT carries more than BatchSize of them.
SelectsBelowSize == coll = "select" => Len(batch) < BatchSize

\* While a handler has a click to send there is a collector to take it: main stops the
\* collector only when the server has drained, or the handler would block for ever.
CollectorOutlivesHandlers ==
  \A h \in Handlers : pc[h] # "idle" => ~done /\ coll # "returned"

\* The database is not closed under the collector: its last flush comes first.
FlushesBeforeClose == ~dbOpen => coll = "returned" /\ batch = <<>>

\* Shutdown always ends, whatever is in the channel and however slow the database is.
ShutdownEnds == main = "draining" ~> main \in {"exited", "aborted"}

\* Every click that was accepted is handed to the database, unless the process stops: the
\* ticker does it when no further click fills the batch.
AcceptedHanded ==
  \A n \in 1..MaxClicks : Len(accepted) >= n ~> Len(handed) >= n \/ main # "serving"

\* Every redirect is answered, unless the process ends: a blocked send does go on.
RedirectsEnd == \A h \in Handlers : pc[h] # "idle" ~> pc[h] = "idle" \/ main = "aborted"

\* Seen from outside the process serves until the signal, and the collector is over when
\* main closes the stores.
LogPhase ==
  CASE main = "serving" -> "serving"
    [] main \in {"draining", "stopping", "waiting"} -> "stopping"
    [] OTHER -> "ended"

Log == INSTANCE ClickLog WITH phase <- LogPhase

\* Channel, select, ticker, flush and shutdown together are a log that is handed over in
\* order, a batch at a time, until the stores are closed: nothing is accepted or handed
\* over later, nothing stays behind while the process serves, and a shutdown ends.
ImplementsClickLog == Log!LogSpec

\* README.md lists "Graceful Shutdown" as done, and main logs "Server exited gracefully".
\* So an exit that is not aborted should hand over all the clicks that were accepted.
\* (Violated: the select may see done before the clicks left in the channel.)
GracefulExitKeepsClicks == main = "exited" => handed = accepted

=============================================================================
