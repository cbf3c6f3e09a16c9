---------------------------- MODULE CleanupWorker ----------------------------
(***************************************************************************)
(* StartCleanupWorker beside the requests of LinkStore: the goroutine that *)
(* main starts, its ticker, and the runs that fail.  What must come about  *)
(* in the end is stated here, where all that runs is together.             *)
(*                                                                         *)
(* The ticker keeps a tick for a worker that is late, so that a run may    *)
(* begin as soon as the last has ended: the interval needs no clock.  The  *)
(* context of the worker is cancelled when main returns, and all ends.     *)
(***************************************************************************)
EXTENDS LinkStore

VARIABLE cleaner  \* "waiting" at its select, "deleting" in DeleteExpired

allVars == <<rows, link, life, nextId, cache, pc, req, cleaner>>

WorkerInit == Init /\ cleaner = "waiting"

\* case <-ticker.C
TickerFires == cleaner = "waiting" /\ cleaner' = "deleting" /\ UNCHANGED vars

\* The DELETE is carried out, and may find nothing.
Deleted ==
  \/ DeleteExpired
  \/ (\A i \in rows : ~Cleanable(i)) /\ UNCHANGED vars

RunSucceeds == cleaner = "deleting" /\ cleaner' = "waiting" /\ Deleted

\* The statement fails, or its reply is lost.  The error is logged, and the loop goes on.
RunFailsForGood ==
  /\ cleaner = "deleting" /\ "db" \in Faults /\ cleaner' = "stopped"
  /\ UNCHANGED vars
RunFails ==
  /\ cleaner = "deleting" /\ "db" \in Faults /\ cleaner' = "waiting"
  /\ UNCHANGED vars \/ Deleted

Works(w) == Step(w) /\ UNCHANGED cleaner
TimePasses == Tick /\ UNCHANGED cleaner

WorkerNext ==
  \/ \E w \in Workers : \/ (Shorten(w) \/ Lookup(w) \/ Delete(w) \/ SetLost(w)) /\ UNCHANGED cleaner
                        \/ Works(w)
  \/ TickerFires \/ RunSucceeds \/ RunFails
  \/ (\E c \in Codes : Evict(c)) /\ UNCHANGED cleaner
  \/ TimePasses

\* Every goroutine is scheduled, and every call it makes returns: no command is sent again for
\* ever.  The ticker fires again and again, and not every run fails.  Time passes.
Fairness ==
  /\ \A w \in Workers : WF_allVars(Works(w))
  /\ WF_allVars(TickerFires) /\ SF_allVars(RunSucceeds)
  /\ WF_allVars(TimePasses)

WorkerSpec == WorkerInit /\ [][WorkerNext]_allVars /\ Fairness

----------------------------------------------------------------------------
\* Properties

\* Copies of a removed link do not stay: sooner or later it is out of reach for good.
DeletedEventuallyGone == \A i \in Ids : Dead(i) ~> []~Reachable(i)

\* The worker gets to every link that expires: a run that fails does not end it, and what one
\* run leaves the next will take.
ExpiredEventuallyRemoved ==
  \A i \in Ids : i \in rows /\ Expired(i) ~> i \notin rows

\* Every request gets an answer.
RequestsAnswered ==
  \A w \in Workers : pc[w] # "idle" ~> pc[w] = "done"

=============================================================================
