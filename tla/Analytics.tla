------------------------------ MODULE Analytics -------------------------------
(***************************************************************************)
(* What is counted: the clicks column of urls, which a goroutine of each   *)
(* redirect increments by code, and the rows of clicks, which the click    *)
(* collector inserts by id; and the dashboard, which reads them while      *)
(* links come and go.                                                      *)
(*                                                                         *)
(* The two components around it are taken as what they promise.  The click *)
(* collector is a ClickLog, which the module ClickCollector implements: a  *)
(* batch is handed over in one step.  Links and their cache are a LinkLife,*)
(* which LinkStore implements: a lookup finds a link of its code, maybe    *)
(* one that was removed.  This module adds what redirects and PostgreSQL   *)
(* make of that.  A click is the redirect it stems from.                   *)
(*                                                                         *)
(* The process only serves here.  When it ends, all that is in flight is   *)
(* gone, which no property below depends on: the tables stay as they are.  *)
(***************************************************************************)
EXTENDS ClickLog, LinkLife, FiniteSets, Functions

CONSTANTS
  RecentLimit,  \* links in the dashboard's list (10)
  Faults        \* {"db"} when statements may fail

ASSUME AnalyticsAssumption == RecentLimit \in Nat \ {0}

VARIABLES
  counter,   \* the column urls.clicks
  table,     \* the rows of clicks
  pc,        \* where each redirect is
  asked,     \* the code each redirect was asked for
  url,       \* url_id of its click, 0 until the lookup
  inc,       \* the goroutine that increments
  spoiled,   \* history: clicks whose INSERT failed for want of the database
  dash       \* a dashboard request: where it is, the totals it has read, and whether
             \* a link was removed since (history)

redirectVars == <<pc, asked, url, inc>>
vars == <<logVars, lifeVars, redirectVars, counter, table, spoiled, dash>>

----------------------------------------------------------------------------
\* Helpers

\* The sum of a column of urls, as a number of pairs.
ClicksOf(S) == Cardinality(UNION {{i} \X (1..counter[i]) : i \in S})

\* The n newest of a set of links, ORDER BY created_at DESC LIMIT n.  created_at is the start
\* of the transaction; only where more than n links exist does its order against ids matter.
Newest(S, n) == {i \in S : Cardinality({j \in S : j > i}) < n}

NoDash == [at |-> "idle", links |-> 0, clicks |-> 0, cut |-> FALSE]

Init ==
  /\ LogInit /\ LifeInit
  /\ counter = [i \in Ids |-> 0]
  /\ table = {} /\ spoiled = {}
  /\ pc = [n \in Clicks |-> "new"]
  /\ asked = [n \in Clicks |-> NoCode]
  /\ url = [n \in Clicks |-> 0]
  /\ inc = [n \in Clicks |-> "none"]
  /\ dash = NoDash

----------------------------------------------------------------------------
\* Links

\* clicks is 0 by default.
Create(i, c) ==
  /\ Add(i, c)
  /\ UNCHANGED <<logVars, redirectVars, counter, table, spoiled, dash>>

\* clicks.url_id is ON DELETE CASCADE.
RemoveOnly(S) ==
  /\ Drop(S)
  /\ dash' = [dash EXCEPT !.cut = dash.at # "idle"]
  /\ UNCHANGED <<logVars, redirectVars, counter, table, spoiled>>
Remove(S) ==
  /\ Drop(S)
  /\ table' = {n \in table : url[n] \notin S}
  /\ dash' = [dash EXCEPT !.cut = dash.at # "idle"]
  /\ UNCHANGED <<logVars, redirectVars, counter, spoiled>>

LoseCopies(S) ==
  /\ Forget(S)
  /\ UNCHANGED <<logVars, redirectVars, counter, table, spoiled, dash>>

----------------------------------------------------------------------------
\* Redirects

\* GetOriginalURL finds a target, and DeprecatedTrackClick starts its goroutine.
Follow(n, c) ==
  /\ pc[n] = "new"
  /\ Findable(c) # {}
  /\ pc' = [pc EXCEPT ![n] = "record"]
  /\ asked' = [asked EXCEPT ![n] = c]
  /\ inc' = [inc EXCEPT ![n] = "pending"]
  /\ UNCHANGED <<logVars, lifeVars, url, counter, table, spoiled, dash>>

\* The lookup of RecordClick says which link the click is for.  When it finds none, or one that
\* has expired, or fails, the redirect is answered all the same; without the country database
\* it is answered 500.
RecordClick(n) ==
  /\ pc[n] = "record"
  /\ \/ \E i \in Findable(asked[n]) :
          pc' = [pc EXCEPT ![n] = "send"] /\ url' = [url EXCEPT ![n] = i]
     \/ pc' = [pc EXCEPT ![n] = "answered"] /\ UNCHANGED url
  /\ UNCHANGED <<logVars, lifeVars, asked, inc, counter, table, spoiled, dash>>

Send(n) ==
  /\ pc[n] = "send" /\ Accept(n)
  /\ pc' = [pc EXCEPT ![n] = "answered"]
  /\ UNCHANGED <<lifeVars, asked, url, inc, counter, table, spoiled, dash>>

\* UPDATE urls SET clicks = clicks + 1 WHERE short_code = $1, some time later.  It is not
\* tried again, and when only its reply is lost that makes no difference but to the log.
IncrementRetried(n) ==
  /\ inc[n] = "pending"
  /\ counter' = [i \in Ids |-> IF i \in rows /\ code[i] = asked[n]
                                 THEN counter[i] + 1 ELSE counter[i]]
  /\ inc' = [inc EXCEPT ![n] = "done"] \/ UNCHANGED inc
  /\ UNCHANGED <<logVars, lifeVars, pc, asked, url, table, spoiled, dash>>
IncrementEvery(n) ==
  /\ inc[n] = "pending"
  /\ counter' = [i \in Ids |-> IF i \in rows THEN counter[i] + 1 ELSE counter[i]]
  /\ inc' = [inc EXCEPT ![n] = "done"]
  /\ UNCHANGED <<logVars, lifeVars, pc, asked, url, table, spoiled, dash>>
IncrementClick(n) ==
  /\ inc[n] = "pending"
  /\ \/ /\ counter' = [i \in Ids |-> IF i \in rows /\ code[i] = asked[n]
                                       THEN counter[i] + 1 ELSE counter[i]]
        /\ inc' = [inc EXCEPT ![n] = "done"]
     \/ "db" \in Faults /\ inc' = [inc EXCEPT ![n] = "failed"] /\ UNCHANGED counter
  /\ UNCHANGED <<logVars, lifeVars, pc, asked, url, table, spoiled, dash>>

----------------------------------------------------------------------------
\* The collector's flush

\* One INSERT for the batch, which clicks.url_id REFERENCES urls(id) refuses as a whole.
InsertableWithPast(batch) == \A n \in Range(handed) \cup Range(batch) : url[n] \in rows
Insertable(batch) == \A n \in Range(batch) : url[n] \in rows

\* An error is logged and the batch is gone.
Flush(k) ==
  /\ HandOver(k)
  /\ LET batch == NextInLine(k)
     IN  \/ /\ table' = IF Insertable(batch) THEN table \cup Range(batch) ELSE table
            /\ UNCHANGED spoiled
         \/ /\ "db" \in Faults
            /\ spoiled' = spoiled \cup Range(batch)
            /\ UNCHANGED table
  /\ UNCHANGED <<lifeVars, redirectVars, counter, dash>>

----------------------------------------------------------------------------
\* GET /auth/dashboard: two queries, outside of a transaction

\* SELECT COUNT(*), COALESCE(SUM(clicks), 0) FROM urls
Summarise ==
  /\ dash.at = "idle"
  /\ dash' = [NoDash EXCEPT !.at = "summary", !.links = Cardinality(rows),
                            !.clicks = ClicksOf(rows)]
  /\ UNCHANGED <<logVars, lifeVars, redirectVars, counter, table, spoiled>>

\* SELECT ... FROM urls ORDER BY created_at DESC LIMIT 10: the list in the answer.
RecentClicked == Newest({i \in rows : counter[i] > 0}, RecentLimit)
Recent == Newest(rows, RecentLimit)

ListRecent ==
  /\ dash.at = "summary"
  /\ dash' = NoDash
  /\ UNCHANGED <<logVars, lifeVars, redirectVars, counter, table, spoiled>>

\* Either query fails and the answer is 500 without any figures; for the first one that is
\* no step.
SecondQueryFails ==
  /\ dash.at = "summary" /\ "db" \in Faults
  /\ dash' = NoDash
  /\ UNCHANGED <<logVars, lifeVars, redirectVars, counter, table, spoiled>>

----------------------------------------------------------------------------

Next ==
  \/ \E i \in Ids, c \in Codes : Create(i, c)
  \/ \E S \in SUBSET Ids : Remove(S) \/ LoseCopies(S)
  \/ \E n \in Clicks :
       \/ \E c \in Codes : Follow(n, c)
       \/ RecordClick(n) \/ Send(n) \/ IncrementClick(n)
  \/ \E k \in 1..BatchSize : Flush(k)
  \/ Summarise \/ ListRecent \/ SecondQueryFails

Spec == Init /\ [][Next]_vars

----------------------------------------------------------------------------
\* Properties

Removed(i) == code[i] # NoCode /\ i \notin rows

TypeOK ==
  /\ Range(accepted) \subseteq Clicks /\ Range(handed) \subseteq Clicks
  /\ phase = "serving"
  /\ code \in [Ids -> Codes \cup {NoCode}]
  /\ rows \subseteq {i \in Ids : code[i] # NoCode}
  /\ stale \subseteq {i \in Ids : Removed(i)}
  /\ counter \in [Ids -> 0..Cardinality(Clicks)]
  /\ table \subseteq Clicks /\ spoiled \subseteq Clicks
  /\ pc \in [Clicks -> {"new", "record", "send", "answered"}]
  /\ asked \in [Clicks -> Codes \cup {NoCode}]
  /\ url \in [Clicks -> Ids \cup {0}]
  /\ inc \in [Clicks -> {"none", "pending", "done", "failed"}]
  /\ dash \in [at : {"idle", "summary"}, links : 0..MaxId, clicks : Nat, cut : BOOLEAN]

\* Deleting a link takes its analytics along, for good: no row of clicks names a link that
\* is gone, though clicks of it are still in the channel or in a batch when it goes.
NoOrphanClicks == \A n \in table : url[n] \in rows

\* A redirect is counted at most once in a link's column, however late its goroutine is, and
\* only in that of a link with the code that it asked for (maybe another link than it found):
\* the column shows no more than the redirects of that code whose UPDATE was carried out, and
\* no less unless a link of that code was removed.
CountsRedirects ==
  \A i \in rows :
    LET counted == {n \in Clicks : asked[n] = code[i] /\ inc[n] = "done"}
    IN  /\ counter[i] <= Cardinality(counted)
        /\ (\A j \in Ids : Removed(j) => code[j] # code[i]) => counter[i] = Cardinality(counted)

\* A click is lost in the database only with a cause at hand: its INSERT failed, or it was
\* handed over close to a click of a link that has been removed.  A failed batch does no
\* harm to the next ones.
LossHasCause ==
  \A k \in 1..Len(handed) :
    \/ handed[k] \in table \cup spoiled
    \/ \E m \in 1..Len(handed) :
         m > k - BatchSize /\ m < k + BatchSize /\ Removed(url[handed[m]])

\* The two queries of a dashboard see different moments, but unless a link was removed in
\* between they can differ in one direction only: the list may show more than the totals.
DashboardDrift ==
  [][ListRecent /\ ~dash.cut /\ Cardinality(Recent) < RecentLimit =>
       dash.links <= Cardinality(Recent) /\ dash.clicks <= ClicksOf(Recent)]_vars

\* README.md: "Tracks click counts for every shortened URL".  So, with a database that
\* works, a click that was handed over should be in the table as long as its link exists.
\* (Violated: a click of a link that was removed makes the INSERT of its batch fail.)
ClicksKept ==
  \A n \in Range(handed) : url[n] \in rows => n \in table \cup spoiled

=============================================================================
