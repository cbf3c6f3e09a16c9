# choto in TLA+

A specification of the URL shortener in this repository: TLA+ modules for its concurrent
core, TLC runs that check them on small instances, and TLAPS proofs of their safety
properties for every instance.

## The system

choto is one Go process in front of PostgreSQL (the truth) and Redis (a cache, and the
counters of the rate limiter). Every HTTP request is a goroutine of `net/http`; the process
adds one goroutine that collects clicks, one that deletes expired links on a ticker, one per
redirect that increments a counter, and `main`, which waits for a signal.

| component | source | state it keeps | operations | speaks to |
|---|---|---|---|---|
| links and their cache | `service/url_service.go`, `repository/url_repo.go`, `handlers/url.go` | table `urls`, sequence `urls_id_seq`, Redis keys named by a short code | shorten, redirect, stats, clicks, QR code, delete, cleanup | PostgreSQL, Redis, click collector |
| click collector | `service/url_service.go:46-169, 405-425` | a channel of 100, a local batch, a `done` channel, a wait group | send, receive, tick, flush, stop | table `clicks` |
| process life | `cmd/api/main.go` | where main is | signal, drain, stop the collector, close | all |
| rate limiter | `middleware/rate_limiter.go` | a Redis counter with a TTL per client address | INCR, EXPIRE, 429 | Redis |
| accounts | `service/user_service.go`, `repository/user_repo.go`, `handlers/user.go`, `middleware/auth.go` | table `users`, Redis keys `refresh:<uuid>`; access tokens are signed and kept by clients | register, login, refresh, access check | PostgreSQL, Redis |
| dashboard, analytics | `repository/user_repo.go`, `repository/url_repo.go:368-469` | none | aggregate queries | PostgreSQL |
| encoder | `pkg/encoder` | none | the hashid of an id | |
| configuration, storage, router, logger, headers, ping, generated docs | `config`, `storage`, `cmd/api/router.go`, `middleware`, `docs` | none after start | | |

### Which behaviours are hard

* **The cache is filled and invalidated without a lock.** A lookup reads Redis, then
  PostgreSQL, then the clock, then writes Redis; a deletion deletes the key, the row, and the
  key again; a creation writes its key after its commit. All of that interleaves, and every
  failure of Redis is only logged.
* **Codes come from two sources.** A custom alias and the hashid of an id are both strings in
  the column `short_code`; only the unique index keeps them apart, and what it refuses is
  handled on one path and not on the other.
* **Codes come back.** After a deletion a code may be taken by another user, while cache
  entries and requests still carry the old row. A redirect looks its code up twice.
* **Time.** A TTL is computed in one step and stored in a later one.
* **Clicks wait in memory.** The handler's send blocks when the channel is full; the collector's
  `select` takes any case that is ready; the process may stop at any moment, in three ways.
* **INCR and EXPIRE are two commands**, and the error of the second is ignored.
* **Redis commands are sent again.** The client is built with the defaults of go-redis
  (`storage/redis.go:6-11`), which sends a command again when its reply does not come: a SET,
  an INCR or an EXPIRE may take effect several times within one call.
* **A session lives in three places**: a row, a Redis key with a TTL, and signed tokens that
  nobody can take back. Registration and login spell an address differently.

### What makes each part correct

* *links*: a code means one live link; a code obeys the rules for aliases; a request is
  answered with a link of the code it asked for, and analytics go to the owner only; only the
  owner or the clock removes a row; a cache key holds its own link, not past its expiry; a
  removed link cannot come back once its copies are gone, and they do go; expired rows are
  cleaned up; requests end.
* *clicks*: each accepted click is in exactly one place and in order; batches stay in bounds;
  the collector outlives its senders and the database outlives the collector; a shutdown ends;
  a click that is accepted reaches the database call while the process serves.
* *rate limiter*: at most `Limit` counted requests of a window pass; nobody is turned away
  before that; the window does not move and ends.
* *accounts*: one address is one account; what registration answers is so; who registered gets
  in; a token stands for the user who logged in, and for a bounded time.

## Modules

| module | models | runs |
|---|---|---|
| `LinkStore` | the links, their cache, the requests on them, the deletion of expired rows | through `MCLinkStore` |
| `MCLinkStore` | values for TLC: a case-folding map, colliding hashids, symmetry | `LinkStore*.cfg` |
| `CleanupWorker` | extends `LinkStore` by the loop of the cleanup worker, its failing runs, fairness and liveness | through `MCCleanupWorker` |
| `MCCleanupWorker` | the values of `MCLinkStore` | `CleanupWorker.cfg` |
| `LinkTable` | the abstract specification of the links: what the answers say about one table | as a property of `LinkStore` |
| `LinkLife` | the abstract specification of the links: what those find who look a code up | as a property of `LinkStore` |
| `LinkStoreProofs` | theorems about `LinkStore`: codes, keys, answers, expiry | |
| `LinkTableProofs` | theorems about `LinkStore` as clients see it, and that it implements `LinkTable` | |
| `LinkLifeProofs` | theorems about `LinkStore` as lookups see it, and that it implements `LinkLife` | |
| `ClickCollector` | handlers, channel, collector, main | `ClickCollector*.cfg` |
| `ClickCollectorProofs` | theorems about `ClickCollector`, and that it implements `ClickLog` | |
| `ClickLog` | the abstract specification of the collector: a log handed over in order | as a property of `ClickCollector` |
| `Analytics` | composes `ClickLog` and `LinkLife` with the tables `urls` and `clicks`, the increments and the dashboard | through `MCAnalytics` |
| `MCAnalytics` | symmetry for TLC | `Analytics*.cfg` |
| `AnalyticsProofs` | theorems about `Analytics` | |
| `RateLimiter` | one client's key and its concurrent requests | `RateLimiter*.cfg` |
| `RateLimiterProofs` | theorems about `RateLimiter` | |
| `Accounts` | the users, the refresh keys, the access tokens and the requests on them | through `MCAccounts` |
| `MCAccounts` | values for TLC: spellings of an address that Go and CITEXT fold alike and otherwise, passwords that bcrypt confuses | `Accounts.cfg` |
| `AccountsProofs` | theorems about `Accounts`: who is who | |
| `SessionProofs` | theorems about `Accounts`: for how long | |

### LinkStore

State: `rows` (ids of the committed rows), `link` (what was committed under each id: code,
owner, whether it expires; kept after the row is gone, since entries and requests outlive it),
`life` (time left until `expires_at`), `nextId` (the sequence), `cache` (a Redis key per code:
nothing, the bare URL that `Create` stores (`raw`), or the JSON of a row that `GetByCode`
stores (`json`)), `pc` and `req` (each request's place and local variables).

A request is a worker. Between two steps of a worker lies exactly one access to PostgreSQL,
to Redis or to the clock, so that everything other requests can see between two accesses is
a state of the model:

| action | code |
|---|---|
| `Shorten` | the handler and `URLService.Shorten` up to the repository: the refusals, the alias in lower case |
| `InsertAlias`, `InsertAuto`, `EncodeId`, `CreateFails`, `SequenceExhausted` | the transaction of `Create`: INSERT with the alias and COMMIT; or INSERT, UPDATE with the hashid, COMMIT; each may be refused by the index, fail, or commit and lose its reply |
| `CreateTTL`, `Publish` | the clock is read, and the key is SET |
| `Lookup`, `CacheGet`, `Select`, `Check`, `Backfill` | `GetByCode`: GET, SELECT, expiry and TTL, SET; `stats` goes to the database only |
| `Found`, `Missed` (operators) | what each handler does with the row or the error. A redirect that has its target starts its second lookup, that of `RecordClick`, whose errors it ignores |
| `Delete`, `Invalidate`, `Remove`, `RemoveFails`, `Purge` | DEL, DELETE with the owner, DEL |
| `SetLost` | a SET of `Publish` or `Backfill` takes effect and its reply does not come: go-redis will send it again, or give up |
| `DeleteExpired` | the DELETE of the cleanup worker, when it deletes something (the worker itself is in `CleanupWorker`) |
| `Reply` | the goroutine ends |
| `Evict`, `Tick` | Redis loses a key, also by a DEL that is sent again; time passes |

INSERT and COMMIT of an alias are one step: until the commit nobody sees the row, and a second
INSERT of the same code waits for the first transaction. `InsertAuto` is a step of its own
because its id is drawn then. Time is relative (`life`, `ttl` count down) so that it needs no
bound: `life` stops at `Floor`, below which no entry can be alive. `MaxLag` bounds the time a
request spends between reading the clock and storing the TTL; it is a bound of the model, and
the property about expiry is stated in terms of it. `expires_at` may be in the past from the
start, because the handler's `time.Duration(hours) * time.Hour` wraps around.

Codes are abstract. `Lower` is `strings.ToLower`, `Reserved` the reserved aliases, `Encode` the
hashid of an id. Nothing is assumed of `Encode` but its type: it need not even be injective for
the theorems. Only codes that are short codes are keys here. The keys of the limiter (`rate:<ip>`)
and of the sessions (`refresh:<uuid>`) contain a colon, which no alias (`alphanum`) or hashid does,
so no link is ever stored under one. A path may name one all the same: a lookup of it finds a number,
which `json.Unmarshal` refuses for a row, and then no row; `DELETE /urls/:code` sends DEL for whatever
its path says, before it asks the database (`url_service.go:387`), and erases the key. To the limiter
and the sessions that is a Redis that has lost it: their `Restart` and `Evict`.

A command that is sent again is a step that changes Redis and leaves the request where it is. The
client's limit of three repetitions is not modelled (any number is allowed). What the model assumes is
that a command whose reply was given up has been carried out, or never will be, by the time the
request goes on.

### CleanupWorker

`StartCleanupWorker` beside all of `LinkStore`: `cleaner` is `waiting` in the worker's `select` or
`deleting` in a run. `TickerFires` starts a run; `RunSucceeds` is one whose DELETE is carried out,
whether or not it finds something; `RunFails` is one that reports an error, be it that nothing was done
or that only the reply was lost. After either the worker is back at its `select`. Every other step of
`LinkStore` leaves the worker alone. `LinkStore` lets `DeleteExpired` happen at any moment and demands
nothing of it, which is all that its safety properties need; that the rows do go is a
property of the loop, and is stated here together with the other liveness properties.

### LinkTable

What a client may conclude from the answers, with no cache, no transactions and no clock: a table
of links, and for each request its stage (`idle`, `asked`, `created` or `deleted`, `told`), its
wish and its answer. A request takes effect at most once, between its arrival and its answer; 201
names the link it has created, 204 means that a link of this user's was there and has been deleted,
400 and 404 were true at the moment of the refusal, and 500 says nothing (the effect may have
happened). `LinkStore` implements it: `TableStage`, `TableWish`, `TableMade` and `TableStatus` are
the refinement mapping, which reads a request's place and local variables; `rows` and `link` are
the same in both. Insertion and hashid are one moment there (`EncodeId` is `Create`, `InsertAuto` a
stutter), every lookup is `AnswerOther`, and everything that the cache does is a stutter.

### LinkLife

What a lookup may find, with no cache, no requests and no clock: the rows, the code of each link that
there is or was, and `stale`, the links without a row of which somebody has a copy. A link is added
under an id and a code that are free (`Add`); rows go, and of some of them copies stay (`Drop`);
copies are given up (`Forget`). Nothing makes a copy of a link that has neither row nor copy.
`LinkStore` implements it: `LifeCode` is the code column, and a link is in `LifeStale` when a key
holds its JSON or a lookup is between its SELECT and its SET (`Reachable`). A commit is `Add`, a
DELETE of a request or of the cleanup worker is `Drop`, and whatever the steps of lookups, of Redis
and of slow creations do to copies is `Forget` or a stutter. `FindsFindable` ties the requests to it:
the link that a lookup finds is `Findable` for its code at that very step, in the table or a copy.

### ClickCollector

State: each handler's place and click, the channel's buffer, the collector's batch and place,
`done`, main's place, whether the database is open, and two histories: `accepted`, the clicks
whose send completed, and `handed`, those that `RecordClicksBatch` was called with and has
returned for. A click is its number. `Resolve` stands for the two lookups that `LinkStore`
models, which may yield no click. The three cases of the collector's `select` are three actions,
so TLC takes any that is ready, as Go does; a flush is an action that starts when the batch is
given away and ends when the call returns, with or without an error (the error drops the batch).
`main` drains (`Shutdown`), gives up draining (`ShutdownTimesOut`), never started listening
(`ListenFails`), or goes on to stop the collector, wait for it, close the stores and exit. The
process ends by `exited` or `aborted`, after which only `Ended` is possible: this is why no
run needs deadlock checking turned off.

### ClickLog and Analytics

`ClickLog` is what the collector promises: the clicks that were accepted are handed to the database
once each and in order, in batches of at most `BatchSize`, and none after the process has ended;
while the process serves each of them is, and a process that is told to stop does end.
`ClickCollector` implements it under the mapping `LogPhase`, where the end is the moment `main`
closes the stores.

`Analytics` builds on that: it takes the collector as `ClickLog` (its `Accept` and `HandOver`) and
the links as `LinkLife` (its `Add`, `Drop` and `Forget`; a lookup finds what is `Findable`), and adds
what surrounds them. Both are what the detailed modules are shown to implement, so a removed link
that `Analytics` lets a redirect find is one that the cache can really bring up, and no other is.
`counter` is the column `urls.clicks`, `table` the table `clicks`. `ClicksOf` is a SUM of the column
as a number of pairs, one for each unit of each row. Each redirect has a place (`pc`), the code it asked
for, the id that its second lookup found (`url`), and its increment goroutine (`inc`).

| action | code |
|---|---|
| `Create`, `Remove`, `LoseCopies` | a link comes; links go (with their clicks: ON DELETE CASCADE), one by its owner, several by the cleanup worker; copies are gone |
| `Follow`, `RecordClick`, `Send` | `Redirect`: `GetOriginalURL` and `DeprecatedTrackClick`; the second lookup; the send |
| `IncrementClick` | `UPDATE urls SET clicks = clicks + 1 WHERE short_code = $1` in its goroutine |
| `Flush` | `RecordClicksBatch`: one INSERT, which the foreign key refuses as a whole |
| `Summarise`, `ListRecent`, `SecondQueryFails` | the two queries of `GetDashboard` |

The process only serves in `Analytics`: its end cuts off what is in flight and leaves the tables as
they are, so no safety property about them depends on it. The dashboard is that of one user, who
owns all the links of the model; `active_links` needs the clock and is left out.

### RateLimiter

One client's key: `count` and `ttl`, its requests, and histories of the present window (who
was counted in it, how many were let through, which increments had their replies lost, whether
its EXPIRE was lost, whether a stale EXPIRE landed on it). A window is the life of the key.
`Incr`, `Expire` and `Judge` are steps of their own. `IncrLost` and `ExpireLost` are commands that
took effect and whose replies did not come: go-redis sends them again, so that one request may count
twice (and, if it created the key, be answered 2 and never set its TTL) and one EXPIRE may be carried
out twice, the second time later. `IncrFails` and `ExpireFails` are calls that end in an error.
`Restart` is a Redis that has lost the key, for whatever reason. Counts above the limit mean the same,
so `count` stops at `Limit + 1`.

`WindowNeverExtended` says what is left of a fixed window: its end is moved by the one request
that has opened it and is still at its EXPIRE (`Opening`), or by an EXPIRE left over from
a window that Redis has lost (`foreign`).

### Accounts

State: `users` and `account` (the rows), `nextId` (the sequence), `key` (the Redis keys of the
refresh tokens with their TTLs), `held` and `tokens` (what clients were given), and two histories:
`opened`, the address and password each session was opened with, and `age`, the time since its tokens
were given out. A request's `known` is history too: whether, when a login arrived, there was an account
made from what it types.

| action | code |
|---|---|
| `Register`, `Insert`, `InsertFails` | the handler and `CreateUser`; INSERT, which draws an id, may be refused by the index, fail, or take effect and lose its reply |
| `Login`, `Find`, `Issue`, `Store` | SELECT by the address as typed and bcrypt; the clock, for the access token; SET of the refresh key |
| `SetLost` | the SET takes effect and its reply does not come: it will be sent again under the same token, or given up |
| `Refresh`, `Get`, `Issue` | GET, where any error means an expired token; the clock |
| `Call`, `IsAuthenticated`, `GetByID` | the header, the expiry of the token, SELECT by the id in it |
| `Reply`, `Evict`, `Tick` | the goroutine ends; Redis loses a key; time passes |

`Clean` is what registration makes of an address (`ToLower` and `TrimSpace`, `user_service.go:121`),
`Citext` what PostgreSQL compares the column by (`user_repo.go:51`), and nothing is assumed of
how the two relate: CITEXT trims nothing, and lowers some letters differently from Go. So not everybody
who registers gets in: an address typed with a leading no-break space passes the validator, is stored
without it, and the same address at the login finds no row and is answered 401, "Invalid credentials"
(`handlers/user.go:94`). `KnownUserLogsIn` says that this is the only way to be refused: `Intact` are the
addresses that cleaning leaves the same to CITEXT, and of those who type what they registered with,
only the others are told that it is wrong. In `MCAccounts` `A` is `a` in capitals (`Intact`) and
`n` is `b` after a no-break space (not `Intact`, and TLC reaches its 401).

`Digest` is what bcrypt sees of a password, so that a password too long to be hashed may still
match. A refused request is answered in its first step.

## Runs

| run | instance | checks | shows |
|---|---|---|---|
| `store_codes` | 2 requests, 2 users, 3 codes, 2 ids, all faults | `TypeOK`, `UniqueLiveCode`, `AliasRules`, `AnswersGenuine`, `OwnerOnlyDelete`, `ImplementsLinkTable` | a code has one live link and follows the rules, answers are about the right link and its owner, rows go by expiry or by their owner, and the status codes tell the truth |
| `store_cache` | 2 requests, 1 user, 2 codes, 2 ids, time, Redis faults | `CacheHoldsOwnCode`, `CacheHonoursExpiry`, `GoneForGood`, `ImplementsLinkLife`, `FindsFindable` | what the keys hold and lookups find when rows expire, are deleted and are created again |
| `store_live` | `CleanupWorker`: 2 requests, 1 user, 1 code, 1 id, time, all faults, fair | `DeletedEventuallyGone`, `ExpiredEventuallyRemoved`, `RequestsAnswered` | copies of a removed link die out, expired rows are deleted although runs of the worker fail, requests end |
| `store_deleted` | as `store_cache`, no faults | `DeletedLinkNotServed` | **violated**, see below |
| `store_readable` | as `store_cache`, no faults | `CachedLookupHits` | **violated** |
| `clicks_flow` | 2 handlers, channel of 2, batches of 2, 5 clicks, fair | `TypeOK`, `Accounted`, `SelectsBelowSize`, `CollectorOutlivesHandlers`, `FlushesBeforeClose`, `ShutdownEnds`, `AcceptedHanded`, `RedirectsEnd`, `ImplementsClickLog` | clicks are neither lost nor doubled between send and flush, main stops things in an order that works, and together that is a `ClickLog` |
| `clicks_left_over` | same | `GracefulExitKeepsClicks` | **violated** |
| `analytics` | 3 redirects, batches of 2, 2 links, 2 codes, failing statements | `TypeOK`, `NoOrphanClicks`, `CountsRedirects`, `LossHasCause`, `DashboardDrift` | what the tables hold of the clicks when links go at any moment, and what a dashboard may show |
| `analytics_kept` | same, no faults | `ClicksKept` | **violated** |
| `limiter_window` | 3 requests, limit 2, window 2, all faults, fair | `TypeOK`, `AdmittedWithinLimit`, `RejectedOnlyWhenSpent`, `NoTTLOnlyAfterLoss`, `WindowNeverExtended`, `TimedWindowEnds` | what a window guarantees in spite of lost commands and of commands that are sent again |
| `accounts` | 2 requests, 2 addresses and a second spelling of each, 3 passwords, 2 ids, 1 session, time, all faults | `TypeOK`, `UniqueEmail`, `RegisterAnswersTrue`, `KnownUserLogsIn`, `AdmittedAsOpened`, `SessionBounded` | what accounts and tokens are good for, however requests interleave, fail and dawdle |
| `limiter_stuck` | 3 requests, limit 2, window 2, lost commands, fair | `WindowEnds` | **violated** |

### Where code and docs disagree

* `DeletedLinkNotServed`: the docs of `DELETE /urls/{code}` promise that it "permanently
  removes" the link (`handlers/url.go:200`). A lookup that selected the row before the DELETE
  and stores it after the second DEL (`url_repo.go:170`) puts it back into Redis, with 24 hours
  to live if the link has no expiry; every redirect then follows it. `GoneForGood` and
  `DeletedEventuallyGone` say what does hold: when the copies that existed at the deletion are
  gone, the link is gone for good.
* `CachedLookupHits`: `Create` logs "cache populated" (`url_repo.go:111`) for a value that
  `GetByCode` cannot read. It stores the bare URL and the lookup expects JSON
  (`url_repo.go:104, 126`).
* `ClicksKept`: "Tracks click counts for every shortened URL" (`README.md:8`). One click of a link
  that has been removed since, or was found in the cache after its removal, makes the foreign key
  refuse the INSERT of its batch (`url_repo.go:505`), and the clicks of all other links in the batch
  are dropped with it. `LossHasCause` says how far that goes: no click is lost for it that was not
  within a batch's length of such a click.
* `GracefulExitKeepsClicks`: "Server exited gracefully" (`main.go:108`) with clicks left in
  the channel (`url_service.go:146`).
* `WindowEnds`: a fixed window (`README.md:9`) that never ends, because the error of EXPIRE is
  ignored (`rate_limiter.go:23`), or because the first INCR lost its reply, was sent again and was
  answered 2, in which case no request sends an EXPIRE and none sees an error.

### Bounds, and why they are enough

*LinkStore.* Two concurrent requests give every race of the code between a reader, a writer and
a deleter two at a time, and one of them can run again and again while the other is held at any
step, so three requests in a row against one slow request are covered. Two ids let a code be
deleted and taken again, and with `Encode[1] = up` (not a possible alias) and `Encode[2] = lo`
(a possible one) hashids that aliases can and cannot take. `up` is `lo` in capitals, so that
folding the case matters. `MaxLife` 1 gives links without expiry, with expiry now and with expiry
ahead; `DayTTL` 2 is longer than that, and `MaxLag` 1 lets the clock run while a TTL is held.
The runs split the question: with three codes and two users time is left out (`MaxLife` 0 leaves
links that never expire and links that have expired), with time there is one user. Liveness is
checked with one id and its code, since what must happen to a link does not depend on other links, and
with no symmetry. An exhausted sequence answers 500 like any error and keeps the instance finite.

*ClickCollector.* The channel (100 in the code) and the batch are both 2, the least at which a
full channel, a full batch, a partial batch and a blocked sender are different; 5 clicks fill
the channel and the batch and leave one to block.

*Analytics.* Three redirects and batches of two give a batch with clicks of two links, one with two
of the same, and a click that no shared batch can reach. Two ids and two codes: two links live
together, or one takes the code of the other. With `RecentLimit` 2 the list is shorter than the
limit when there is one link or none, which is where the totals and the list can be compared.

*RateLimiter.* Limit 2 with 3 requests: one can be turned away while two are on their way.
Window 2: a stale EXPIRE can push the end away.

*Accounts.* Two requests race to register one address in two spellings; two ids are two accounts
and make a third INSERT find the sequence exhausted. Sessions share nothing in the code but the
table, so one refresh key is enough; a second login that comes to `Store` finds no free token, and
answers 500 or stays there, which no property of this module depends on. `RefreshTTL` 2 is the
least at which an extended key would show, `AccessTTL` 1 and `MaxLag` 1 let a token outlive the key.

### Fairness

* A goroutine that can go on does (weak fairness of every step of a request, of main and of
  the collector's flush): the Go scheduler, `net/http`, and calls that return because they have
  timeouts or the connection breaks.
  None of them is sent to Redis again for ever, which the client's limit of retries forbids.
* `WF(Tick)`, `WF(TimePasses)`: time passes.
* `WF(TickerFires)`: a worker that waits at its `select` gets the next tick. `SF(RunSucceeds)`: of the
  runs that are begun not every one fails. Nothing is assumed of what a run finds, nor that one is begun:
  that the worker comes back after a failure is the code's doing, and a loop that ended with an
  error violates `ExpiredEventuallyRemoved`.
* `SF` of the collector's three cases: `select` picks a ready case at random, so none that is
  ready again and again is passed over for ever. `SF(Send)`: the runtime queues blocked senders
  first in, first out.
* Requests, signals and failures are never fair: they need not come.

## Proofs

Each theorem holds for every value of the constants that the module's one assumption admits
(`LinkStoreAssumption`, `ClickCollectorAssumption`, `RateLimiterAssumption`,
`AccountsAssumption`, `AnalyticsAssumption` with `ClickLogAssumption` and `LinkLifeAssumption`), and TLC evaluates it in the
runs of the module. The assumptions ask for little more than types: any sets of requests, users,
codes, clicks and sessions, any bounds, any subset of faults. Of `Encode` and `Lower` nothing is
assumed but their types, but that lowering twice is lowering once; of `Clean` and `Citext` nothing but
their types; of a limit and a lifetime, that they are not 0. Only the limiter asks for a finite set of requests, because it counts them, and
`TypeOK` of `Analytics` for a finite set of redirects, because it bounds a column by their number.

### Links (`LinkStoreProofs`)

* `TypeCorrect` (`[]TypeOK`). `TypeOK` is not inductive: that `EncodeId` and `CreateTTL` use a
  proper id depends on where the request is. `TypeInv` adds `Carried`, what the variables hold at
  the steps that use them.
* `CodesUnique` (`[]UniqueLiveCode`), from the guard of `Commit`, the unique index.
* `Allocation`: an id that is not drawn yet has no link, and an id in a transaction is held by
  it alone. Hence `LinksStable`: what is committed under an id never changes. Everything
  below rests on it, because caches and requests refer to links by id.
* `CodeInvariant`: `CodeInv` says what each step of a request has established about the link it
  carries, and that each key holds a link of its code. It gives `CacheKeysRight`
  (`[]CacheHoldsOwnCode`) and `AnswersRight` (`[]AnswersGenuine`).
* `ExpiryHonoured` (`[]CacheHonoursExpiry`): the strengthening is `Held`, the TTL in a
  request's hands is at most the time left plus the time it has been held. `Tick` takes
  one from both sides, and where `life` stops counting an entry would have a negative TTL.

### Links as clients see them (`LinkTableProofs`)

* `TableInvariance`: `TableInv` adds to the invariants above `AliasRules` and `Concerned`, what a
  request that concerns the table carries to the step at which it takes effect: an alias that the
  handler let through, a deletion's code and user, and no status before the answer.
* `CodesObeyRules` (`[]AliasRules`) is a conjunct of it.
* `StoreIsTable` (`Spec => ImplementsLinkTable`): lemmas about the mapping say where it puts a
  request at each of its places (`StageAt`), that a step of one request leaves the others where
  they are (`Elsewhere`), and that a step that moves no request to another stage is a stutter of
  the table (`Stutters`); then each action is one step of the table or a stutter.
* `OwnersDelete` (`Spec => OwnerOnlyDelete`) looks at the actions that take a row away.
* `GoneStaysGone` (`Spec => GoneForGood`): a removed link comes back through a row, a request's row
  or a key only (`NewRows`, `NewIds`, `NewKeys`: where each of them can get a link from), and
  once none of the three has it none can.

### Links as lookups see them (`LinkLifeProofs`)

* `StoreIsLife` (`Spec => ImplementsLinkLife`) needs no invariant beyond `TableInv`. Steps fall into
  three kinds: rows and links stay (`RowsKept`), rows go (`RowsGo`), a transaction commits
  (`CommitAdds`). In the last two the step is that of a request which is no lookup, so copies stay as
  they are (`CopiesKept`). In the first a link that has neither row nor copy must not get one
  (`NoNewCopies`): it is `Dead`, because an id in a transaction has no link yet (`Allocation`), and the
  dead stay out of reach (`StaysGone`, the lemma behind `GoneForGood`).
* `LookupsFind` (`Spec => FindsFindable`): what a lookup has at hand is named by `CodeInv` and is
  `Reachable` through the key it has read or through the request itself.

### Clicks (`ClickCollectorProofs`)

The invariant joins `TypeOK` and `Accounted` with `StopOrder` (how far each of main, collector and
database has stopped, given the others: it is the argument of `CollectorOutlivesHandlers` and
`FlushesBeforeClose`), `BatchOrder` (what the batch holds at each place of the collector, which is
`SelectsBelowSize` made inductive), `ClicksInHand` and `Fresh` (a click that a handler has was not
accepted before and is in no other hands, so that the log never accepts it twice).
`CollectorIsLog` is the safety part of `ImplementsClickLog`: a send is `Accept`, the return of a
flush is `HandOver` (the batch is the next stretch of `accepted`: `MiddlePart`, from `Accounted`),
the closing of the stores is the end.

### Rate limiter (`RateLimiterProofs`)

The limit is shown by counting places: those a window has given away are the requests let through
and those that still may be (`Pending`, finite, so that it has a cardinality). `PlacesBounded` and
`PlacesUsed` bound them from above by `Limit` and by `count`, and from below by what was counted
less the replies that were lost; a 429 needs a count above the limit (`CountsRise`), so all places
are gone. `OneSetter`: a window has one request at most that is answered 1, and as long as it is at
its EXPIRE or after it no other of this window sets the TTL, however often the EXPIRE of the one is sent.
They give `NeverTooMany`, `NeverTooEarly`, `TTLComes` and the action property `WindowFixed`.

### Accounts (`AccountsProofs`, `SessionProofs`)

* `AdmissionRight` (`[]AdmittedAsOpened`) follows the chain from credentials to admission: a login
  has found the user who knows them (`Vouched`), the key of the session is for that user
  (`KeysRight`), so is every token that stems from it (`TokensRight`), and so is a request with
  one of these in its hands. Links of the chain stay because rows are only added and a session
  is opened under a fresh token, which nobody else has in hand until the tokens are given out, however
  often its SET is sent (`Private`). `EmailsUnique`, `AnswersTrue` and `KnownGetIn` are parts of the
  same invariant, because what a request knows about its user rests on addresses being unique.
* `KnownGetIn` assumes nothing of `Clean` and `Citext`: when the address that registration stores is
  one that login finds (`Intact`), the row made from what was typed (`Registered`) is the one row
  found. When it is not, the login answers 401, and the theorem says so by leaving that case out.
* `LoginBounded` (`Spec => SessionBounded`): the age of a session and what is left of its key, of a
  token, or of the token in a request's hands stay below a bound together (`KeysBounded`,
  `TokensBounded`, `InTime`): `Tick` adds to one what it takes from the other, and a refresh that has
  read the key in time is late by its lag only. A session whose tokens are not given out has age 0
  (`Counted`), so a SET that is sent again stores a TTL within the same bound.

### Analytics (`AnalyticsProofs`)

* `ClicksSent` is what `NoOrphans` and `LossesExplained` rest on: a click that has left its redirect names a link
  that there was, and names it for good. So a row that the foreign key let in keeps its link until the
  cascade takes both (`NoOrphans`), and a click that was refused had a removed link in its batch, and
  removed links stay removed (`LossesExplained`; `BatchInLine` is the arithmetic of positions).
* `ColumnCounts`: `Counted`, the increments made on a code, is a finite set (`Increments`: it starts
  empty and grows by one), so its cardinality can be followed from step to step; a new link starts at
  0 and, if no link of its code was there before, with nothing counted.
* `TypeInvariance` (`[]TypeOK`): that a column counts no more than there are redirects is `Increments`
  again, which bounds it by all increments that were made, of removed links too.
* `DashboardConsistent` (`Spec => DashboardDrift`): `TotalsBelow`, that the totals a dashboard has
  read are not above what is there now unless a link was removed. Rows come, columns rise, and a set of
  pairs that only grows has a cardinality that only grows (`PairsGrow`): a sum as a number of pairs
  needs no induction. What is there now is what the list shows when the list is not full:
  `ShortListIsAll` takes, of the elements that a short list might lack, one with the fewest larger
  ones, and finds it in the list. (That a smallest set exists is the library's theorem about strict
  subsets of a finite set; an argument by induction goes through where it can be turned into one by
  a least counterexample.)

### Only model-checked

* Liveness, for which fairness and ENABLED are needed: `DeletedEventuallyGone`,
  `ExpiredEventuallyRemoved`, `RequestsAnswered`, `ShutdownEnds`, `AcceptedHanded`, `RedirectsEnd`,
  `TimedWindowEnds` and the fairness part of `ImplementsClickLog`.

Every invariant and every action property of the runs that TLC finds true has a theorem. The five
properties that are violated state what the docs promise, and have none.

## Not modelled

* The columns of a click and the aggregation over them in `ListClicks` and `GetClickStats`: each
  report is one statement of PostgreSQL. (Reading the code shows two slips there: `is_bot` is not in
  the INSERT, so `bot_clicks` is always 0; and `clicked_at` is inserted as the zero time.)
* `RecordClicks` (`url_repo.go:328`), which nothing calls.
* That a redirect waits when the channel is full (`url_service.go:422`) although `README.md:26` calls
  the analytics non-blocking: `RedirectsEnd` says that the wait ends.
* Wording of answers, logging, headers (among them `X-RateLimit-Remaining`, which is computed
  from a different limit than the limiter's), QR code pictures, user agent and country.
* Configuration and start-up, the generated API docs.

## Plan

1. done: `LinkStore`, `ClickCollector`, `RateLimiter`, `Accounts`; `ClickLog`, `LinkTable` and
   `LinkLife` with their refinements; `Analytics`, which composes two of them; the proofs above, which
   cover every safety property of the runs.
2. Model-checked and not proved, because the prover has no fairness: see "Only model-checked".
3. Open: `Encode` with the properties that the hashids library has, to see which aliases can meet a
   hashid.
