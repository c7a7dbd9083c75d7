# RedGW Lite: specifications, model checking and proofs

RedGW Lite is an HTTP gateway in front of one Redis server: a FastAPI
application, run by gunicorn as several worker processes with an asyncio event
loop each, that offers typed endpoints (strings, hashes, lists, sorted sets,
sets, streams, publish/subscribe) under `/api/v1`, with API keys, namespace
permissions, an audit log and operational logs. This directory holds TLA+
models of its concurrent core, the TLC runs that check them, and TLAPS proofs.

Paths are relative to `src/`; a definition's lines are in `PROJECT.json`, `map`.

## 1. Inventory

| Component | State it keeps | Operations | Talks to | Hard behaviour | What makes it correct |
|---|---|---|---|---|---|
| Queue routes `app/routers/queue.py` | one Redis list and its TTL | push, batch push, pop, range, len, delete, touch, trim | Redis: Lua scripts, pipelines | the push is a script, its TTL a second round trip; workers race; retried scripts | bound never passed, deque order, one consumer per value, no list left without TTL unexplained, truthful answers |
| KV routes `app/routers/kv.py` | strings, counters, locks | set, batch set, SETNX, get, batch get, exists, incr, delete, touch | Redis | MULTI or plain pipeline; a lock whose reply is lost; int64 limits | atomic batches, exclusive locks, no lost increment, TTL as the writer asked |
| Map routes `app/routers/map.py` | hashes | set, batch set, set field, get, get field, batch get, delete, delete field, touch | Redis | `transaction=True` in some handlers, not in others | whole writes do not mix, no hash left without TTL |
| Rank routes `app/routers/rank.py` | a sorted set | add, batch add, incr, range, between, score, batch get, remove, pop, delete, touch | Redis | a refused command inside a pipeline whose other commands run; doubles | a refused request has no effect |
| Event routes `app/routers/event.py` | a stream, groups, pending lists | publish, batch, read, create group, read group, ack, delete, touch, info | Redis | approximate trimming, retried group creation, consumers that stop | newest events kept, one consumer per event, nothing delivered is forgotten |
| Group routes `app/routers/group.py` | sets and their TTLs | add, batch add, remove, members, contains, count, set operations, batch get, delete, touch | Redis, admin routes on the same keys | add is a plain pipeline, the batch a transaction | no set left without TTL unexplained |
| Publish/subscribe `app/routers/pubsub.py` | `_ws_connection_count`, `_ws_lock`, one Redis connection per subscriber | publish; a WebSocket handler with two tasks | Redis, clients | every await may raise; clients vanish | exact count, no leak, ordered messages, gone clients noticed |
| TTL helper `app/utils/ttl.py` | none | `resolve_ttl`, `touch_key` | Redis | EXISTS, EXPIRE, TTL are not atomic | a missing key is a 404 |
| Redis client `app/redis_client.py` | connection pool | connect, close, ping | Redis | timeouts, retries | every wait ends |
| Audit middleware and logger `app/audit/` | the queue, the listener thread, counters, the pending event of a request | decide, log, record the origin, shut down | auth hooks, Redis, file handler, lifespan | bounded queue, thread against event loop, shutdown | one line per refusal, lines in order and accounted for, drained at exit |
| Auth and namespace guard `app/auth/` | read only | verify key, require read/write/admin | audit (pending event) | none of its own | a refusal happens before any command and leaves its event |
| Lifespan, status monitor, health `app/main.py` | `_monitor_shutdown`, leader key in Redis, one monitor task per worker | start, stop, monitor loop | Redis, both loggers, startup lock | leader key shorter than the interval, workers out of phase, leaders that die between election and line | no gap between status lines longer than interval and key, elections apart |
| File logger `app/utils/file_logger.py` | log file, backups, startup lock file | write, rotate, compress, clean up, acquire and release the lock | file system, other workers | background gzip against rotation and clean-up, several workers, a lock file that is unlocked before it is unlinked | only the retention policy loses lines, oldest removed first, one startup logger |
| Admin routes `app/routers/admin.py` | two caches per worker (`_metrics_text_cache`, `_ns_counts_cache`) | list keys, key details, set TTL, delete, bulk delete, `/metrics`, statistics, origin | Redis, Prometheus | SCAN while keys change, deletion in batches, several handlers refreshing one cache across awaits | deletion takes what was asked and nothing internal; scraped counters do not go back |
| Metrics, access log, headers `app/utils/metrics.py`, `app/middleware.py` | counters in Redis | one fire-and-forget task per response, with one pipeline | Redis, admin `/metrics` | no transaction, retried pipelines, counters lost with Redis | counters account for every request |
| Key builder, validation `app/utils/key_builder.py`, `redgw_core/` | none | build and validate names, sizes | routers | Python and Rust versions | pure functions |
| Configuration `app/config.py`, `app/config_validator.py` | settings | load, validate | everybody | none | CONSTANTS of the models |
| Deployment | nginx, Redis (allkeys-lru, no persistence), Prometheus, Grafana | | | eviction at any time | environment of the models |

What all routers share: a handler is a sequence of *round trips*; the commands
of a `pipeline(transaction=False)` are one round trip but not atomic, those of
a transaction or a Lua script are. Keys vanish at any moment (TTL, eviction,
another client), Redis keeps nothing over a restart, and redis-py sends a round
trip again when it timed out, whether or not the first attempt had run.

## 2. Modules

- `RedisTtl` (TTL replies, `resolve_ttl`) <- `RoundTrips` (the requests: program
  counter, start of the round trip in flight, attempts, last reply, status) <-
  `QueueRoutes`, `KvRoutes`, `MapRoutes`, `RankRoutes`, `EventRoutes`, `GroupRoutes`
  (the data and one action per Redis command or transaction).
- `GroupRoutes` <- `AdminRoutes`: the key administration beside the handlers that
  write the same keys; it is the composition that is checked.
- `WorkerProcesses` (which workers run, restarts) <- `StartupLock` and
  `StatusMonitor` <- `Lifespan`, which composes the two with the start and stop of a
  worker.
- `Metrics` (the counting tasks) <- `MetricsCache` (the handlers of `/metrics` that
  read the counters, and Prometheus).
- `WsSubscribe` refines `SlotPool`. `AuditTrail` composes middleware, queue, listener
  thread and the audit part of the shutdown. `LogRotation` is the file handler
  beneath both loggers, with its gzip thread and the file system.

`MCxxx` extends `xxx` with the values, the symmetry and the slices of the TLC runs;
`xxxProofs` holds the theorems, `WorkerProofs` those of the three components `Lifespan`,
`AuditTrail` and `MetricsCache`, `WsAndLogProofs` those of `WsSubscribe` and `LogRotation`.

**Handlers as programs.** `pc[r]` is the next command of request `r`. `Arrive`
picks an endpoint and arguments, `Refuse` is every answer given before the first
command (403, validation, size). A command action is `guard pc[r] = "..."`, the
effect on the store, the reply kept in `result`/`meta`, the next `pc`; a command
that ends a round trip and starts another uses `RoundTrip` instead of `Step`.
`Answer` computes the status and `meta.ttl` as the code does. `LoseRoundTrip` may
strike before, between or after the commands of a round trip: the round trip
starts again from its first command, at most `Retries` times, then the answer is
500. So that it can strike after the last command, a command that writes and the
receipt of its reply are two steps wherever the handler goes on from it: after a script
(`"pushed"`), a trim (`"trimmed"`), an EXPIRE of the key administration
(`"admin_expired"`) and a DEL of a bulk deletion (`"deleted"`), and `"answer"` or
`"admin_answer"` after the last one. A command that only reads may be joined with its reply. `KeyExpires` and `KeyEvicted` remove a key at any time.

| Module | Code | State |
|---|---|---|
| `QueueRoutes` | `queue.py` | `list` of elements named by the order in which they were accepted and the side they came from; `ttl`; per request, history of values put in (`put`) and taken out (`taken`) |
| `KvRoutes` | `kv.py` | `db[k]` text or integer with its writer, `ttl[k]`; `age[k]` counts the lives of a key, `saw[r]` the life a request changed |
| `MapRoutes` | `map.py` | `hash[k][f]`: the writer of the field; `ttl[k]` |
| `RankRoutes` | `rank.py` | `zset` with scores in a small copy of the doubles (finite range, infinities, NaN), which are bounds of `Between` too; `wrote[r]` notes an effect |
| `EventRoutes` | `event.py` | the stream as the interval `first..clock` of event numbers; `groups`, `delivered[g]`, `pel[g]`; `born` separates the lives of the key |
| `GroupRoutes` | `group.py` | `group[k]`: the members; `ttl[k]` |
| `AdminRoutes` | `admin.py` 83-252 | the keys of `GroupRoutes`, keys of `others` (users' and internal); per request the keys still to delete (`todo`), the keys there since it began (`stay`), `truncated`, the count it reports (`deleted`); history: keys its DELs have `removed`, and whether the reply of one was lost (`unheard`) |
| `WorkerProcesses` | gunicorn workers | the stage of each worker, number of starts |
| `StartupLock` | `file_logger.py` 453-506 | the file under the lock's name, per worker its open file and its flock: flock locks the file, not the name |
| `StatusMonitor` | `main.py` 30-98 | per worker the step of the loop and its timer; the leader key as the ticks it has left; `apart` and `silence` measure time since the last election and line |
| `Lifespan` | `main.py` 101-232 | the order of start and stop; degraded start; crash and restart |
| `Metrics` | `metrics.py` 76-110, `middleware.py` 63-109 | counters in Redis, per response its task |
| `MetricsCache` | `admin.py` 42-80, 334-484, `metrics.py` 113-214, `prometheus.yml` | per worker the two caches with the age of their time stamps, the handlers, the scrape, what Prometheus has `seen` |
| `WsSubscribe` | `pubsub.py` | per client: stage of the handler, pump and watcher task, messages on its Redis connection and sent; `count`, `lock`, `waiters` |
| `SlotPool` | what the connection limit promises | the set of slot holders |
| `AuditTrail` | `audit/middleware.py`, `audit/logger.py`, `main.py` 200-232 | per request: stage, kind, outcome, events logged; `queue`, `listener`, `file`, counters; the recorded `origin` of each key |
| `LogRotation` | `file_logger.py` 64-380 | `dir` (names to files) and `data` (files to their lines and mtime), so that a rename does not move a file from under its readers; per worker the step of its handler, date, counter, stream, clean-up lists, compression jobs; `log`: every line written and its day |

Operators named `Xxx_Something` are mutations of `Xxx`, used to show that each
property is sensitive to a plausible bug; no specification uses them.

## 3. Runs

Each run ends in about two minutes or less with two workers.

| Run | Instance | Question and result |
|---|---|---|
| `queue_all` | 2 requests with 1 retry, or 3 racing without; lists of at most 3, batches of 2, keep 1 | The bound, deque order, single delivery and trim hold under every interleaving with expiry and eviction; with lost and repeated round trips a list without TTL is explained, answers are truthful and no 200 says `ttl: -2` (1.2 million states) |
| `kv_all` | 2 requests, 2 keys, word -2..2, 1 retry | Atomic batches, exclusive locks, refused NX, TTLs of their writers (176 000) |
| `map_all` | 2 requests, 2 maps of 2 fields, 1 retry | Whole writes do not mix; a map without TTL, or TTL -2 in the answer of a write, only as stated (138 000) |
| `rank_all` | 2 requests, 2 members, scores 0, the largest double, inf, NaN, 1 retry, fairness | A 400, whether the handler refuses the score or Redis the bound of a range, means no effect at all, and every request is answered however many round trips are lost (645 000) |
| `event_all` | 2 requests of any endpoint, or 4 of one group with 2 consumers, 2 of them sent again; 4 events, keep 2, nodes of 2, 1 retry | Approximate trimming keeps the newest, and less than a node more; one consumer per event; what was delivered is pending or acknowledged (972 000) |
| `ws_all` | 2 clients that come back, 1 slot, 2 messages, fairness | Exact count, refinement of `SlotPool`, no leak, order, gone clients noticed, the lock is fair; no deadlock (66 000) |
| `audit_all` | 3 requests, queue of 2, levels 0-2, correlation on | Lines conserved and in order, one line per refusal, drained at exit unless the queue was full (843 000) |
| `log_rotate` | 1 worker, 6 lines, files of 2, 2 backups, days 0-2, retention 1, cap none or 2, 1 crash, also between the unlinks and renames of a shift | Only the retention policy loses lines, whatever the gzip thread does beside the handler; no backup above `backup_count` (4.2 million) |
| `lifespan_all` | 3 workers, 4 starts, interval 5, leader key 4 | At most one startup logger, but for one window; elections a key's life apart; no silence longer than interval and key; no deadlock (693 000) |
| `group_admin` | 2 requests of 16 endpoints, 2 sets, a key of another router, an internal one, deletions of 2 keys in batches of 1, TTLs 0 and 60, 1 retry | What a bulk deletion must and may delete while the keys change, and what deletions report, with DELs that run twice; no set left without TTL unexplained, `set_ttl` included (2.3 million) |
| `metrics_scrape` | 2 workers, 2 handlers, 2 requests, 1 retry, 1 loss of the counters, scrapes every 3 ticks | Scraped counters do not go back, though handlers overlap and every worker has its own cache; age of the key counts; counters account for the requests; no deadlock (1.6 million) |
| `log_oldest` | as `log_rotate`, cap 2, no crash | **Violated**: the newest backup is removed, an older one stays |

A type invariant stands in every module. The configurations of `queue_all` and `kv_all`
list it; in the other instances it holds too, and they list only the properties
that say more.

**Slices.** Three configurations have a CONSTRAINT, `Slice`, that joins two questions
about one module, each with the values it needs, in one run: queues (two requests
that are sent again, or three that race), events (two of any endpoint, or four of
a group), metrics (several requests counted while nobody scrapes, or one while two
handlers do). Where fewer requests take part, the others have been refused. A
slice of queues is closed towards the past: a state in it is reached by states in
it, so no behaviour that ends in it is missed. So is that of events, except that of
four requests of a group at most two at a time are being sent again. That of metrics explores the
behaviours that stay in it: the caches share nothing with the counters but the
total they read.

**Bounds.** Two requests suffice for every race of two handlers, and since a
request may be any endpoint with any argument, two cover all pairs; a third (a
fourth for groups: create, publish, two readers) is there where a property
relates three actors. A list of three is full after a batch and a push, and has
a middle; a word of -2..2 overflows after two increments; one slot with two
clients makes one of them wait or be rejected; a queue of two lines is full
while a third line is logged. `Retries = 1` has both outcomes of a lost round
trip. Six log lines in files of two make three rotations, the third of which drops
the last backup; days 0-2 with a retention of one day let a day expire.

`Interval` 5 and `Ttl` 4 keep the 0.8 of `main.py` (600 s and 480 s); three workers
are one that has the lock file open, one that gives it up and one that comes late,
and four starts bring one of them back. `BulkMax` 2 with three keys of users sets
`truncated`, and `BatchSize` 1 puts other requests between two DELs. Scrape
interval, scrape timeout and text cache are 3, 2 and 1 ticks for 15, 10 and 5 s;
`NsTtl` is 2, longer than the text cache and shorter than two scrapes, so that both
caches are met fresh and stale.

`MaxEvents`, `MaxPublished`, `Retries`, `MaxLines`, `MaxDay`, `MaxCrashes`,
`MaxStarts`, `MaxResets` and the number of requests are the only bounds that make a
state space finite. Expiry of the data needs no clock: a TTL does not count down,
and its end may come at any step. The leader key and the metrics caches do have
clocks, which are timers that count to the largest value that makes a difference.

`CHECK_DEADLOCK FALSE` stands in the runs where the system stops when every
request has been answered (or the process has exited). `ws_all`, `lifespan_all` and
`metrics_scrape` check deadlock: clients come back, and time goes on. Symmetry is
used only in runs without liveness.

**Fairness.** `RankRoutes!FairSpec`: a handler that waits for Redis gets a reply
or a timeout (`socket_timeout` is always set, `redis_client.py` 28-34), and goes
on. Each request has one fairness condition over "reply or loss": Redis may lose
every round trip, and a request is answered all the same. `Answered`
is checked there for the handler shape that all routers share (`RoundTrips`). `WsSubscribe!FairSpec`:
the event loop runs a handler that can go on, and the disconnect watcher when
its client is gone; an `await` of the handler itself returns or raises (accept,
close and clean-up have transport timeouts). Nothing is assumed of clients, of
publishers, of Redis messages or of the pump, which a slow client may hold in
`send_json`. `asyncio.Lock` serves waiters in order, which `waiters` models.

## 4. Findings

`_cleanup_by_total_size` is to remove the oldest backups first (`file_logger.py`
323, 328-329). It sorts by mtime (351), but a .gz has the time of its compression
as mtime. In a burst of lines, `.2.gz` was compressed just now while the newer `.1`
still waits for the gzip thread: `.1` goes, `.2.gz` stays. Run `log_oldest`.

Observations, which properties state exactly or which no property is about:

- The origin of a change (`audit/middleware.py` 242-273) is written after the
  response in a round trip of its own, so the recorded origin may belong to an
  earlier writer than the last one (`admin.py` 615-616). No run checks a property
  of it; theorem `OriginsLogged` says what holds: the origin names a writer of that
  key whose request succeeded and whose line was given to the log.
- `release_startup_lock` (`file_logger.py` 491-504) unlocks first and unlinks last. One
  worker unlocks, a second opens the old file, the first unlinks it, the second
  locks the file without a name, a third creates a new file and locks that: two
  workers log the startup, where the docstring says the first worker only.
  `OneUnlessOverlap` says that nothing else can do it.
- Two STATUS lines may be 480 s apart, not 600 s, when another worker takes over
  (`main.py` 31 has one line per interval): `ElectionsApart`. A SET that ran and whose
  reply was lost silences a cycle, which `NoSilence` excuses.
- A worker that starts without Redis (`main.py` 194) never gets a status monitor, also
  when Redis comes back.
- Making the log directory in `acquire_startup_lock` stands outside its `try`: an
  OSError there ends the start of the worker.
- `admin.py`: setting a TTL (194) and key details may answer 200 with `ttl: -2` when
  the key goes between their commands; keys that SCAN returns twice may set
  `truncated` though nothing was left out. A DEL that ran, lost its reply and ran again
  makes `deleted` too small (232), and `delete_key` answer 404 for the key it has
  removed (250): `DeletionsHonest` allows this, and nothing else.
- The key counts in a scrape may be nearly 40 s old, not 30 s as the comment of the
  cache has it (30 s, and a text cache or the scrape itself): `NsCountsFresh`.
- A histogram read between two commands of a counting pipeline is not cumulative for
  a moment, and a retried pipeline counts a request twice: `CountersExact`.
- `batch_get_map` (`map.py` 33) reads the maps one after the other: its answer can mix
  states before and after a batch.
- An XREADGROUP whose reply is lost leaves its events pending for a consumer that
  never saw them (`event.py` 142).

- `set_kv_nx` (`kv.py` 185-206) stores a value of any size; the other writing
  handlers call `check_value_size`, and `audit/middleware.py` 32 states that the
  routers enforce `max_value_size`.
- `incr_rank` refuses an infinite delta, because an infinity cannot be read back
  through JSON (`rank.py` 230-231), but two accepted finite increments can add up to
  one (`Sum` in `RankRoutes`), which Redis stores.
- Several workers that share a log directory lose lines: a worker goes on writing to
  the file that another has renamed, compressed and unlinked. `file_logger.py` 71
  claims protection within a process only; `log_rotate` therefore has one worker.
- A crash during a compression leaves a cut `.1.gz` beside the complete `.1`. The next
  shift moves the .gz and overwrites the plain file: `RetainedOrExpired` excuses
  these lines as `torn`.
- A crash within `_shift_backups` (247-260) may leave the plain `.1` behind the
  `.2.gz` that was made of it. Both then move on as two backups with the same lines;
  none is lost.
- When an unlink of the size clean-up fails, `total` is not reduced, so the clean-up
  goes on to younger backups. The line that triggers a rollover is not counted in
  `_current_bytes`, so a file may exceed its size by one line.
- `utils/ttl.py` 22 says EXPIRE has no effect in a request answered 404. A key
  created between EXISTS and EXPIRE of the pipeline gets the TTL of a touch that
  answers 404.
- `pubsub.py` 23-24: the limit is there to bound Redis connections, but a slot is
  given back (155-157) before the Redis connection is closed (158-161). For a
  moment there may be more connections than slots; `NoLeak` says that those are
  being closed.
- `logger.py` 141 "drains the queue". When the queue is full, the `put_nowait` of
  the listener's sentinel raises, which 150-151 swallows, and the process exits
  without draining. `DrainedUnlessFull` is the exact statement.
- `config.yaml` 131: level 1 captures writes and deletes. A queue pop is a GET and
  is not captured at level 1, nor is its origin recorded.
- A retried `create_group` whose first attempt ran answers 409 for the group it
  has just made; a retried SETNX tells the holder 409 (`NxRefusedByOther` states
  it); a retried push stores its values twice (`OutcomeHonest` states it).
- Events delivered to a consumer that stops stay pending for ever: no endpoint
  claims them (XCLAIM).

## 5. Proofs

Each theorem holds for every value of the constants that satisfies the named
ASSUMEs of the modules (`LinesRetained` for one worker): any number of requests, clients or workers, any keys,
limits, batch sizes and number of retries. An ASSUME says what the validation of
the settings or of the request bodies guarantees (`MapAssumption`: a map without
fields is refused), that a name such as `NoReq` is not one of the set it is added
to, or that a set is finite. Each module proves an inductive invariant that is
stronger than the properties; what it adds is what makes the next step sound.

`QueueRoutesProofs`

- `TypeCorrect`, `Bounded`: invariant `BoundInv == StoreType /\ ReqType /\
  QueueBounded`. The bound needs the types only: the two scripts are the only
  steps that grow the list, and each leaves at most `MaxLen` (`ScriptBound`); all
  others leave a window of the list (`Window`, `RestList`, `TrimmedTail`).
- `OrderedDelivery`, `NoJobTwice` (`DequeOrder`, `NoDoubleDelivery`): invariant
  `OrderInv` adds to the two that every name in the list or taken is at most `next`
  (else a new value could repeat an old name) and that the names in the list are
  distinct (else a pop could leave another copy). A push extends the list with
  larger names on the right side (`AcceptOrder`); everything else keeps a window
  (`WindowOrder`).
- `TrimsOldest` (`TrimKeepsNewest`, of every step): follows from `OrderInv` and the
  shape of the trimmed list.
- `Mortal` (`NoImmortalQueue`), `NoTtlOfMissing` (`NoMissingTtl`): inductive with
  `Control`, which ties `pc` to the endpoint: only pushes and touches reach EXPIRE,
  and a push reaches it only after its script put something in.
- `HonestOutcome` (`OutcomeHonest`): the property speaks of answered requests only.
  `OutcomeInv` says the same of a request at every command: how often its script
  may have run given its retries (`Whole`), and what the reply it holds says of the
  values put in or taken out (`PushTold`, `PopTold`). That a new value is new
  (`Numbered`) makes the count of one execution exact.

`KvRoutesProofs`: `KvTypeCorrect`, `BatchesAtomic`, `LocksExclusive`,
`RefusalsHonest`, `TtlsExplained`

- `KvInv` adds to the properties: a value names a request that has arrived
  (`Owned`), so that no arrival changes the call of a writer; what a SETNX that
  was told "acquired" knows of the life of its key (`NxHeld`), also while its answer
  is on the way; and that a SETNX sent once and not executed, or refused, has
  written nothing (`NxRefused`).
- `NxHeld` must not speak of a SETNX that acquired, lost the reply and was given
  up with 500: its record `saw` is older than what its retry was told.

`MapRoutesProofs`: `WritesWhole`, `TtlsWithWrites`, `MapTypeCorrect`

- `HandlerEffect` reduces all commands to a write of some keys and fields by one
  request, a change of a TTL and a removal. A whole write covers all fields of its
  keys, and a field names a request with the call it wrote for (`Owned`).
- A 200 never says -2 because a write with a TTL never leaves its transaction
  (`Control`), so that its reply of TTL is its own (`SeenPresent`).

`EventRoutesProofs`: `NewestEventsKept`, `DeliveredOnce`, `DeliveredStaysPending`,
`EventTypeCorrect`

- `Retained`: the stream has lost nothing since it was born or holds `MaxLen`, and
  never more than a node beyond. Publication restores it by the arithmetic of
  whole nodes.
- `GroupInv`: what a consumer holds as a reply was delivered to it and is pending or
  acknowledged (`Recorded`), and the replies of two requests of a group are disjoint.
  Both are kept because a delivery only hands out events above all delivered ones,
  and because a new life of the key has a new `born`.

`AdminRoutesProofs`: `DeletionComplete`, `DeletionsCounted`, `DeletesOnlyAsked`, `GroupsMortal`

- `Swept`: while a deletion works through its batches, what has stayed since the
  scan began is internal or still on its list. A DEL takes the front of the list
  away from both (`BatchAndRest`), when it runs for the first time and when it is sent
  again because its reply was lost; everybody else can only make `stay` smaller.
  Between the DEL and its reply the front of the list is gone already and only the
  rest is still owed.
- `DeletionsCounted` is `DeletionsHonest`: `TallyInv` follows the number of keys a
  request has removed beside the number its replies have told it. The reply in
  flight is added to the second; the two are equal unless a reply of a DEL was lost,
  and then the first is the larger, for a DEL that runs again finds its keys gone or
  removes others.
- The list holds no internal key (`BulkTyped`), and a dry run never is at a DEL
  (`Control`), which gives the action property for any interleaving.
- `GroupsMortal` is `NoImmortalGroup` beside the admin handlers: an add explains a
  group without TTL until its own EXPIRE (`AddedKept`), and every other step that
  makes one explains it itself (`NewImmortal`).

`RankRoutesProofs`: `RefusedBeforeAnyWrite`, `RankTypeCorrect`

- The refusal a client sees must come before the pipeline. What has to be excluded is
  Redis refusing a ZADD or a ZINCRBY whose pipeline goes on to EXPIRE: `Control` keeps
  the score of a request in flight finite, `StoreTyped` the stored ones below NaN, and
  the sum of the two is never NaN (`SumType`, by the arithmetic of the bounded
  doubles). So every reply is a count (`ReplyTyped`). The only command that Redis
  refuses is the read of `between_rank` with a NaN bound, and a read writes nothing.
- `Unwritten` ties the answer to the effect: nobody who is still to be answered 400 has
  written, and a step of one request changes nothing of another (`Private`).

`WorkerProofs` has the theorems of three components that share no variable: the
lifespan of the workers, the audit trail, and the counters with their caches.

*Lifespan*: `OneStartupLogger`, `ElectionsKeepApart`, `SilenceEnds`, `LifespanTypeCorrect`

- `LockInv`: unless two workers overlapped in the window of the unlock, a flock is
  one of the file under the name, and nobody else is about to unlink it.
- `MonitorInv`: the leader key and the time since the election add up to `Ttl` at least
  (`KeySinceElection`), hence elections apart. A worker that sleeps was elected, or
  found a key when it went to sleep; so at the end of its sleep the silence is at
  most `Interval + Ttl` (`SilenceBounded`). The two hold while nobody is between
  election and line.

*Audit trail*: `DenialsLogged`, `OriginsLogged`, `NoLineLost`, `ShutdownDrains`,
`AuditTypeCorrect`

- `RequestInv`: what each request has logged, by where it stands; the shutdown
  begins when no request is left.
- `SinkInv`: the numbers of the lines increase from file over the line in hand to
  queue (`Numbered`), their count is conserved (`Counted`), the sentinel is last
  (`SentinelLast`), and each stage of the shutdown has its part of the queue drained
  (`Draining`).

*Metrics*: `RequestsCounted`, `ScrapesNeverGoBack`, `NsCountsAge`

- `CountInv`: until Redis loses them, a counter lies between the number of pipelines in
  flight or done that have executed its INCR, and that number plus the pipelines lost
  (`CountedOnce`). The requests that have begun are finitely many at any time, whatever
  the set of requests, which makes the counts numbers at all.
- `CacheInv`: a total that was read is at most what Redis has (`Behind`), and no less
  than what Prometheus has got (`Ahead`) unless it was read before the end of the last
  scrape. Then the text it is for is at least that old (`AheadSince`), and since
  `ScrapeTimeout + TextTtl <= ScrapeInterval` it has expired when the next one begins.
- `CountsAged`: key counts are younger than `NsTtl` and the age of the text they are
  for, or than `NsTtl` and the time the scrape has taken.

`WsAndLogProofs` has the theorems of two components that share no variable.

*Subscriptions*: `SlotAccounting`, `ImplementsPool`, `ConnectionsOwned`, `MessagesInOrder`

- `SlotAccounting`: invariant `SlotInv == StageType /\ SlotsExact`; `SlotStep` says
  that every step keeps the holders, adds one under the limit or removes one, with
  the counter going along.
- `ImplementsPool`: the same lemma gives the refinement of `SlotPool`.
- `ConnectionsOwned`: no Redis connection without an owner.
- `MessagesInOrder` (`InOrder`): `FeedInv` is about what was sent and what waits,
  put one after the other (`Feed`): increasing, without a hole unless the connection
  broke, and ending with the last published message while connected. Sending moves
  the border between the two and leaves the whole as it is.

*Log files*: `LinesRetained` (`RetainedOrExpired`)

The theorem assumes one worker (`Workers = {w}`), and any size, backup count,
retention, size cap, days, lines and crashes. With several workers in a directory the
property is false (section 4). `RotationInv(w)` holds between all steps of the two
threads. A shift is one step when it comes to its end, for nobody else is at work in the
directory (`OneJob`), and another for each point at which a crash may cut it
(`ShiftCut`):

- `OneName`: a file has one name, so a line written, moved or unlinked under a name is
  that of one file. A plain file and its .gz stand together under the numbers 0 and 1
  only, or, after a shift that was cut, the .gz is ahead (`Ahead`). Hence every file of
  the day from the number the shift has reached moves by one, and those below it stay
  (`ShiftMap`, for the whole shift and for every cut of it).
- `Sorted`: the lines of a file are of the day of its name and older than those under
  lower numbers, unless it is the .gz of one of them, whose lines that one has too. So
  what the backup count drops is the oldest of its day or still there (`OlderOrKept`).
- `OneJob`, `Compressing`: because a rollover waits for the compressions of its process,
  there is one at a time, no shift begins while it runs, and its target did not exist
  before, under any name. Its source keeps its lines also where the file has lost its name.
- `Eviction`: the size clean-up never takes the empty target and leaves the source to
  the final unlink: a list that has the target has the source, no younger, and at equal
  times the plain file comes first. Where the target has been taken after the copy, its
  lines, which are those of the source, were counted as discarded.
- `Pairs`: a plain file beside its .gz, with no compression of it in progress, has only
  lines that the .gz has too or that a crash has torn. So a shift may overwrite it.
- `Accounted`: the property, with the lines of a compression in progress counted as
  alive (`Alive`), for they come back into the directory with its target.

Only model-checked:

- Liveness (`Answered`, `NoZombie`, `NoStarvation`): beyond the prover, which has no
  ENABLED.

## 6. What the models leave out

- Values, field names, response bodies and messages; the model keeps status,
  `meta.ttl` and the fact a reply carries. `push` lengths and read results are
  kept only where a property looks at them.
- One key per list, sorted set and stream: handlers of different keys share
  nothing but the connection pool.
- An attempt that was given up and runs on the server later, after its retry.
  A lost round trip may have run in full, in part, or not at all, but no later
  than its next attempt starts.
- Stream IDs grow with the clock of Redis also when the key is deleted; nodes have
  a fixed number of entries (in Redis a node may also close early by its bytes,
  which trims less coarsely).
- `AuditTrail` takes graceful shutdown as uvicorn does it: the lifespan ends when
  no request is in progress. A worker killed after the graceful timeout is not
  modelled. The listener's failed write is counted, while the code prints it
  through `logging.handleError`.
- `LogRotation` gives every line the size 1 and every compressed file too, and time
  passes with the lines: an mtime is the number of lines written before. Backups are
  compressed (`compress` is true). A compression fails, or its final unlink does, at
  any time; renames succeed. A crash loses no written line.
- `StatusMonitor`: a round trip takes no time against an interval of ten minutes, so
  no tick falls into one. `Lifespan` leaves out the audit logger, whose stop is in
  `AuditTrail`.
- `LogRotation` takes the list of the size clean-up, a stat per file in the code
  (`file_logger.py` 335-342), as one snapshot.
- `WsSubscribe`: a handler that waits for `_ws_lock` (`pubsub.py` 82, 156) is not
  cancelled there. Only the stop of the worker cancels it, which is not modelled.
- `AuditTrail`: captured writes without a path key (batch and queue operations) record
  no origin and are otherwise as those with one; they are not among the operations.
- `AdminRoutes`: a SCAN returns every key that is there from beginning to end and any
  subset of the others, in any order; patterns and cursors are not modelled.
- `Metrics`: `total` stands for all counters that grow with every response. The
  counters of refusals, rate limits and dropped audit lines are single INCRs.
  `latency_sum` (INCRBYFLOAT, `metrics.py` 100) is left out: no property is about it.
- Not modelled: `/admin/stats`, `/dbsize`, `/systems`, the audit tail, `/health` and the
  layout of `/metrics` (they only report); access log and security headers (no
  state); key building beyond `IsStorageKey` (pure functions); configuration
  (CONSTANTS); deployment (no behaviour of its own, see `PROJECT.json`).

## 7. Plan

Done, in order: `RedisTtl`, `RoundTrips`, `QueueRoutes` with its proofs, `KvRoutes`,
`MapRoutes`, `RankRoutes`, `EventRoutes`, `WsSubscribe` with `SlotPool` and its
proofs, `AuditTrail`, `LogRotation`, `Lifespan` with `StartupLock` and
`StatusMonitor`, `GroupRoutes` and `AdminRoutes`, `Metrics` and `MetricsCache`.

Proved, besides: every invariant and action property of the passing runs, and one
refinement. Liveness stays with TLC.

Next, where a question calls for one: `LogRotation` with two workers (which lines
survive, stated exactly), an abstract lock that `KvRoutes` refines, and an abstract
deque that `QueueRoutes` without retries refines.
