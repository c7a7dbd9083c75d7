----------------------------- MODULE MetricsCache -----------------------------
(***************************************************************************)
(* GET /metrics of app/routers/admin.py, scraped by Prometheus.            *)
(*                                                                         *)
(* Each worker caches the text it has made for TextTtl, and in it, for     *)
(* NsTtl, the number of keys per namespace.  A handler takes the time      *)
(* first, then awaits Redis several times, and stores text and time last:  *)
(* several handlers of a worker do so at once.  Time advances in Ticks;    *)
(* of a time stamp the model keeps the Ticks that passed since, up to the  *)
(* largest that makes a difference.                                        *)
(***************************************************************************)
EXTENDS Metrics

CONSTANTS
  Exporters,       \* the workers, each with its own caches
  Handlers,        \* requests for /metrics in flight
  TextTtl,         \* _METRICS_TEXT_TTL
  NsTtl,           \* _NS_COUNTS_TTL
  ScrapeInterval,  \* of prometheus.yml
  ScrapeTimeout    \* of prometheus.yml

NoHandler == "none"

ASSUME CacheAssumption ==
  /\ {TextTtl, NsTtl, ScrapeInterval, ScrapeTimeout} \subseteq Nat \ {0}
  /\ ScrapeTimeout + TextTtl <= ScrapeInterval
  /\ NoHandler \notin Handlers

VARIABLES
  text,       \* text[w]: _metrics_text_cache of w and the age of _metrics_text_ts
  nsAge,      \* nsAge[w]: age of _ns_counts_ts of w, whose counts are cached
  handler,    \* handler[h]: a request for /metrics
  scrape,     \* the handler that serves Prometheus, or NoHandler
  elapsed,    \* Ticks since the last scrape began
  seen        \* the request counter that Prometheus got last

cache == <<text, nsAge, handler, scrape, elapsed, seen>>
scrapevars == <<metrics, cache>>

(* A counter as read: the epoch of Redis and its value; NoValue when the   *)
(* text has none, because get_metrics_async could not read.                *)
NoValue == <<-1, 0>>
Total == <<epoch, counter["total"]>>
AtLeast(a, b) == a[1] > b[1] \/ (a[1] = b[1] /\ a[2] >= b[2])

MaxAge == NsTtl + ScrapeInterval
Older(age, limit) == IF age < limit THEN age + 1 ELSE age

(* A text that is too old is never looked at again. *)
Expired == [age |-> TextTtl, total |-> NoValue, ns |-> 0]
Text(age, total, ns) == IF age < TextTtl THEN [age |-> age, total |-> total, ns |-> ns] ELSE Expired

NoWorker == "none"
Idle == [at |-> "idle", worker |-> NoWorker, age |-> 0, total |-> NoValue, ns |-> 0]

ScrapeInit ==
  /\ MetricsInit
  /\ text = [w \in Exporters |-> Expired]
  /\ nsAge = [w \in Exporters |-> NsTtl]
  /\ handler = [h \in Handlers |-> Idle]
  /\ scrape = NoHandler /\ elapsed = ScrapeInterval
  /\ seen = Total

(* What Prometheus has got after a text t. *)
Show(t) == IF t.total = NoValue THEN seen ELSE t.total

(* Handler h ends, with a text or without; Prometheus looks at its own. *)
End(h, texts) ==
  /\ handler' = [handler EXCEPT ![h] = Idle]
  /\ scrape' = IF scrape = h THEN NoHandler ELSE scrape
  /\ seen' = IF scrape = h /\ texts # {} THEN Show(CHOOSE t \in texts : TRUE) ELSE seen

-------------------------------------------------------------------------------
(* A request for /metrics comes to some worker: from Prometheus, when its  *)
(* interval is over, or from anybody with the admin key.  It is answered   *)
(* from the cache, or goes on to make a text.                              *)
Fresh(w) == text[w].age < TextTtl

Hit(w) ==
  /\ Fresh(w)
  /\ elapsed = ScrapeInterval /\ elapsed' = 0
  /\ seen' = Show(text[w])
  /\ UNCHANGED <<text, nsAge, handler, scrape>>

Miss(h, w) ==
  /\ handler[h].at = "idle" /\ ~Fresh(w)
  /\ handler' = [handler EXCEPT ![h] = [Idle EXCEPT !.at = "counters", !.worker = w]]
  /\ \/ UNCHANGED <<scrape, elapsed>>
     \/ elapsed = ScrapeInterval /\ elapsed' = 0 /\ scrape' = h
  /\ UNCHANGED <<text, nsAge, seen>>

(* get_metrics_async, which swallows errors. *)
GetMetrics(h) ==
  /\ handler[h].at = "counters"
  /\ \E v \in {Total, NoValue} : handler' = [handler EXCEPT ![h].at = "ns", ![h].total = v]
  /\ UNCHANGED <<text, nsAge, scrape, elapsed, seen>>

(* _get_ns_counts_cached, before its SCAN ... *)
GetNsCounts(h) ==
  LET w == handler[h].worker IN
  /\ handler[h].at = "ns"
  /\ handler' = [handler EXCEPT ![h].at = IF nsAge[w] < NsTtl THEN "store" ELSE "scan",
                                ![h].ns = IF nsAge[w] < NsTtl THEN nsAge[w] ELSE 0]
  /\ UNCHANGED <<text, nsAge, scrape, elapsed, seen>>

(* ... and after it. *)
NsCounted(h) ==
  /\ handler[h].at = "scan"
  /\ nsAge' = [nsAge EXCEPT ![handler[h].worker] = IF handler[h].ns < NsTtl THEN handler[h].ns ELSE NsTtl]
  /\ handler' = [handler EXCEPT ![h].at = "store"]
  /\ UNCHANGED <<text, scrape, elapsed, seen>>

StoredAge_AtEnd(h) == 0
StoredAge(h) == handler[h].age

(* The text is cached under the time at which its handler began. *)
Store(h) ==
  LET x == handler[h] IN
  /\ x.at = "store"
  /\ text' = [text EXCEPT ![x.worker] = Text(StoredAge(h), x.total, x.ns)]
  /\ End(h, {x})
  /\ UNCHANGED <<nsAge, elapsed>>

(* INFO or SCAN raises: 500, and the caches stay as they are. *)
Fails(h) ==
  /\ handler[h].at \in {"ns", "scan"}
  /\ End(h, {})
  /\ UNCHANGED <<text, nsAge, elapsed>>

(* Time passes; Prometheus gives up a scrape that lasts too long, while    *)
(* its handler goes on.                                                    *)
TimePasses ==
  /\ elapsed' = Older(elapsed, ScrapeInterval)
  /\ scrape' = IF elapsed = ScrapeTimeout THEN NoHandler ELSE scrape
  /\ text' = [w \in Exporters |-> Text(text[w].age + 1, text[w].total, Older(text[w].ns, MaxAge))]
  /\ nsAge' = [w \in Exporters |-> Older(nsAge[w], NsTtl)]
  /\ handler' = [h \in Handlers |->
       IF handler[h].at = "idle" THEN handler[h]
       ELSE [handler[h] EXCEPT !.age = Older(@, TextTtl),
                               !.ns = IF handler[h].at \in {"scan", "store"} THEN Older(@, MaxAge) ELSE 0]]
  /\ UNCHANGED seen

Handle(h) ==
  GetMetrics(h) \/ GetNsCounts(h) \/ NsCounted(h) \/ Store(h) \/ Fails(h)

CacheNext ==
  \/ \E w \in Exporters : Hit(w) \/ \E h \in Handlers : Miss(h, w)
  \/ \E h \in Handlers : Handle(h)
  \/ TimePasses

ScrapeNext ==
  \/ MetricsNext /\ UNCHANGED cache
  \/ CacheNext /\ UNCHANGED metrics

ScrapeSpec == ScrapeInit /\ [][ScrapeNext]_scrapevars

-------------------------------------------------------------------------------
(* Properties *)

(* A scrape never sees a request counter below that of an earlier scrape,  *)
(* whichever workers serve them and however many handlers refresh their    *)
(* caches, unless Redis lost the counters in between: the cache is shorter *)
(* than the time between the end of a scrape and the next.                 *)
ScrapesMonotone == [][AtLeast(seen', seen)]_scrapevars

(* The key counts that Prometheus can get are counted no longer ago than   *)
(* both caches hold, or the first cache and the scrape take: more than the *)
(* 30 s of the comment.                                                    *)
NsCountsFresh ==
  /\ \A w \in Exporters : Fresh(w) => text[w].ns < NsTtl + TextTtl
  /\ \A h \in Handlers : handler[h].at = "store" /\ scrape = h => handler[h].ns < NsTtl + ScrapeTimeout

(* Every counter is the number of requests counted in it, but for the      *)
(* tasks that are not done and the pipelines that were lost: a pipeline has*)
(* no transaction, and one sent again counts a second time.                *)
CountersExact ==
  LET Done(L) == Cardinality({r \in Requests : task[r] = "done" /\ latency[r] \in L})
      open == Cardinality({r \in Requests : task[r] \notin {"none", "done", "given_up"}}) + lost
      Exact(c, L) == counter[c] \in Done(L)..(Done(L) + open)
  IN
  epoch = 0 => /\ Exact("total", {"none", "quick", "slow"})
               /\ \A c \in {"count", "inf"} : Exact(c, {"quick", "slow"})
               /\ Exact("low", {"quick"})
===============================================================================
