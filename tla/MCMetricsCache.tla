---------------------------- MODULE MCMetricsCache ----------------------------
(* Small instances of MetricsCache for TLC. *)
EXTENDS MetricsCache, TLC

Symmetry == Permutations(Exporters) \cup Permutations(Handlers) \cup Permutations(Requests)

(* Histogram and caches share nothing but the Redis they are read from:    *)
(* either several requests are counted, with lost pipelines, before anybody*)
(* asks for /metrics, or the pipeline of one request without histogram is  *)
(* executed, and the counters may be lost at its end.                      *)
NobodyAsked ==
  /\ \A h \in Handlers : handler[h] = Idle
  /\ \A w \in Exporters : ~Fresh(w) /\ nsAge[w] = NsTtl
  /\ elapsed = ScrapeInterval
OneRequest ==
  /\ lost = 0 /\ Cardinality({r \in Requests : task[r] # "none"}) <= 1
  /\ epoch > 0 => counter["total"] = 0
  /\ \A r \in Requests : latency[r] = "none" /\ task[r] # "done"
Slice == NobodyAsked \/ OneRequest
===============================================================================
