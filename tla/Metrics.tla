------------------------------ MODULE Metrics ------------------------------
(***************************************************************************)
(* The MetricsRegistry of one sidecar (sidecar/src/metrics.rs), recorded   *)
(* into by handlers on several threads.  Every counter, total and gauge is *)
(* an atomic of its own, and a record is one access of each; a scrape or   *)
(* another record may come between any two.  The accesses are Relaxed and  *)
(* of different variables, so they may take effect in any order, but for   *)
(* the gauge gc_cache_hit_ratio: it is set from the totals of the record,  *)
(* one incremented and one loaded.                                         *)
(***************************************************************************)
EXTENDS Integers, SidecarRequests

CONSTANT TokensOf  \* prefix_token_estimate of each request

ASSUME TokensAssumption == TokensOf \in [Request -> Nat]

VARIABLES
  hits, misses,   \* gc_cache_hits_total, gc_cache_misses_total
  tokensCached,   \* gc_tokens_cached_total
  ttftSaved,      \* gc_saved_ttft_ms_total
  totalHits, totalMisses,
  hitRatio,       \* the totals the gauge was last set from
  record,         \* each request's record_hit or record_miss: the accesses it
                  \* has left, the totals it holds, those at its start
  since           \* history: the totals when the record that set the gauge began

counters == <<hits, misses, tokensCached, ttftSaved>>
totals == <<totalHits, totalMisses>>
metricVars == <<counters, totals, hitRatio, record, since>>

Zero == [h |-> 0, m |-> 0]
NoRecord == [kind |-> "none", left |-> {}, h |-> 0, m |-> 0, base |-> Zero]

MetricsInit ==
  /\ hits = 0 /\ misses = 0 /\ tokensCached = 0 /\ ttftSaved = 0
  /\ totalHits = 0 /\ totalMisses = 0
  /\ hitRatio = Zero
  /\ record = [r \in Request |-> NoRecord]
  /\ since = Zero

Left(r, access) == access \in record[r].left
Recorded(r) == record[r].kind # "none" /\ record[r].left = {}

Ratio == {"add", "load", "set"}
Savings == {"hits", "tokens", "saved"}

Begin(r, kind, accesses) ==
  /\ record[r].kind = "none"
  /\ record' = [record EXCEPT ![r] =
       [kind |-> kind, left |-> accesses, h |-> 0, m |-> 0,
        base |-> [h |-> totalHits, m |-> totalMisses]]]
  /\ UNCHANGED <<counters, totals, hitRatio, since>>

BeginHit(r) == Begin(r, "hit", Savings \cup Ratio)

BeginMiss(r) == Begin(r, "miss", {"misses"} \cup Ratio)

Collects(r, access, h, m) ==
  record' = [record EXCEPT ![r] =
    [kind |-> @.kind, left |-> @.left \ {access}, h |-> h, m |-> m, base |-> @.base]]

\* (tokens * 0.04).round(); 4 * tokens is never half a hundred.
SlipFloor(tokens) == (4 * tokens) \div 100
TtftMs(tokens) == (4 * tokens + 50) \div 100

\* One of the counters: hits.inc(), tokens_cached.inc_by(), ttft_saved_ms.inc_by()
\* of a hit, misses.inc() of a miss.
Count(r, access) ==
  /\ Left(r, access)
  /\ Collects(r, access, record[r].h, record[r].m)
  /\ UNCHANGED <<totals, hitRatio, since>>

CountHit(r) ==
  /\ Count(r, "hits")
  /\ hits' = hits + 1
  /\ UNCHANGED <<misses, tokensCached, ttftSaved>>

CountMiss(r) ==
  /\ Count(r, "misses")
  /\ misses' = misses + 1
  /\ UNCHANGED <<hits, tokensCached, ttftSaved>>

CountTokens(r) ==
  /\ Count(r, "tokens")
  /\ tokensCached' = tokensCached + TokensOf[r]
  /\ UNCHANGED <<hits, misses, ttftSaved>>

CountSaved(r) ==
  /\ Count(r, "saved")
  /\ ttftSaved' = ttftSaved + TtftMs(TokensOf[r])
  /\ UNCHANGED <<hits, misses, tokensCached>>

\* fetch_add returns the total before it.
SlipBeforeAdd(total) == total
AfterAdd(total) == total + 1

Add(r) ==
  /\ Left(r, "add")
  /\ \/ /\ record[r].kind = "hit"
        /\ totalHits' = totalHits + 1
        /\ Collects(r, "add", AfterAdd(totalHits), record[r].m)
        /\ UNCHANGED totalMisses
     \/ /\ record[r].kind = "miss"
        /\ totalMisses' = totalMisses + 1
        /\ Collects(r, "add", record[r].h, AfterAdd(totalMisses))
        /\ UNCHANGED totalHits
  /\ UNCHANGED <<counters, hitRatio, since>>

Load(r) ==
  /\ Left(r, "load")
  /\ \/ record[r].kind = "hit" /\ Collects(r, "load", record[r].h, totalMisses)
     \/ record[r].kind = "miss" /\ Collects(r, "load", totalHits, record[r].m)
  /\ UNCHANGED <<counters, totals, hitRatio, since>>

\* update_hit_ratio; its sum is never 0, the record's own is in it.
SetRatio(r) ==
  /\ Left(r, "set") /\ ~Left(r, "add") /\ ~Left(r, "load")
  /\ hitRatio' = [h |-> record[r].h, m |-> record[r].m]
  /\ since' = record[r].base
  /\ Collects(r, "set", 0, 0)
  /\ UNCHANGED <<counters, totals>>

RecordStep(r) ==
  \/ CountHit(r) \/ CountMiss(r) \/ CountTokens(r) \/ CountSaved(r)
  \/ Add(r) \/ Load(r) \/ SetRatio(r)

MetricsNext == \E r \in Request : BeginHit(r) \/ BeginMiss(r) \/ RecordStep(r)

MetricsSpec == MetricsInit /\ [][MetricsNext]_metricVars
----------------------------------------------------------------------------
(* Properties.                                                             *)

\* However records overlap, the gauge was set from totals no older than the start
\* of the record that set it, and counts that record: one that overlaps no other
\* leaves the exact ratio.  (Overlapping ones may leave an older ratio behind
\* them, and it stays until the next record.)
GaugeFresh ==
  /\ hitRatio.h \in since.h .. totalHits
  /\ hitRatio.m \in since.m .. totalMisses
  /\ hitRatio # Zero => hitRatio.h + hitRatio.m > since.h + since.m

\* A hit some of whose three savings counters have moved and some have not.
Settling(r) ==
  record[r].kind = "hit" /\ record[r].left \cap Savings \notin {{}, Savings}

\* gc_saved_ttft_ms_total is the sum of rounded estimates: whenever no hit is between
\* its three counters, it is within half a millisecond per hit of 0.04 ms a token,
\* however small the prompts and however the hits before overlapped.
SavingsRounded ==
  LET error == 100 * ttftSaved - 4 * tokensCached IN
  (\A r \in Request : ~Settling(r)) => (-50 * hits <= error /\ error <= 50 * hits)
============================================================================
