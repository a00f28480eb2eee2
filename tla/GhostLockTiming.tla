-------------------------- MODULE GhostLockTiming --------------------------
(***************************************************************************)
(* The two sleeps of the Ghost-Lock over the request pipeline: the back-off *)
(* of a waiter (redis_client.rs, await_ghost_lock_release) and the delay    *)
(* of a warm-up task before its write (interceptor.rs).  Module Interceptor *)
(* lets either end at any time; here they are counted in ticks of           *)
(* GHOST_LOCK_BACKOFF_BASE_MS.                                              *)
(*                                                                          *)
(* How long the calls between the sleeps take is a choice of the behaviour: *)
(* `prompt` when Redis and the scheduler answer well within a tick, so that *)
(* the sleeps alone decide the order; any time at all otherwise.            *)
(***************************************************************************)
EXTENDS Interceptor

CONSTANT WarmTicks  \* the 200 ms before the warm-up's write

ASSUME WarmTicksAssumption == WarmTicks \in Nat

VARIABLES
  prompt,   \* whether the calls between the sleeps take no time
  backoff,  \* the ticks each waiter still sleeps
  warmup    \* the ticks each warm-up task still sleeps

timers == <<prompt, backoff, warmup>>
timedVars == <<vars, timers>>

\* 1 << attempt.min(6), as a table: the provers know no exponentiation.
SlipFlat(attempts) == 1
BackoffTicks(attempts) ==
  <<1, 2, 4, 8, 16, 32, 64>>[1 + (IF attempts < 6 THEN attempts ELSE 6)]

\* The sleep a handler that enters the loop of await_ghost_lock_release begins.
Sleep(attempts) ==
  IF prompt /\ ~RetriesExhausted(attempts) THEN BackoffTicks(attempts) ELSE 0

WarmDelay == IF prompt THEN WarmTicks ELSE 0

TimedInit ==
  /\ Init
  /\ prompt \in BOOLEAN
  /\ backoff = [r \in Request |-> 0]
  /\ warmup = [r \in Request |-> 0]

\* A sleep that has not ended holds its EXISTS, or its write, back.
SleepsKept(r) ==
  /\ (At(r, "backoff") /\ pc'[r] = "check") => backoff[r] = 0
  /\ (task[r] = "write" /\ task'[r] = "release") => warmup[r] = 0

\* Sleeps begin at the head of the loop and at the spawn; a dropped handler or a
\* stopped sidecar ends them.
TimersSet ==
  /\ backoff' = [r \in Request |->
       IF pc'[r] # "backoff" THEN 0
       ELSE IF At(r, "backoff") THEN backoff[r] ELSE Sleep(attempt'[r])]
  /\ warmup' = [r \in Request |->
       IF task'[r] # "write" THEN 0
       ELSE IF task[r] = "write" THEN warmup[r] ELSE WarmDelay]
  /\ UNCHANGED prompt

PipelineStep == Next /\ (\A r \in Request : SleepsKept(r)) /\ TimersSet

\* Work that does not wait for a sleep, nor for the upstream server.
Due(r) ==
  \/ pc[r] \in {"get", "touch", "acquire", "check", "incr", "cold"}
  \/ At(r, "backoff") /\ backoff[r] = 0
  \/ task[r] = "write" /\ warmup[r] = 0
  \/ task[r] = "release"

OneLess(n) == IF n > 0 THEN n - 1 ELSE 0

Elapse ==
  /\ prompt
  /\ \A r \in Request : ~Due(r)
  /\ \E r \in Request : backoff[r] > 0 \/ warmup[r] > 0
  /\ backoff' = [r \in Request |-> OneLess(backoff[r])]
  /\ warmup' = [r \in Request |-> OneLess(warmup[r])]
  /\ UNCHANGED <<prompt, vars>>

TimedNext == PipelineStep \/ Elapse

TimedSpec == TimedInit /\ [][TimedNext]_timedVars
----------------------------------------------------------------------------
(* Properties.                                                             *)

\* Its task will never come: the owner was dropped before the spawn, or its
\* sidecar stopped.
Abandoned(o) ==
  \/ At(o, "gone") /\ task[o] = "none"
  \/ task[o] = "lost"

\* The last EXISTS of a waiter still finds the lock.
RunsOut(w) ==
  /\ At(w, "check") /\ pc'[w] = "backoff"
  /\ RetriesExhausted(attempt[w])

OthersOf(w) == {t \in Request \ {w} : PrefixOf[t] = PrefixOf[w]}

\* The back-offs are long enough: while calls are prompt and Redis sound, the first
\* waiter of a prefix to run out of retries has waited on a lock nobody is going
\* to delete, and never on a warm-up still under way.  A poll may well meet
\* the lock of a second winner, whose GET missed just before the first one's write.
PatienceSuffices ==
  [][(prompt /\ RedisSound) =>
       \A w \in Request :
         (RunsOut(w) /\ \A t \in OthersOf(w) : ~Exhausted(t))
           => Abandoned(ghostLock[PrefixOf[w]])]_timedVars
============================================================================
