----------------------------- MODULE RateLimit ------------------------------
(***************************************************************************)
(* The in-memory token bucket of package ratelimit: one bucket per client  *)
(* address, refilled as time passes, dropped when idle for TTL.  Allow and *)
(* Cleanup read the clock before they take the mutex, so a call can run    *)
(* with a reading that others have overtaken, and time can even seem to    *)
(* run backwards for a bucket.                                             *)
(*                                                                         *)
(* Units: one unit of tokens is refilled per tick of the clock, and one    *)
(* request costs Cost units.  (Login: 20 s per request, a burst of 8: with *)
(* ticks of a second Cost = 20, Burst = 160, TTL = 1800.)                  *)
(***************************************************************************)
EXTENDS Integers

CONSTANTS
  Keys,      \* client addresses
  Procs,     \* concurrent requests
  NoKey,     \* no client
  Cost,      \* units of one request
  Burst,     \* units of a full bucket
  TTL,       \* ticks after which an idle bucket may go
  Lag,       \* bound: ticks between a clock reading and the end of its call
  MaxTime    \* bound: clock

ASSUME RateAssumption ==
  /\ NoKey \notin Keys
  /\ Cost \in Nat \ {0} /\ Burst \in Nat /\ TTL \in Nat /\ Lag \in Nat /\ MaxTime \in Nat
  /\ Cost <= Burst
  /\ Burst + 2 * Lag <= TTL

VARIABLES
  now,       \* the clock
  tracked,   \* keys that have a bucket
  tokens,    \* tokens[k]: units in the bucket when it was last touched
  last,      \* last[k]: clock reading of the call that touched it
  job,       \* requests that have read the clock and wait for the mutex
  sweep,     \* clock reading of a Cleanup waiting for it, NoSweep if none
  meter      \* history: an exact meter of the requests let through: a request
             \* adds Cost, every tick takes 1 away, never below 0

vars == <<now, tracked, tokens, last, job, sweep, meter>>

Job == [key : Keys \cup {NoKey}, stamp : Nat]
Idle == [key |-> NoKey, stamp |-> 0]
NoSweep == -1

Init ==
  /\ now = 0
  /\ tracked = {}
  /\ tokens = [k \in Keys |-> 0]
  /\ last = [k \in Keys |-> 0]
  /\ job = [p \in Procs |-> Idle]
  /\ sweep = NoSweep
  /\ meter = [k \in Keys |-> 0]

-----------------------------------------------------------------------------
(* Requests *)

(* now := l.now(), before l.mu.Lock(). *)
Arrive(p, k) ==
  /\ job[p] = Idle
  /\ job' = [job EXCEPT ![p] = [key |-> k, stamp |-> now]]
  /\ UNCHANGED <<now, tracked, tokens, last, sweep, meter>>

(* A key without a bucket gets a full one and the request goes through. *)
AllowFresh(p) ==
  LET k == job[p].key IN
  /\ job[p] # Idle
  /\ k \notin tracked
  /\ tracked' = tracked \cup {k}
  /\ tokens' = [tokens EXCEPT ![k] = Burst - Cost]
  /\ last' = [last EXCEPT ![k] = job[p].stamp]
  /\ meter' = [meter EXCEPT ![k] = @ + Cost]
  /\ job' = [job EXCEPT ![p] = Idle]
  /\ UNCHANGED <<now, sweep>>

(* Mutant: the refill is not capped. *)
LevelUncapped(k, at) == tokens[k] + (at - last[k])

(* min(burst, tokens + elapsed * rate); elapsed may be negative. *)
Level(k, at) ==
  LET filled == tokens[k] + (at - last[k])
  IN IF filled > Burst THEN Burst ELSE filled

(* Mutant: a refused request is charged as well. *)
AllowTrackedCharging(p) ==
  LET k == job[p].key
      level == Level(k, job[p].stamp)
  IN
  /\ job[p] # Idle
  /\ k \in tracked
  /\ last' = [last EXCEPT ![k] = job[p].stamp]
  /\ tokens' = [tokens EXCEPT ![k] = level - Cost]
  /\ meter' = IF level < Cost THEN meter ELSE [meter EXCEPT ![k] = @ + Cost]
  /\ job' = [job EXCEPT ![p] = Idle]
  /\ UNCHANGED <<now, tracked, sweep>>

(* Otherwise the bucket is brought up to the caller's clock reading, and the *)
(* request goes through if that leaves enough.                               *)
AllowTracked(p) ==
  LET k == job[p].key
      level == Level(k, job[p].stamp)
  IN
  /\ job[p] # Idle
  /\ k \in tracked
  /\ last' = [last EXCEPT ![k] = job[p].stamp]
  /\ IF level < Cost
     THEN /\ tokens' = [tokens EXCEPT ![k] = level]
          /\ UNCHANGED meter
     ELSE /\ tokens' = [tokens EXCEPT ![k] = level - Cost]
          /\ meter' = [meter EXCEPT ![k] = @ + Cost]
  /\ job' = [job EXCEPT ![p] = Idle]
  /\ UNCHANGED <<now, tracked, sweep>>

-----------------------------------------------------------------------------
(* Housekeeping and time *)

(* Cleanup reads the clock for its cutoff, before it takes the mutex. *)
BeginCleanup ==
  /\ sweep = NoSweep
  /\ sweep' = now
  /\ UNCHANGED <<now, tracked, tokens, last, job, meter>>

(* Mutant: buckets are dropped before they would be full again. *)
CleanupSoon ==
  /\ sweep # NoSweep
  /\ tracked' = {k \in tracked : last[k] + Cost >= sweep}
  /\ tokens' = [k \in Keys |-> IF k \in tracked' THEN tokens[k] ELSE 0]
  /\ last' = [k \in Keys |-> IF k \in tracked' THEN last[k] ELSE 0]
  /\ sweep' = NoSweep
  /\ UNCHANGED <<now, job, meter>>

(* Mutant: the comparison is the wrong way round. *)
CleanupBusy ==
  /\ sweep # NoSweep
  /\ tracked' = {k \in tracked : last[k] < sweep - TTL}
  /\ tokens' = [k \in Keys |-> IF k \in tracked' THEN tokens[k] ELSE 0]
  /\ last' = [k \in Keys |-> IF k \in tracked' THEN last[k] ELSE 0]
  /\ sweep' = NoSweep
  /\ UNCHANGED <<now, job, meter>>

(* Buckets whose last use is before the cutoff are deleted. *)
Cleanup ==
  /\ sweep # NoSweep
  /\ tracked' = {k \in tracked : last[k] >= sweep - TTL}
  /\ tokens' = [k \in Keys |-> IF k \in tracked' THEN tokens[k] ELSE 0]
  /\ last' = [k \in Keys |-> IF k \in tracked' THEN last[k] ELSE 0]
  /\ sweep' = NoSweep
  /\ UNCHANGED <<now, job, meter>>

(* Time passes; no call runs longer than Lag on one clock reading. *)
Tick ==
  /\ now < MaxTime
  /\ \A p \in Procs : job[p] # Idle => now + 1 - job[p].stamp <= Lag
  /\ now' = now + 1
  /\ meter' = [k \in Keys |-> IF meter[k] = 0 THEN 0 ELSE meter[k] - 1]
  /\ UNCHANGED <<tracked, tokens, last, job, sweep>>

Next ==
  \/ \E p \in Procs, k \in Keys : Arrive(p, k)
  \/ \E p \in Procs : AllowFresh(p) \/ AllowTracked(p)
  \/ BeginCleanup
  \/ Cleanup
  \/ Tick

Spec == Init /\ [][Next]_vars

(* Maintain's ticker keeps firing, and a Cleanup gets the mutex. *)
FairSpec == Spec /\ WF_vars(BeginCleanup) /\ WF_vars(Cleanup)

-----------------------------------------------------------------------------
(* Properties *)

(* Types; a bucket never holds more than the burst, and stale clock readings *)
(* push it at most Lag below zero.                                           *)
TypeOK ==
  /\ now \in Nat
  /\ tracked \subseteq Keys
  /\ tokens \in [Keys -> -Lag..Burst]
  /\ last \in [Keys -> Nat]
  /\ job \in [Procs -> Job]
  /\ sweep \in Nat \cup {NoSweep}
  /\ meter \in [Keys -> Nat]

(* The limit holds: in any stretch of d ticks the requests let through for a *)
(* key cost at most Burst + d + Lag, whatever the order of the calls and     *)
(* although idle buckets are dropped and start full again.  (The meter stays *)
(* below a bound exactly if every stretch of time obeys it.)                 *)
RateHeld == \A k \in Keys : meter[k] <= Burst + Lag

(* The comments on the three limiters ("8 tries, then 1 per 20s") hold for   *)
(* the client too: a request is refused only if the requests let through     *)
(* have used up the burst, to within Lag; refused attempts and overtaken     *)
(* clock readings cost nothing.                                              *)
RefusedOnlyWhenSpent ==
  [][\A p \in Procs :
       job[p] # Idle /\ job'[p] = Idle /\ meter' = meter =>
         meter[job[p].key] > Burst - Cost - Lag]_vars

(* Memory does not grow without bound: a bucket idle for longer than TTL is  *)
(* dropped or used again.                                                    *)
IdleKeysLeave ==
  \A k \in Keys :
    \A t \in 0..MaxTime :
      (k \in tracked /\ last[k] = t /\ t + TTL < now) ~> (k \notin tracked \/ last[k] # t)
=============================================================================
