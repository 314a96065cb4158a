-------------------------- MODULE RateLimitProofs ---------------------------
(***************************************************************************)
(* The rate limiter keeps its limit for every number of clients, requests  *)
(* and ticks, and for every Cost, Burst, TTL and Lag that RateAssumption   *)
(* admits.                                                                 *)
(*                                                                         *)
(* The argument looks at one number per bucket, its level extrapolated to  *)
(* the present without the cap, Extra(k) = tokens + (now - last).  A call  *)
(* with an overtaken clock reading moves (last, tokens) along the same     *)
(* line, so refusals leave Extra alone and a request let through takes     *)
(* Cost from it while it adds Cost to the meter.  Hence the two stay       *)
(* complementary: Extra is at least Burst - meter, and at most Burst + Lag *)
(* - meter unless the meter is 0.  A bucket that is dropped has an Extra   *)
(* above Burst + Lag (this is where Burst + 2 Lag <= TTL is needed), so    *)
(* its meter is 0 and starting full again gives nothing away.              *)
(***************************************************************************)
EXTENDS RateLimit, TLAPS

Extra(k) == tokens[k] + (now - last[k])

Readings ==
  /\ \A p \in Procs : job[p].stamp <= now /\ (job[p] # Idle => job[p].key \in Keys)
  /\ \A p \in Procs : job[p] # Idle => now - job[p].stamp <= Lag
  /\ sweep <= now

Balanced(k) ==
  /\ k \notin tracked => meter[k] = 0 /\ tokens[k] = 0 /\ last[k] = 0
  /\ last[k] <= now
  /\ meter[k] <= Burst + Lag
  /\ k \in tracked => /\ Extra(k) >= 0
                      /\ Extra(k) >= Burst - meter[k]
                      /\ meter[k] = 0 \/ Extra(k) <= Burst + Lag - meter[k]

IInv == TypeOK /\ Readings /\ \A k \in Keys : Balanced(k)

(* The cap: a level is the smaller of the burst and the refilled bucket. *)
LEMMA LevelFact ==
  ASSUME TypeOK, NEW k \in Keys, NEW s \in Nat
  PROVE  /\ Level(k, s) \in Int
         /\ Level(k, s) <= Burst
         /\ Level(k, s) <= tokens[k] + (s - last[k])
         /\ Level(k, s) = Burst \/ Level(k, s) = tokens[k] + (s - last[k])
<1>1. tokens[k] \in Int /\ last[k] \in Nat /\ Burst \in Nat
  BY RateAssumption DEF TypeOK
<1>2. CASE tokens[k] + (s - last[k]) > Burst
  BY <1>1, <1>2 DEF Level
<1>3. CASE ~(tokens[k] + (s - last[k]) > Burst)
  BY <1>1, <1>3 DEF Level
<1> QED BY <1>2, <1>3

LEMMA InitIInv == Init => IInv
<1> SUFFICES ASSUME Init PROVE IInv
  OBVIOUS
<1>1. TypeOK
  BY RateAssumption DEF Init, TypeOK, Job, Idle, NoSweep
<1>2. Readings
  BY DEF Init, Readings, Idle, NoSweep
<1>3. ASSUME NEW k \in Keys PROVE Balanced(k)
  <2>1. k \notin tracked /\ meter[k] = 0 /\ tokens[k] = 0 /\ last[k] = 0 /\ now = 0
    BY DEF Init
  <2>2. 0 <= Burst + Lag
    BY RateAssumption
  <2> QED BY <2>1, <2>2 DEF Balanced
<1> QED BY <1>1, <1>2, <1>3 DEF IInv

LEMMA ArriveStep ==
  ASSUME IInv, NEW p \in Procs, NEW k \in Keys, Arrive(p, k)
  PROVE  IInv'
<1>1. \A q \in Procs : job'[q] = IF q = p THEN [key |-> k, stamp |-> now] ELSE job[q]
  BY DEF Arrive, IInv, TypeOK
<1>2. TypeOK'
  BY DEF Arrive, IInv, TypeOK, Job
<1>3. Readings'
  BY <1>1, RateAssumption DEF Arrive, IInv, TypeOK, Readings, Idle, Job
<1>4. \A i \in Keys : Balanced(i)'
  BY DEF Arrive, IInv, Balanced, Extra
<1> QED BY <1>2, <1>3, <1>4 DEF IInv

(* What both outcomes of Allow have in common: bucket k is rewritten to t    *)
(* tokens at reading s, and the meter moves to m.                            *)
LEMMA TouchStep ==
  ASSUME IInv, NEW p \in Procs, job[p] # Idle,
         NEW t \in -Lag..Burst, NEW m \in Nat,
         tracked' = tracked \cup {job[p].key},
         tokens' = [tokens EXCEPT ![job[p].key] = t],
         last' = [last EXCEPT ![job[p].key] = job[p].stamp],
         meter' = [meter EXCEPT ![job[p].key] = m],
         job' = [job EXCEPT ![p] = Idle],
         UNCHANGED <<now, sweep>>,
         m <= Burst + Lag,
         t + (now - job[p].stamp) >= 0,
         t + (now - job[p].stamp) >= Burst - m,
         m = 0 \/ t + (now - job[p].stamp) <= Burst + Lag - m
  PROVE  IInv'
<1> DEFINE k == job[p].key
           s == job[p].stamp
<1>1. k \in Keys /\ s \in Nat /\ s <= now
  BY DEF IInv, TypeOK, Readings, Job
<1>2. TypeOK'
  <2>1. tracked' \subseteq Keys /\ tokens' \in [Keys -> -Lag..Burst]
    BY <1>1 DEF IInv, TypeOK
  <2>2. last' \in [Keys -> Nat] /\ meter' \in [Keys -> Nat]
    BY <1>1 DEF IInv, TypeOK
  <2>3. job' \in [Procs -> Job]
    BY DEF IInv, TypeOK, Job, Idle
  <2> QED BY <2>1, <2>2, <2>3 DEF IInv, TypeOK
<1>3. Readings'
  <2>1. \A q \in Procs : job'[q] = IF q = p THEN Idle ELSE job[q]
    BY DEF IInv, TypeOK
  <2>2. Idle.stamp = 0 /\ now \in Nat
    BY DEF Idle, IInv, TypeOK
  <2> QED BY <2>1, <2>2 DEF IInv, Readings
<1>4. ASSUME NEW i \in Keys PROVE Balanced(i)'
  <2>1. CASE i = k
    <3>1. /\ tokens'[k] = t /\ last'[k] = s /\ meter'[k] = m
          /\ k \in tracked' /\ now' = now
      BY <1>1 DEF IInv, TypeOK
    <3> QED BY <2>1, <3>1, <1>1 DEF Balanced, Extra
  <2>2. CASE i # k
    <3>1. /\ tokens'[i] = tokens[i] /\ last'[i] = last[i] /\ meter'[i] = meter[i]
          /\ (i \in tracked' <=> i \in tracked) /\ now' = now
      BY <2>2 DEF IInv, TypeOK
    <3>2. Balanced(i)
      BY DEF IInv
    <3> QED BY <3>1, <3>2 DEF Balanced, Extra
  <2> QED BY <2>1, <2>2
<1> QED BY <1>2, <1>3, <1>4 DEF IInv

(* A new bucket: the meter was 0, and the reading is at most Lag old. *)
LEMMA FreshStep ==
  ASSUME IInv, NEW p \in Procs, AllowFresh(p)
  PROVE  IInv'
<1> DEFINE k == job[p].key
           s == job[p].stamp
<1>1. /\ k \in Keys /\ s \in Nat /\ now \in Nat /\ s <= now /\ now - s <= Lag
      /\ meter[k] = 0 /\ meter \in [Keys -> Nat]
  BY DEF AllowFresh, IInv, TypeOK, Readings, Job, Balanced
<1>2. Burst - Cost \in -Lag..Burst /\ Cost \in Nat /\ Burst \in Nat /\ Lag \in Nat
  BY RateAssumption
<1>3. meter' = [meter EXCEPT ![k] = Cost]
  <2>1. meter' = [meter EXCEPT ![k] = meter[k] + Cost]
    BY DEF AllowFresh
  <2>2. meter[k] + Cost = Cost
    BY <1>1, <1>2
  <2> HIDE DEF k
  <2> QED BY <2>1, <2>2
<1>4. /\ Cost <= Burst + Lag
      /\ (Burst - Cost) + (now - s) >= 0
      /\ (Burst - Cost) + (now - s) >= Burst - Cost
      /\ (Burst - Cost) + (now - s) <= Burst + Lag - Cost
  BY <1>1, RateAssumption
<1> QED BY <1>1, <1>2, <1>3, <1>4, TouchStep DEF AllowFresh

(* A bucket in use: refused, the line through (last, tokens) is the same;    *)
(* let through, Cost goes from one side of the balance to the other.         *)
LEMMA TrackedStep ==
  ASSUME IInv, NEW p \in Procs, AllowTracked(p)
  PROVE  IInv'
<1> DEFINE k == job[p].key
           s == job[p].stamp
           v == Level(k, s)
<1>1. /\ k \in Keys /\ s \in Nat /\ now \in Nat /\ s <= now /\ now - s <= Lag
      /\ k \in tracked /\ meter \in [Keys -> Nat] /\ meter[k] \in Nat
      /\ tokens[k] \in Int /\ last[k] \in Nat
  BY RateAssumption DEF AllowTracked, IInv, TypeOK, Readings, Job
<1>2. Balanced(k)
  BY <1>1 DEF IInv
<1>3. /\ v \in Int /\ v <= Burst /\ v <= tokens[k] + (s - last[k])
      /\ v = Burst \/ v = tokens[k] + (s - last[k])
  BY <1>1, LevelFact DEF IInv
<1>4. tracked' = tracked \cup {k}
  BY <1>1 DEF AllowTracked
<1>5. CASE v < Cost
  <2>1. v = tokens[k] + (s - last[k])
    BY <1>3, <1>5, RateAssumption
  <2>2. v + (now - s) = Extra(k)
    BY <2>1, <1>1 DEF Extra
  <2>3. v \in -Lag..Burst
    BY <2>2, <1>1, <1>2, <1>3, RateAssumption DEF Balanced, Extra
  <2>4. meter' = [meter EXCEPT ![k] = meter[k]]
    BY <1>1, <1>5 DEF AllowTracked
  <2>5. tokens' = [tokens EXCEPT ![k] = v]
    BY <1>5 DEF AllowTracked
  <2>6. /\ meter[k] <= Burst + Lag
        /\ v + (now - s) >= 0
        /\ v + (now - s) >= Burst - meter[k]
        /\ meter[k] = 0 \/ v + (now - s) <= Burst + Lag - meter[k]
    BY <2>2, <1>1, <1>2 DEF Balanced
  <2> QED BY <1>1, <1>4, <2>3, <2>4, <2>5, <2>6, TouchStep DEF AllowTracked
<1>6. CASE ~(v < Cost)
  <2>1. v - Cost \in -Lag..Burst /\ meter[k] + Cost \in Nat
    BY <1>1, <1>3, <1>6, RateAssumption
  <2>2. meter' = [meter EXCEPT ![k] = meter[k] + Cost]
    BY <1>1, <1>6 DEF AllowTracked
  <2>3. tokens' = [tokens EXCEPT ![k] = v - Cost]
    BY <1>6 DEF AllowTracked
  <2>4. (v - Cost) + (now - s) >= 0
    BY <1>1, <1>3, <1>6, RateAssumption
  <2>5. (v - Cost) + (now - s) >= Burst - (meter[k] + Cost)
    BY <1>1, <1>2, <1>3, RateAssumption DEF Balanced, Extra
  <2>6. (v - Cost) + (now - s) <= Burst + Lag - (meter[k] + Cost)
    BY <1>1, <1>2, <1>3, RateAssumption DEF Balanced, Extra
  <2>7. meter[k] + Cost <= Burst + Lag
    BY <2>4, <2>6, <1>1, <1>3, RateAssumption
  <2> QED BY <1>1, <1>4, <2>1, <2>2, <2>3, <2>4, <2>5, <2>6, <2>7, TouchStep
          DEF AllowTracked
<1> QED BY <1>5, <1>6

LEMMA BeginCleanupStep ==
  ASSUME IInv, BeginCleanup
  PROVE  IInv'
<1>1. TypeOK'
  BY DEF BeginCleanup, IInv, TypeOK
<1>2. Readings'
  BY DEF BeginCleanup, IInv, TypeOK, Readings
<1>3. \A k \in Keys : Balanced(k)'
  BY DEF BeginCleanup, IInv, Balanced, Extra
<1> QED BY <1>1, <1>2, <1>3 DEF IInv

(* A bucket that is dropped belongs to a key whose meter is 0. *)
LEMMA CleanupStep ==
  ASSUME IInv, Cleanup
  PROVE  IInv'
<1>0. /\ tracked' \subseteq tracked
      /\ \A k \in Keys : tokens'[k] = IF k \in tracked' THEN tokens[k] ELSE 0
      /\ \A k \in Keys : last'[k] = IF k \in tracked' THEN last[k] ELSE 0
  BY DEF Cleanup
<1>1. TypeOK'
  <2>1. 0 \in -Lag..Burst /\ 0 \in Nat
    BY RateAssumption
  <2> QED BY <2>1 DEF Cleanup, IInv, TypeOK, NoSweep
<1>2. Readings'
  BY DEF Cleanup, IInv, TypeOK, Readings, NoSweep
<1>3. ASSUME NEW k \in Keys PROVE Balanced(k)'
  <2>1. /\ tokens[k] \in Int /\ tokens[k] >= -Lag /\ last[k] \in Nat /\ now \in Nat
        /\ meter[k] \in Nat /\ now' = now /\ meter' = meter /\ Balanced(k)
    BY RateAssumption DEF Cleanup, IInv, TypeOK
  <2>2. CASE k \in tracked'
    BY <1>0, <2>1, <2>2 DEF Balanced, Extra
  <2>3. CASE k \notin tracked'
    <3>1. meter[k] = 0
      <4>1. CASE k \notin tracked
        BY <4>1, <2>1 DEF Balanced
      <4>2. CASE k \in tracked
        <5>1. sweep \in Nat /\ last[k] < sweep - TTL
          BY <2>1, <2>3, <4>2, RateAssumption DEF Cleanup, IInv, TypeOK
        <5>2. sweep <= now
          BY DEF IInv, Readings
        <5>3. Extra(k) > Burst + Lag
          BY <5>1, <5>2, <2>1, RateAssumption DEF Extra
        <5> QED BY <5>3, <4>2, <2>1, RateAssumption DEF Balanced, Extra
      <4> QED BY <4>1, <4>2
    <3> QED BY <1>0, <2>1, <2>3, <3>1, RateAssumption DEF Balanced
  <2> QED BY <2>2, <2>3
<1> QED BY <1>1, <1>2, <1>3 DEF IInv

(* A tick adds 1 to Extra and takes 1 from the meter. *)
LEMMA TickStep ==
  ASSUME IInv, Tick
  PROVE  IInv'
<1>1. TypeOK'
  BY DEF Tick, IInv, TypeOK
<1>2. Readings'
  <2>1. now \in Nat /\ now' = now + 1 /\ job' = job /\ sweep' = sweep
    BY DEF Tick, IInv, TypeOK
  <2>2. \A p \in Procs : job[p].stamp \in Nat
    BY DEF IInv, TypeOK, Job
  <2>3. sweep \in Int
    BY DEF IInv, TypeOK, NoSweep
  <2> QED BY <2>1, <2>2, <2>3, RateAssumption DEF Tick, IInv, Readings
<1>3. ASSUME NEW k \in Keys PROVE Balanced(k)'
  <2>1. /\ tokens[k] \in Int /\ last[k] \in Nat /\ now \in Nat /\ meter[k] \in Nat
        /\ now' = now + 1 /\ tokens' = tokens /\ last' = last /\ tracked' = tracked
        /\ Balanced(k)
    BY RateAssumption DEF Tick, IInv, TypeOK
  <2>2. CASE meter[k] = 0
    <3>1. meter'[k] = 0
      BY <2>2 DEF Tick
    <3> QED BY <2>1, <2>2, <3>1, RateAssumption DEF Balanced, Extra
  <2>3. CASE meter[k] # 0
    <3>1. meter'[k] = meter[k] - 1
      BY <2>3 DEF Tick
    <3> QED BY <2>1, <2>3, <3>1, RateAssumption DEF Balanced, Extra
  <2> QED BY <2>2, <2>3
<1> QED BY <1>1, <1>2, <1>3 DEF IInv

LEMMA NextIInv == IInv /\ [Next]_vars => IInv'
<1> SUFFICES ASSUME IInv, [Next]_vars PROVE IInv'
  OBVIOUS
<1>1. ASSUME NEW p \in Procs, NEW k \in Keys, Arrive(p, k) PROVE IInv'
  BY <1>1, ArriveStep
<1>2. ASSUME NEW p \in Procs, AllowFresh(p) PROVE IInv'
  BY <1>2, FreshStep
<1>3. ASSUME NEW p \in Procs, AllowTracked(p) PROVE IInv'
  BY <1>3, TrackedStep
<1>4. CASE BeginCleanup
  BY <1>4, BeginCleanupStep
<1>5. CASE Cleanup
  BY <1>5, CleanupStep
<1>6. CASE Tick
  BY <1>6, TickStep
<1>7. CASE UNCHANGED vars
  BY <1>7 DEF vars, IInv, TypeOK, Readings, Balanced, Extra
<1> QED BY <1>1, <1>2, <1>3, <1>4, <1>5, <1>6, <1>7 DEF Next

(* The balance between buckets and meter is invariant. *)
THEOREM Invariance == Spec => []IInv
BY InitIInv, NextIInv, PTL DEF Spec

(* Types: a bucket stays between -Lag and Burst (min(l.burst, ...) in Allow). *)
THEOREM TypeCorrect == Spec => []TypeOK
<1>1. IInv => TypeOK
  BY DEF IInv
<1> QED BY <1>1, Invariance, PTL

(* The limit holds: no stretch of time lets through more than the burst, the *)
(* refill and Lag, evictions by Cleanup included.                            *)
THEOREM LimitHolds == Spec => []RateHeld
<1>1. IInv => RateHeld
  BY DEF IInv, Balanced, RateHeld
<1> QED BY <1>1, Invariance, PTL

(* A step that ends request p and leaves the meter alone has refused it: the *)
(* level was below Cost, so Extra is below Cost + Lag.                       *)
LEMMA RefusalStep ==
  ASSUME IInv, [Next]_vars, NEW p \in Procs,
         job[p] # Idle, job'[p] = Idle, meter' = meter
  PROVE  meter[job[p].key] > Burst - Cost - Lag
<1>1. \A k \in Keys : meter[k] \in Nat
  BY DEF IInv, TypeOK
<1>2. ASSUME NEW q \in Procs, NEW k \in Keys, Arrive(q, k) PROVE FALSE
  <2>1. job'[q] = [key |-> k, stamp |-> now] /\ \A r \in Procs \ {q} : job'[r] = job[r]
    BY <1>2 DEF Arrive, IInv, TypeOK
  <2>2. job'[q].key = k /\ Idle.key = NoKey
    BY <2>1 DEF Idle
  <2> QED BY <2>1, <2>2, RateAssumption
<1>3. ASSUME NEW q \in Procs, AllowFresh(q) PROVE FALSE
  <2>1. job[q].key \in Keys
    BY <1>3 DEF AllowFresh, IInv, Readings
  <2>2. meter'[job[q].key] = meter[job[q].key] + Cost
    BY <1>3, <2>1 DEF AllowFresh, IInv, TypeOK
  <2> QED BY <2>1, <2>2, <1>1, RateAssumption
<1>4. ASSUME NEW q \in Procs, AllowTracked(q)
      PROVE  meter[job[p].key] > Burst - Cost - Lag
  <2> DEFINE k == job[q].key
             s == job[q].stamp
             v == Level(k, s)
  <2>1. /\ k \in Keys /\ s \in Nat /\ now \in Nat /\ now - s <= Lag /\ k \in tracked
        /\ tokens[k] \in Int /\ last[k] \in Nat /\ Balanced(k)
    BY <1>4, RateAssumption DEF AllowTracked, IInv, TypeOK, Readings, Job
  <2>2. q = p
    <3>1. \A r \in Procs \ {q} : job'[r] = job[r]
      BY <1>4 DEF AllowTracked, IInv, TypeOK
    <3> QED BY <3>1
  <2>3. v < Cost
    <3>1. SUFFICES ASSUME ~(v < Cost) PROVE FALSE
      OBVIOUS
    <3>2. meter'[k] = meter[k] + Cost
      BY <1>4, <3>1, <2>1 DEF AllowTracked, IInv, TypeOK
    <3> QED BY <3>2, <2>1, <1>1, RateAssumption
  <2>4. v \in Int /\ (v = Burst \/ v = tokens[k] + (s - last[k]))
    BY <2>1, LevelFact DEF IInv
  <2>5. v = tokens[k] + (s - last[k])
    BY <2>3, <2>4, RateAssumption
  <2>6. Extra(k) < Cost + Lag
    BY <2>1, <2>3, <2>5, RateAssumption DEF Extra
  <2>7. meter[k] > Burst - Cost - Lag
    BY <2>1, <2>6, <1>1, RateAssumption DEF Balanced, Extra
  <2> QED BY <2>2, <2>7
<1>5. CASE BeginCleanup \/ Cleanup \/ Tick \/ UNCHANGED vars
  BY <1>5 DEF BeginCleanup, Cleanup, Tick, vars
<1> QED BY <1>2, <1>3, <1>4, <1>5 DEF Next

(* A request is refused only when the burst has been used up, to within Lag: *)
(* refused attempts and overtaken clock readings cost a client nothing.      *)
THEOREM RefusalsJustified == Spec => RefusedOnlyWhenSpent
<1>1. IInv /\ [Next]_vars =>
         [\A p \in Procs : job[p] # Idle /\ job'[p] = Idle /\ meter' = meter =>
             meter[job[p].key] > Burst - Cost - Lag]_vars
  BY RefusalStep
<1> QED BY <1>1, Invariance, PTL DEF Spec, RefusedOnlyWhenSpent
=============================================================================
