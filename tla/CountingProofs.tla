--------------------------- MODULE CountingProofs ---------------------------
(***************************************************************************)
(* A visitor is counted at most once per window, for every number of       *)
(* visitors, links and overlapping beacons, and for every Lag shorter than *)
(* the windows.                                                            *)
(*                                                                         *)
(* The row of a fingerprint f is the clock reading of its last winner plus *)
(* the window.  A beacon that has won counts within Lag of that reading,   *)
(* which is before the row can expire: so while it has not counted, its    *)
(* row is still the one it wrote (Holds), nobody else has won, and the     *)
(* previous count is at least a window, less Lag, in the past (Apart).     *)
(* After it has counted, the row keeps the next winner away until a        *)
(* window, less Lag, has passed since the count; if the purge has removed  *)
(* the row, that time has passed already (Spaced).                         *)
(***************************************************************************)
EXTENDS Dashboard, FiniteSetTheorems, TLAPS

Claimed(p) == job[p].at = "claimed"
Gap(f) == Window(f) - Lag

Readings ==
  /\ \A p \in Procs : job[p] # Idle =>
       job[p].fp \in Fingerprints /\ job[p].stamp <= now /\ now - job[p].stamp <= Lag
  /\ sweep <= now
  /\ \A f \in Fingerprints : countedAt[f] <= now

Holds ==
  /\ \A p \in Procs : Claimed(p) =>
       events[job[p].fp] = job[p].stamp + Window(job[p].fp)
  /\ \A p, q \in Procs : Claimed(p) /\ Claimed(q) /\ job[p].fp = job[q].fp => p = q

Apart ==
  \A p \in Procs : Claimed(p) =>
    countedAt[job[p].fp] = Never \/ now - countedAt[job[p].fp] >= Gap(job[p].fp)

Spaced ==
  \A f \in Fingerprints : countedAt[f] # Never =>
    IF events[f] = 0 THEN now - countedAt[f] >= Gap(f)
                     ELSE events[f] - countedAt[f] >= Gap(f)

IInv == TypeOK /\ Readings /\ Holds /\ Apart /\ Spaced

LEMMA WindowFact ==
  ASSUME NEW f \in Fingerprints
  PROVE  Window(f) \in Nat /\ Lag \in Nat /\ Lag < Window(f) /\ Gap(f) \in Nat
BY CountingAssumption DEF Window, Gap

(* The history and the rows as numbers, for the arithmetic. *)
LEMMA Numbers ==
  ASSUME TypeOK
  PROVE  /\ now \in Nat
         /\ \A f \in Fingerprints : events[f] \in Nat /\ countedAt[f] \in Int
         /\ \A p \in Procs : job[p].stamp \in Nat
         /\ \A p \in Procs : job[p] = Idle \/ job[p].at \in {"timed", "claimed"}
                             \/ job[p].at = "idle"
BY DEF TypeOK, Job, Never

LEMMA InitIInv == Init => IInv
<1> SUFFICES ASSUME Init PROVE IInv
  OBVIOUS
<1>1. TypeOK
  <2>1. Zero \in Counts
    BY DEF Zero, Counts
  <2>2. Idle \in Job
    BY DEF Idle, Job
  <2> QED BY <2>1, <2>2 DEF Init, TypeOK
<1>2. Readings
  BY DEF Init, Readings, NoSweep, Never
<1>3. \A p \in Procs : ~Claimed(p)
  BY DEF Init, Claimed, Idle
<1>4. Spaced
  BY DEF Init, Spaced
<1> QED BY <1>1, <1>2, <1>3, <1>4 DEF IInv, Holds, Apart

(* A step that changes neither the rows, nor the history, nor the clock, and *)
(* starts or ends beacons without letting one win.                           *)
LEMMA QuietStep ==
  ASSUME IInv, TypeOK',
         UNCHANGED <<now, events, countedAt>>,
         sweep' <= now,
         \A p \in Procs : \/ job'[p] = job[p]
                          \/ job'[p] = Idle
                          \/ /\ job'[p].at = "timed" /\ job'[p].stamp = now
                             /\ job'[p].fp \in Fingerprints
  PROVE  IInv'
<1>1. now \in Nat /\ Lag \in Nat
  BY CountingAssumption DEF IInv, TypeOK
<1>2. Readings'
  BY <1>1 DEF IInv, Readings
<1>3. ASSUME NEW p \in Procs, Claimed(p)' PROVE Claimed(p) /\ job'[p] = job[p]
  BY <1>3 DEF Claimed, Idle
<1>4. Holds'
  BY <1>3 DEF IInv, Holds
<1>5. Apart'
  BY <1>3 DEF IInv, Apart
<1>6. Spaced'
  BY DEF IInv, Spaced
<1> QED BY <1>2, <1>4, <1>5, <1>6 DEF IInv

LEMMA BeaconStep ==
  ASSUME IInv, NEW p \in Procs, NEW f \in Fingerprints, Beacon(p, f)
  PROVE  IInv'
<1>1. /\ job'[p] = [at |-> "timed", fp |-> f, stamp |-> now]
      /\ \A q \in Procs \ {p} : job'[q] = job[q]
  BY DEF Beacon, IInv, TypeOK
<1>2. TypeOK'
  <2>1. [at |-> "timed", fp |-> f, stamp |-> now] \in Job
    BY DEF Job, IInv, TypeOK
  <2> QED BY <2>1 DEF Beacon, counters, IInv, TypeOK
<1>3. sweep' <= now
  BY DEF Beacon, IInv, Readings
<1> QED BY <1>1, <1>2, <1>3, QuietStep DEF Beacon, counters

LEMMA FailStep ==
  ASSUME IInv, NEW p \in Procs, Fail(p)
  PROVE  IInv'
<1>1. TypeOK'
  <2>1. Idle \in Job
    BY DEF Idle, Job
  <2>2. lost' \subseteq Fingerprints
    BY DEF Fail, IInv, TypeOK, Readings, Idle
  <2>3. job' \in [Procs -> Job]
    BY <2>1 DEF Fail, IInv, TypeOK
  <2> QED BY <2>2, <2>3 DEF Fail, counters, IInv, TypeOK
<1>2. sweep' <= now
  BY DEF Fail, IInv, Readings
<1>3. \A q \in Procs : job'[q] = job[q] \/ job'[q] = Idle
  BY DEF Fail, IInv, TypeOK
<1> QED BY <1>1, <1>2, <1>3, QuietStep DEF Fail, counters

(* Winning a claim: the row it replaces has expired, so no other beacon can  *)
(* still be about to count the fingerprint.                                  *)
LEMMA ClaimStep ==
  ASSUME IInv, NEW p \in Procs, ClaimEvent(p)
  PROVE  IInv'
<1> DEFINE f == job[p].fp
           s == job[p].stamp
<1>1. /\ f \in Fingerprints /\ s \in Nat /\ now \in Nat /\ s <= now /\ now - s <= Lag
      /\ Window(f) \in Nat /\ Lag \in Nat /\ Lag < Window(f)
      /\ events[f] \in Nat /\ countedAt[f] \in Int /\ countedAt[f] <= now
  <2>1. job[p] # Idle
    BY DEF ClaimEvent, Idle
  <2>2. f \in Fingerprints /\ s <= now /\ now - s <= Lag
    BY <2>1 DEF IInv, Readings
  <2>3. s \in Nat /\ now \in Nat /\ events[f] \in Nat /\ countedAt[f] \in Int
    BY <2>2, Numbers DEF IInv
  <2> QED BY <2>2, <2>3, WindowFact DEF IInv, Readings
<1>2. CASE ~(events[f] <= s)
  <2>1. /\ job' = [job EXCEPT ![p] = Idle]
        /\ UNCHANGED <<now, events, present, enabled, counters, sweep, lost>>
    BY <1>2 DEF ClaimEvent
  <2>2. TypeOK'
    <3>1. Idle \in Job
      BY DEF Idle, Job
    <3> QED BY <2>1, <3>1 DEF counters, IInv, TypeOK
  <2>3. \A q \in Procs : job'[q] = job[q] \/ job'[q] = Idle
    BY <2>1 DEF IInv, TypeOK
  <2>4. sweep' <= now
    BY <2>1 DEF IInv, Readings
  <2> QED BY <2>1, <2>2, <2>3, <2>4, QuietStep DEF counters
<1>3. CASE events[f] <= s
  <2> DEFINE won == [at |-> "claimed", fp |-> f, stamp |-> s]
             e == s + Window(f)
  <2>1. /\ events' = [events EXCEPT ![f] = e]
        /\ job' = [job EXCEPT ![p] = won]
        /\ lost' \subseteq lost
        /\ UNCHANGED <<now, present, enabled, linkClicks, total, daily, countedAt, sweep>>
    BY <1>3 DEF ClaimEvent, counters
  <2>2. e \in Nat /\ e # 0 /\ won \in Job
    BY <1>1 DEF Job
  <2>3. TypeOK'
    <3> HIDE DEF e, won
    <3> QED BY <2>1, <2>2, <1>1 DEF IInv, TypeOK
  <2>4. \A q \in Procs : job'[q] = IF q = p THEN won ELSE job[q]
    BY <2>1 DEF IInv, TypeOK
  <2>5. \A g \in Fingerprints : events'[g] = IF g = f THEN e ELSE events[g]
    <3> HIDE DEF e, f
    <3> QED BY <2>1 DEF IInv, TypeOK
  <2>6. won.fp = f /\ won.stamp = s
    OBVIOUS
  <2>7. Readings'
    <3>1. ASSUME NEW q \in Procs, job'[q] # Idle
          PROVE  job'[q].fp \in Fingerprints /\ job'[q].stamp <= now
                 /\ now - job'[q].stamp <= Lag
      <4>1. CASE q = p
        BY <4>1, <2>4, <2>6, <1>1
      <4>2. CASE q # p
        BY <4>2, <3>1, <2>4 DEF IInv, Readings
      <4> QED BY <4>1, <4>2
    <3> QED BY <3>1, <2>1 DEF IInv, Readings
  <2>8. ASSUME NEW q \in Procs, q # p, Claimed(q)' PROVE Claimed(q) /\ job[q].fp # f
    <3>1. Claimed(q) /\ job[q] # Idle
      BY <2>8, <2>4 DEF Claimed, Idle
    <3>2. job[q].stamp \in Nat /\ now - job[q].stamp <= Lag
      BY <3>1, Numbers DEF IInv, Readings
    <3>3. SUFFICES ASSUME job[q].fp = f PROVE FALSE
      BY <3>1
    <3>4. events[f] = job[q].stamp + Window(f)
      BY <3>1, <3>3 DEF IInv, Holds
    <3> QED BY <3>2, <3>4, <1>1, <1>3
  <2>9. Holds'
    <3>1. ASSUME NEW q \in Procs, Claimed(q)'
          PROVE  events'[job'[q].fp] = job'[q].stamp + Window(job'[q].fp)
      <4>1. CASE q = p
        BY <4>1, <2>4, <2>5, <2>6, <1>1
      <4>2. CASE q # p
        <5>1. Claimed(q) /\ job[q].fp # f /\ job'[q] = job[q] /\ job[q].fp \in Fingerprints
          BY <4>2, <3>1, <2>8, <2>4 DEF IInv, Readings, Claimed, Idle
        <5> QED BY <5>1, <2>5 DEF IInv, Holds
      <4> QED BY <4>1, <4>2
    <3>2. ASSUME NEW q \in Procs, NEW r \in Procs, Claimed(q)', Claimed(r)',
                 job'[q].fp = job'[r].fp
          PROVE  q = r
      <4>1. CASE q = p \/ r = p
        BY <4>1, <3>2, <2>8, <2>4, <2>6
      <4>2. CASE q # p /\ r # p
        BY <4>2, <3>2, <2>8, <2>4 DEF IInv, Holds
      <4> QED BY <4>1, <4>2
    <3> QED BY <3>1, <3>2 DEF Holds
  <2>10. countedAt[f] = Never \/ now - countedAt[f] >= Gap(f)
    <3>1. CASE countedAt[f] = Never
      BY <3>1
    <3>2. CASE countedAt[f] # Never /\ events[f] = 0
      BY <3>2, <1>1 DEF IInv, Spaced
    <3>3. CASE countedAt[f] # Never /\ events[f] # 0
      <4>1. events[f] - countedAt[f] >= Gap(f)
        BY <3>3, <1>1 DEF IInv, Spaced
      <4> QED BY <4>1, <1>1, <1>3 DEF Gap
    <3> QED BY <3>1, <3>2, <3>3
  <2>11. Apart'
    <3>1. ASSUME NEW q \in Procs, Claimed(q)'
          PROVE  countedAt[job'[q].fp] = Never
                 \/ now - countedAt[job'[q].fp] >= Gap(job'[q].fp)
      <4>1. CASE q = p
        BY <4>1, <2>4, <2>6, <2>10
      <4>2. CASE q # p
        BY <4>2, <3>1, <2>8, <2>4 DEF IInv, Apart
      <4> QED BY <4>1, <4>2
    <3> QED BY <3>1, <2>1 DEF Apart, Gap
  <2>12. Spaced'
    <3>1. e - countedAt[f] >= Gap(f)
      BY <1>1 DEF Gap
    <3>2. ASSUME NEW g \in Fingerprints, countedAt[g] # Never
          PROVE  IF events'[g] = 0 THEN now - countedAt[g] >= Gap(g)
                                   ELSE events'[g] - countedAt[g] >= Gap(g)
      <4>1. CASE g = f
        BY <4>1, <2>5, <2>2, <3>1
      <4>2. CASE g # f
        BY <4>2, <3>2, <2>5 DEF IInv, Spaced
      <4> QED BY <4>1, <4>2
    <3> QED BY <3>2, <2>1 DEF Spaced, Gap
  <2> QED BY <2>3, <2>7, <2>9, <2>11, <2>12 DEF IInv
<1> QED BY <1>2, <1>3

(* Counting: the winner's row keeps the next one away for long enough. *)
LEMMA CountStep ==
  ASSUME IInv, TypeOK', NEW p \in Procs, Claimed(p),
         countedAt' = [countedAt EXCEPT ![job[p].fp] = now],
         job' = [job EXCEPT ![p] = Idle],
         UNCHANGED <<now, events, sweep>>
  PROVE  IInv'
<1> DEFINE f == job[p].fp
           s == job[p].stamp
<1>1. /\ f \in Fingerprints /\ s \in Nat /\ now \in Nat /\ s <= now /\ now - s <= Lag
      /\ Window(f) \in Nat /\ Lag \in Nat /\ Lag < Window(f)
      /\ events[f] = s + Window(f)
  <2>1. job[p] # Idle
    BY DEF Claimed, Idle
  <2>2. f \in Fingerprints /\ s <= now /\ now - s <= Lag
    BY <2>1 DEF IInv, Readings
  <2>3. s \in Nat /\ now \in Nat
    BY Numbers DEF IInv
  <2> QED BY <2>2, <2>3, WindowFact DEF IInv, Holds
<1>2. \A q \in Procs : job'[q] = IF q = p THEN Idle ELSE job[q]
  BY DEF IInv, TypeOK
<1>3. \A g \in Fingerprints : countedAt'[g] = IF g = f THEN now ELSE countedAt[g]
  <2>1. countedAt' = [countedAt EXCEPT ![f] = now]
    OBVIOUS
  <2> HIDE DEF f
  <2> QED BY <2>1 DEF IInv, TypeOK
<1>4. Readings'
  <2>1. \A q \in Procs : job'[q] # Idle => job'[q] = job[q] /\ job[q] # Idle
    BY <1>2
  <2>2. \A g \in Fingerprints : countedAt'[g] <= now
    BY <1>1, <1>3 DEF IInv, Readings
  <2> QED BY <2>1, <2>2 DEF IInv, Readings
<1>5. ASSUME NEW q \in Procs, Claimed(q)'
      PROVE  Claimed(q) /\ job'[q] = job[q] /\ job[q].fp # f /\ job[q].fp \in Fingerprints
  <2>1. q # p /\ job'[q] = job[q]
    BY <1>5, <1>2 DEF Claimed, Idle
  <2>2. Claimed(q)
    BY <1>5, <2>1 DEF Claimed
  <2> QED BY <2>1, <2>2 DEF IInv, Holds, Readings, Claimed, Idle
<1>6. Holds'
  BY <1>5 DEF IInv, Holds
<1>7. Apart'
  BY <1>5, <1>3 DEF IInv, Apart
<1>8. Spaced'
  <2>1. events[f] # 0 /\ events[f] - now >= Gap(f)
    BY <1>1 DEF Gap
  <2>2. ASSUME NEW g \in Fingerprints, countedAt'[g] # Never
        PROVE  IF events[g] = 0 THEN now - countedAt'[g] >= Gap(g)
                                ELSE events[g] - countedAt'[g] >= Gap(g)
    <3>1. CASE g = f
      BY <3>1, <1>3, <2>1
    <3>2. CASE g # f
      BY <3>2, <2>2, <1>3 DEF IInv, Spaced
    <3> QED BY <3>1, <3>2
  <2> QED BY <2>2 DEF Spaced, Gap
<1> QED BY <1>4, <1>6, <1>7, <1>8 DEF IInv

LEMMA RegisterViewStep ==
  ASSUME IInv, NEW p \in Procs, RegisterView(p)
  PROVE  IInv'
<1>1. Claimed(p)
  BY DEF RegisterView, Claimed
<1>2. total.views \in Nat /\ total.clicks \in Nat /\ daily.views \in Nat /\ daily.clicks \in Nat
  BY DEF IInv, TypeOK, Counts
<1>3. total' \in Counts /\ daily' \in Counts
  BY <1>2 DEF RegisterView, IInv, TypeOK, Counts
<1>4. TypeOK'
  <2>1. Idle \in Job /\ now \in Nat
    BY DEF Idle, Job, IInv, TypeOK
  <2>2. job' \in [Procs -> Job]
    BY <2>1 DEF RegisterView, IInv, TypeOK
  <2>3. countedAt' \in [Fingerprints -> Nat \cup {Never}]
    BY <2>1 DEF RegisterView, IInv, TypeOK
  <2> QED BY <1>3, <2>2, <2>3 DEF RegisterView, IInv, TypeOK
<1> QED BY <1>1, <1>4, CountStep DEF RegisterView

LEMMA RegisterClickStep ==
  ASSUME IInv, NEW p \in Procs, RegisterClick(p)
  PROVE  IInv'
<1> DEFINE l == job[p].fp[2]
<1>1. Claimed(p)
  BY DEF RegisterClick, Claimed
<1>2. total.views \in Nat /\ total.clicks \in Nat /\ daily.views \in Nat /\ daily.clicks \in Nat
  BY DEF IInv, TypeOK, Counts
<1>3. Idle \in Job /\ now \in Nat
  BY DEF Idle, Job, IInv, TypeOK
<1>4. /\ job' = [job EXCEPT ![p] = Idle] /\ UNCHANGED <<now, events, present, enabled, sweep>>
      /\ lost' \subseteq Fingerprints
  BY <1>1 DEF RegisterClick, IInv, TypeOK, Readings, Claimed, Idle
<1>5. job' \in [Procs -> Job]
  BY <1>3, <1>4 DEF IInv, TypeOK
<1>6. CASE l \in enabled
  <2>1. total' \in Counts /\ daily' \in Counts
    BY <1>2, <1>6 DEF RegisterClick, IInv, TypeOK, Counts
  <2>2. /\ linkClicks' = [linkClicks EXCEPT ![l] = linkClicks[l] + 1]
        /\ countedAt' = [countedAt EXCEPT ![job[p].fp] = now]
    BY <1>6 DEF RegisterClick
  <2>3. l \in Links /\ l \in present
    BY <1>6 DEF IInv, TypeOK
  <2>4. linkClicks' \in [Links -> Nat] /\ \A k \in Links \ present : linkClicks'[k] = 0
    <3> HIDE DEF l
    <3> QED BY <2>2, <2>3 DEF IInv, TypeOK
  <2>5. countedAt' \in [Fingerprints -> Nat \cup {Never}]
    BY <1>3, <2>2 DEF IInv, TypeOK
  <2>6. TypeOK'
    BY <1>4, <1>5, <2>1, <2>4, <2>5 DEF IInv, TypeOK
  <2> QED BY <1>1, <1>4, <2>2, <2>6, CountStep
<1>7. CASE l \notin enabled
  <2>1. UNCHANGED <<linkClicks, total, daily, countedAt>>
    BY <1>7 DEF RegisterClick, counters
  <2>2. TypeOK'
    BY <1>4, <1>5, <2>1 DEF IInv, TypeOK
  <2>3. \A q \in Procs : job'[q] = job[q] \/ job'[q] = Idle
    BY <1>4 DEF IInv, TypeOK
  <2>4. sweep' <= now
    BY <1>4 DEF IInv, Readings
  <2> QED BY <1>4, <2>1, <2>2, <2>3, <2>4, QuietStep
<1> QED BY <1>6, <1>7

(* Edits of the links touch neither claims nor history. *)
LEMMA EditStep ==
  ASSUME IInv, NEW l \in Links,
         DeleteLink(l) \/ \E on \in BOOLEAN : SetEnabled(l, on)
  PROVE  IInv'
<1>1. CASE DeleteLink(l)
  <2>1. TypeOK'
    <3>1. linkClicks' \in [Links -> Nat] /\ \A k \in Links \ present' : linkClicks'[k] = 0
      BY <1>1 DEF DeleteLink, IInv, TypeOK
    <3> QED BY <1>1, <3>1 DEF DeleteLink, IInv, TypeOK
  <2>2. sweep' <= now
    BY <1>1 DEF DeleteLink, IInv, Readings
  <2> QED BY <1>1, <2>1, <2>2, QuietStep DEF DeleteLink
<1>2. ASSUME NEW on \in BOOLEAN, SetEnabled(l, on) PROVE IInv'
  <2>1. TypeOK'
    BY <1>2 DEF SetEnabled, counters, IInv, TypeOK
  <2>2. sweep' <= now
    BY <1>2 DEF SetEnabled, IInv, Readings
  <2> QED BY <1>2, <2>1, <2>2, QuietStep DEF SetEnabled, counters
<1> QED BY <1>1, <1>2

LEMMA BeginPurgeStep ==
  ASSUME IInv, BeginPurge
  PROVE  IInv'
<1>1. TypeOK'
  BY DEF BeginPurge, counters, IInv, TypeOK
<1>2. sweep' <= now
  BY DEF BeginPurge, IInv, TypeOK
<1> QED BY <1>1, <1>2, QuietStep DEF BeginPurge, counters

(* The purge removes no row whose winner has still to count, and none whose  *)
(* window, less Lag, is not over.                                            *)
LEMMA PurgeStep ==
  ASSUME IInv, PurgeExpiredEvents
  PROVE  IInv'
<1>1. \A f \in Fingerprints : events'[f] = IF events[f] <= sweep THEN 0 ELSE events[f]
  BY DEF PurgeExpiredEvents
<1>2. UNCHANGED <<now, present, enabled, linkClicks, total, daily, countedAt, job, lost>>
  BY DEF PurgeExpiredEvents, counters
<1>3. now \in Nat /\ sweep \in Nat /\ sweep <= now
  BY DEF PurgeExpiredEvents, IInv, TypeOK, Readings
<1>4. TypeOK'
  BY <1>2 DEF PurgeExpiredEvents, IInv, TypeOK
<1>5. Readings'
  <2>1. sweep' <= now
    BY <1>3 DEF PurgeExpiredEvents, NoSweep
  <2> QED BY <2>1, <1>2 DEF IInv, Readings
<1>6. ASSUME NEW p \in Procs, Claimed(p) PROVE events'[job[p].fp] = events[job[p].fp]
  <2> DEFINE f == job[p].fp
  <2>1. f \in Fingerprints /\ job[p].stamp \in Nat /\ now - job[p].stamp <= Lag
    BY <1>6, Numbers DEF IInv, Readings, Claimed, Idle
  <2>2. events[f] = job[p].stamp + Window(f)
    BY <1>6 DEF IInv, Holds
  <2>3. ~(events[f] <= sweep)
    BY <2>1, <2>2, <1>3, WindowFact
  <2> QED BY <2>1, <2>3, <1>1
<1>7. Holds'
  BY <1>2, <1>6 DEF IInv, Holds, Claimed
<1>8. Apart'
  BY <1>2 DEF IInv, Apart, Claimed, Gap
<1>9. Spaced'
  <2>1. ASSUME NEW f \in Fingerprints, countedAt[f] # Never
        PROVE  IF events'[f] = 0 THEN now - countedAt[f] >= Gap(f)
                                 ELSE events'[f] - countedAt[f] >= Gap(f)
    <3>1. events[f] \in Nat /\ countedAt[f] \in Int /\ Gap(f) \in Nat
      BY Numbers, WindowFact DEF IInv
    <3>2. IF events[f] = 0 THEN now - countedAt[f] >= Gap(f)
                           ELSE events[f] - countedAt[f] >= Gap(f)
      BY <2>1 DEF IInv, Spaced
    <3> QED BY <3>1, <3>2, <1>1, <1>3
  <2> QED BY <2>1, <1>2 DEF Spaced, Gap
<1> QED BY <1>4, <1>5, <1>7, <1>8, <1>9 DEF IInv

LEMMA TickStep ==
  ASSUME IInv, Tick
  PROVE  IInv'
<1>1. /\ now' = now + 1 /\ now \in Nat
      /\ UNCHANGED <<events, present, enabled, linkClicks, total, daily, countedAt, job, sweep, lost>>
  BY DEF Tick, counters, IInv, TypeOK
<1>2. TypeOK'
  BY <1>1 DEF IInv, TypeOK
<1>3. Readings'
  <2>1. sweep \in Int /\ \A f \in Fingerprints : countedAt[f] \in Int
    BY Numbers DEF IInv, TypeOK, NoSweep
  <2>2. \A p \in Procs : job[p].stamp \in Nat
    BY Numbers DEF IInv
  <2>3. \A p \in Procs : job[p] # Idle => now + 1 - job[p].stamp <= Lag
    BY DEF Tick
  <2> QED BY <1>1, <2>1, <2>2, <2>3 DEF IInv, Readings
<1>4. Holds'
  BY <1>1 DEF IInv, Holds, Claimed
<1>5. Apart'
  <2>1. ASSUME NEW p \in Procs, Claimed(p)
        PROVE  countedAt[job[p].fp] = Never
               \/ (now + 1) - countedAt[job[p].fp] >= Gap(job[p].fp)
    <3>1. job[p].fp \in Fingerprints
      BY <2>1 DEF IInv, Readings, Claimed, Idle
    <3>2. countedAt[job[p].fp] \in Int /\ Gap(job[p].fp) \in Nat
      BY <3>1, Numbers, WindowFact DEF IInv
    <3> QED BY <2>1, <3>2, <1>1 DEF IInv, Apart
  <2> QED BY <2>1, <1>1 DEF Apart, Claimed, Gap
<1>6. Spaced'
  <2>1. ASSUME NEW f \in Fingerprints, countedAt[f] # Never
        PROVE  IF events[f] = 0 THEN (now + 1) - countedAt[f] >= Gap(f)
                                ELSE events[f] - countedAt[f] >= Gap(f)
    <3>1. countedAt[f] \in Int /\ Gap(f) \in Nat
      BY Numbers, WindowFact DEF IInv
    <3> QED BY <2>1, <3>1, <1>1 DEF IInv, Spaced
  <2> QED BY <2>1, <1>1 DEF Spaced, Gap
<1> QED BY <1>2, <1>3, <1>4, <1>5, <1>6 DEF IInv

LEMMA NextIInv == IInv /\ [Next]_vars => IInv'
<1> SUFFICES ASSUME IInv, [Next]_vars PROVE IInv'
  OBVIOUS
<1>1. ASSUME NEW p \in Procs, NEW f \in Fingerprints, Beacon(p, f) PROVE IInv'
  BY <1>1, BeaconStep
<1>2. ASSUME NEW p \in Procs, ClaimEvent(p) PROVE IInv'
  BY <1>2, ClaimStep
<1>3. ASSUME NEW p \in Procs, RegisterView(p) PROVE IInv'
  BY <1>3, RegisterViewStep
<1>4. ASSUME NEW p \in Procs, RegisterClick(p) PROVE IInv'
  BY <1>4, RegisterClickStep
<1>5. ASSUME NEW p \in Procs, Fail(p) PROVE IInv'
  BY <1>5, FailStep
<1>6. ASSUME NEW l \in Links, DeleteLink(l) \/ \E on \in BOOLEAN : SetEnabled(l, on)
      PROVE  IInv'
  BY <1>6, EditStep
<1>7. CASE BeginPurge
  BY <1>7, BeginPurgeStep
<1>8. CASE PurgeExpiredEvents
  BY <1>8, PurgeStep
<1>9. CASE Tick
  BY <1>9, TickStep
<1>10. CASE UNCHANGED vars
  BY <1>10 DEF vars, counters, IInv, TypeOK, Readings, Holds, Apart, Spaced, Claimed, Gap
<1> QED BY <1>1, <1>2, <1>3, <1>4, <1>5, <1>6, <1>7, <1>8, <1>9, <1>10 DEF Next

(* Rows, beacons under way and history stay related as described above. *)
THEOREM Invariance == Spec => []IInv
BY InitIInv, NextIInv, PTL DEF Spec

(* Types, and only links that exist are shown (links, view_events). *)
THEOREM TypeCorrect == Spec => []TypeOK
<1>1. IInv => TypeOK
  BY DEF IInv
<1> QED BY <1>1, Invariance, PTL

(* A visitor is counted at most once per window, less Lag: integrity.go's    *)
(* third check, against every overlap of beacons, failures and purges.       *)
THEOREM OncePerWindow == Spec => CountedApart
<1> DEFINE A == \A p \in Procs :
                  LET f == job[p].fp IN
                  job[p].at = "claimed" /\ job'[p] # job[p] /\ total' # total
                    /\ countedAt[f] # Never =>
                    now - countedAt[f] >= Window(f) - Lag
<1>1. IInv /\ [Next]_vars => [A]_vars
  BY DEF IInv, Apart, Claimed, Gap
<1> QED BY <1>1, Invariance, PTL DEF Spec, CountedApart

(* What a step does to claims and history, one lemma per kind of step. *)
LEMMA ExplainedQuietly ==
  ASSUME LossExplained,
         \A f \in Fingerprints : events'[f] \in {0, events[f]},
         \A p \in Procs : Claimed(p) => job'[p] = job[p],
         lost \subseteq lost', countedAt' = countedAt
  PROVE  LossExplained'
<1>1. ASSUME NEW f \in Fingerprints, events'[f] # 0
      PROVE  \/ \E p \in Procs : job'[p].at = "claimed" /\ job'[p].fp = f
             \/ countedAt'[f] # Never /\ events'[f] <= countedAt'[f] + Window(f)
             \/ f \in lost'
  <2>1. events'[f] = events[f] /\ events[f] # 0
    BY <1>1
  <2>2. CASE \E p \in Procs : job[p].at = "claimed" /\ job[p].fp = f
    BY <2>2 DEF Claimed
  <2>3. CASE countedAt[f] # Never /\ events[f] <= countedAt[f] + Window(f)
    BY <2>1, <2>3
  <2>4. CASE f \in lost
    BY <2>4
  <2> QED BY <2>1, <2>2, <2>3, <2>4 DEF LossExplained
<1> QED BY <1>1 DEF LossExplained, Window

(* A beacon p that ends its claim explains it; the other claims stay. *)
LEMMA ExplainedEnding ==
  ASSUME IInv, LossExplained, NEW p \in Procs, Claimed(p), events' = events,
         \A q \in Procs \ {p} : job'[q] = job[q],
         lost \subseteq lost',
         \A g \in Fingerprints \ {job[p].fp} : countedAt'[g] = countedAt[g],
         \/ job[p].fp \in lost'
         \/ countedAt'[job[p].fp] = now
  PROVE  LossExplained'
<1>1. /\ job[p].fp \in Fingerprints /\ now \in Nat /\ job[p].stamp \in Nat
      /\ job[p].stamp <= now /\ Window(job[p].fp) \in Nat
      /\ events[job[p].fp] = job[p].stamp + Window(job[p].fp)
  <2>1. job[p] # Idle
    BY DEF Claimed, Idle
  <2>2. job[p].fp \in Fingerprints /\ job[p].stamp <= now
    BY <2>1 DEF IInv, Readings
  <2>3. now \in Nat /\ job[p].stamp \in Nat
    BY Numbers DEF IInv
  <2> QED BY <2>2, <2>3, WindowFact DEF IInv, Holds
<1>2. ASSUME NEW f \in Fingerprints, events[f] # 0
      PROVE  \/ \E q \in Procs : job'[q].at = "claimed" /\ job'[q].fp = f
             \/ countedAt'[f] # Never /\ events[f] <= countedAt'[f] + Window(f)
             \/ f \in lost'
  <2>1. CASE f = job[p].fp
    <3>1. CASE f \in lost'
      BY <3>1
    <3>2. CASE countedAt'[f] = now
      BY <3>2, <2>1, <1>1 DEF Never
    <3> QED BY <3>1, <3>2, <2>1
  <2>2. CASE f # job[p].fp
    <3>1. countedAt'[f] = countedAt[f]
      BY <2>2
    <3>2. CASE \E q \in Procs : job[q].at = "claimed" /\ job[q].fp = f
      BY <3>2, <2>2
    <3> QED BY <3>1, <3>2, <1>2 DEF LossExplained
  <2> QED BY <2>1, <2>2
<1> QED BY <1>2 DEF LossExplained, Window

LEMMA NextExplained == IInv /\ LossExplained /\ [Next]_vars => LossExplained'
<1> SUFFICES ASSUME IInv, LossExplained, [Next]_vars PROVE LossExplained'
  OBVIOUS
<1>1. job \in [Procs -> Job] /\ events \in [Fingerprints -> Nat]
      /\ countedAt \in [Fingerprints -> Nat \cup {Never}]
  BY DEF IInv, TypeOK
<1>2. ASSUME NEW p \in Procs, NEW f \in Fingerprints, Beacon(p, f) PROVE LossExplained'
  BY <1>1, <1>2, ExplainedQuietly DEF Beacon, counters, Claimed, Idle
<1>3. ASSUME NEW p \in Procs, ClaimEvent(p) PROVE LossExplained'
  <2> DEFINE f == job[p].fp
  <2>1. CASE ~(events[f] <= job[p].stamp)
    BY <1>1, <1>3, <2>1, ExplainedQuietly DEF ClaimEvent, counters, Claimed
  <2>2. CASE events[f] <= job[p].stamp
    <3>1. /\ job'[p].at = "claimed" /\ job'[p].fp = f
          /\ \A q \in Procs : q # p => job'[q] = job[q]
          /\ \A g \in Fingerprints : g # f => events'[g] = events[g]
          /\ lost' = lost \ {f} /\ countedAt' = countedAt /\ job[p].at = "timed"
      BY <1>1, <1>3, <2>2 DEF ClaimEvent, counters
    <3> HIDE DEF f
    <3>2. ASSUME NEW g \in Fingerprints, events'[g] # 0
          PROVE  \/ \E q \in Procs : job'[q].at = "claimed" /\ job'[q].fp = g
                 \/ countedAt'[g] # Never /\ events'[g] <= countedAt'[g] + Window(g)
                 \/ g \in lost'
      <4>1. CASE g = f
        BY <4>1, <3>1
      <4>2. CASE g # f
        <5>1. events'[g] = events[g] /\ events[g] # 0
          BY <4>2, <3>1, <3>2
        <5>2. CASE \E q \in Procs : job[q].at = "claimed" /\ job[q].fp = g
          <6>1. PICK q \in Procs : job[q].at = "claimed" /\ job[q].fp = g
            BY <5>2
          <6>2. job'[q] = job[q]
            BY <6>1, <3>1
          <6> QED BY <6>1, <6>2
        <5>3. CASE countedAt[g] # Never /\ events[g] <= countedAt[g] + Window(g)
          BY <5>1, <5>3, <3>1
        <5>4. CASE g \in lost
          BY <5>4, <4>2, <3>1
        <5> QED BY <5>1, <5>2, <5>3, <5>4 DEF LossExplained
      <4> QED BY <4>1, <4>2
    <3> QED BY <3>2 DEF LossExplained, Window
  <2> QED BY <2>1, <2>2
<1>4. ASSUME NEW p \in Procs, RegisterView(p) PROVE LossExplained'
  <2>1. Claimed(p)
    BY <1>4 DEF RegisterView, Claimed
  <2>2. job[p].fp \in Fingerprints
    BY <2>1 DEF IInv, Readings, Claimed, Idle
  <2> QED BY <1>1, <1>4, <2>1, <2>2, ExplainedEnding DEF RegisterView
<1>5. ASSUME NEW p \in Procs, RegisterClick(p) PROVE LossExplained'
  <2>1. Claimed(p)
    BY <1>5 DEF RegisterClick, Claimed
  <2>2. job[p].fp \in Fingerprints
    BY <2>1 DEF IInv, Readings, Claimed, Idle
  <2>3. events' = events /\ lost \subseteq lost' /\ \A q \in Procs \ {p} : job'[q] = job[q]
    BY <1>1, <1>5 DEF RegisterClick
  <2>4. CASE job[p].fp[2] \in enabled
    <3>1. countedAt' = [countedAt EXCEPT ![job[p].fp] = now]
      BY <1>5, <2>4 DEF RegisterClick
    <3> QED BY <1>1, <2>1, <2>2, <2>3, <3>1, ExplainedEnding
  <2>5. CASE job[p].fp[2] \notin enabled
    <3>1. countedAt' = countedAt /\ job[p].fp \in lost'
      BY <1>5, <2>5 DEF RegisterClick, counters
    <3> QED BY <2>1, <2>3, <3>1, ExplainedEnding
  <2> QED BY <2>4, <2>5
<1>6. ASSUME NEW p \in Procs, Fail(p) PROVE LossExplained'
  <2>1. CASE Claimed(p)
    <3>1. /\ events' = events /\ countedAt' = countedAt /\ lost \subseteq lost'
          /\ \A q \in Procs \ {p} : job'[q] = job[q]
          /\ job[p].fp \in lost'
      BY <1>1, <1>6, <2>1 DEF Fail, counters, Claimed
    <3> QED BY <2>1, <3>1, ExplainedEnding
  <2>2. CASE ~Claimed(p)
    BY <1>1, <1>6, <2>2, ExplainedQuietly DEF Fail, counters, Claimed
  <2> QED BY <2>1, <2>2
<1>7. ASSUME NEW l \in Links, DeleteLink(l) \/ \E on \in BOOLEAN : SetEnabled(l, on)
      PROVE  LossExplained'
  BY <1>7, ExplainedQuietly DEF DeleteLink, SetEnabled, counters
<1>8. CASE BeginPurge
  BY <1>8, ExplainedQuietly DEF BeginPurge, counters
<1>9. CASE PurgeExpiredEvents
  BY <1>9, ExplainedQuietly DEF PurgeExpiredEvents, counters
<1>10. CASE Tick
  BY <1>10, ExplainedQuietly DEF Tick, counters
<1>11. CASE UNCHANGED vars
  BY <1>11, ExplainedQuietly DEF vars, counters
<1> QED BY <1>2, <1>3, <1>4, <1>5, <1>6, <1>7, <1>8, <1>9, <1>10, <1>11 DEF Next

(* A claim that keeps a visitor away without having been counted is one whose *)
(* beacon failed, or whose link was hidden or gone (public.go's two statements). *)
THEOREM LossesExplained == Spec => []LossExplained
<1>1. Init => LossExplained
  BY DEF Init, LossExplained
<1> QED BY <1>1, NextExplained, Invariance, PTL DEF Spec

-----------------------------------------------------------------------------
(* The dashboard.  What it adds up at three moments is ordered because the   *)
(* counters are: a counter only grows, the rows of all days have every count *)
(* the totals have, and the links never show more clicks than were counted   *)
(* (a deleted link takes its own along).  The chart and the rows before its  *)
(* first day are the rows of all days when it is read, and a row that is     *)
(* added to afterwards only gets bigger.                                     *)

PerLink == [l \in present |-> linkClicks[l]]

(* A list of links shows at most n clicks. *)
AtMost(perLink, n) ==
  /\ IsFiniteSet(Clicks(perLink))
  /\ Cardinality(Clicks(perLink)) <= n

Counted == total = daily /\ AtMost(PerLink, daily.clicks)

Read ==
  /\ board.at # "none" => board.total.views <= daily.views /\ board.total.clicks <= daily.clicks
  /\ AtMost(board.perLink, daily.clicks)
  /\ board.total \in Counts

Dated ==
  /\ today \in 1..MaxDay
  /\ dawn \in [1..MaxDay -> Counts]
  /\ board.day \in 1..today
  /\ board.daily.views \in Int /\ board.daily.clicks \in Int

DashIInv == IInv /\ Counted /\ Read /\ Dated /\ ChartCoversTotals

LEMMA AtMostMore ==
  ASSUME NEW f, NEW n \in Nat, NEW m \in Nat, n <= m, AtMost(f, n)
  PROVE  AtMost(f, m) /\ Cardinality(Clicks(f)) \in Nat
BY FS_CardinalityType DEF AtMost

(* The clicks of the links, when one of them gets one more. *)
LEMMA OneMoreClick ==
  ASSUME NEW S, NEW f \in [S -> Nat], NEW l \in S, NEW n \in Nat, AtMost(f, n)
  PROVE  AtMost([f EXCEPT ![l] = @ + 1], n + 1)
<1> DEFINE g == [f EXCEPT ![l] = @ + 1]
           c == <<l, f[l] + 1>>
<1>1. /\ g \in [S -> Nat] /\ f[l] \in Nat
      /\ \A k \in S : g[k] = IF k = l THEN f[l] + 1 ELSE f[k]
  OBVIOUS
<1>2. Clicks(g) = Clicks(f) \cup {c}
  <2> HIDE DEF g
  <2>1. \A k \in S : k # l => {k} \X (1..g[k]) = {k} \X (1..f[k])
    BY <1>1
  <2>2. 1..(f[l] + 1) = (1..f[l]) \cup {f[l] + 1}
    BY <1>1
  <2>3. {l} \X (1..g[l]) = ({l} \X (1..f[l])) \cup {c}
    BY <1>1, <2>2
  <2>4. ASSUME NEW d PROVE d \in Clicks(g) <=> d \in Clicks(f) \cup {c}
    <3>1. d \in Clicks(g) <=> \E k \in S : d \in {k} \X (1..g[k])
      BY <1>1 DEF Clicks
    <3>2. d \in Clicks(f) <=> \E k \in S : d \in {k} \X (1..f[k])
      BY DEF Clicks
    <3>3. CASE \E k \in S : d \in {k} \X (1..g[k])
      <4>1. PICK k \in S : d \in {k} \X (1..g[k])
        BY <3>3
      <4>2. d \in {c} \/ d \in {k} \X (1..f[k])
        BY <4>1, <2>1, <2>3
      <4> QED BY <3>1, <3>2, <3>3, <4>2
    <3>4. CASE \E k \in S : d \in {k} \X (1..f[k])
      <4>1. PICK k \in S : d \in {k} \X (1..f[k])
        BY <3>4
      <4>2. d \in {k} \X (1..g[k])
        BY <4>1, <2>1, <2>3
      <4> QED BY <3>1, <3>2, <3>4, <4>2
    <3>5. d \in {c} => d \in {l} \X (1..g[l])
      BY <2>3
    <3>6. d \in Clicks(f) \cup {c} <=> d \in Clicks(f) \/ d \in {c}
      OBVIOUS
    <3> HIDE DEF c
    <3> QED BY <3>1, <3>2, <3>3, <3>4, <3>5, <3>6
  <2> QED BY <2>4
<1> HIDE DEF g, c
<1>3. /\ IsFiniteSet(Clicks(f) \cup {c})
      /\ Cardinality(Clicks(f) \cup {c}) =
           IF c \in Clicks(f) THEN Cardinality(Clicks(f)) ELSE Cardinality(Clicks(f)) + 1
  BY FS_AddElement DEF AtMost
<1>4. Cardinality(Clicks(f)) \in Nat
  BY FS_CardinalityType DEF AtMost
<1>5. AtMost(g, n + 1)
  BY <1>2, <1>3, <1>4 DEF AtMost
<1> QED BY <1>5 DEF g

(* Without the clicks of some links. *)
LEMMA FewerClicks ==
  ASSUME NEW f, NEW g, NEW n \in Nat, AtMost(f, n),
         DOMAIN g \subseteq DOMAIN f, \A k \in DOMAIN g : g[k] = f[k]
  PROVE  AtMost(g, n)
<1>1. Clicks(g) \subseteq Clicks(f)
  BY DEF Clicks
<1>2. IsFiniteSet(Clicks(g)) /\ Cardinality(Clicks(g)) <= Cardinality(Clicks(f))
  BY <1>1, FS_Subset DEF AtMost
<1>3. Cardinality(Clicks(g)) \in Nat /\ Cardinality(Clicks(f)) \in Nat
  BY <1>2, FS_CardinalityType DEF AtMost
<1> QED BY <1>2, <1>3 DEF AtMost

(* A step counts a click, or a view, or nothing; the chart never loses any. *)
ChartGrows == daily.views <= daily'.views /\ daily.clicks <= daily'.clicks

LEMMA NextCounted ==
  ASSUME IInv, Counted, [Next]_vars
  PROVE  Counted' /\ ChartGrows
<1>1. /\ daily \in Counts /\ daily.views \in Nat /\ daily.clicks \in Nat
      /\ total = daily /\ AtMost(PerLink, daily.clicks)
      /\ PerLink \in [present -> Nat]
  BY DEF IInv, TypeOK, Counts, Counted, PerLink
<1>2. CASE UNCHANGED <<total, daily, present, linkClicks>>
  BY <1>1, <1>2 DEF Counted, PerLink, AtMost, ChartGrows
<1>3. ASSUME NEW p \in Procs, RegisterView(p) PROVE Counted' /\ ChartGrows
  <2>1. total' = [total EXCEPT !.views = @ + 1] /\ daily' = [daily EXCEPT !.views = @ + 1]
        /\ UNCHANGED <<present, linkClicks>>
    BY <1>3 DEF RegisterView
  <2>2. daily'.views = daily.views + 1 /\ daily'.clicks = daily.clicks /\ total' = daily'
    BY <2>1, <1>1 DEF Counts
  <2>3. PerLink' = PerLink
    BY <2>1 DEF PerLink
  <2> QED BY <1>1, <2>2, <2>3 DEF Counted, AtMost, ChartGrows
<1>4. ASSUME NEW p \in Procs, RegisterClick(p), job[p].fp[2] \in enabled
      PROVE  Counted' /\ ChartGrows
  <2> DEFINE l == job[p].fp[2]
  <2>1. /\ total' = [total EXCEPT !.clicks = @ + 1] /\ daily' = [daily EXCEPT !.clicks = @ + 1]
        /\ linkClicks' = [linkClicks EXCEPT ![l] = @ + 1] /\ present' = present
    BY <1>4 DEF RegisterClick
  <2>2. daily'.views = daily.views /\ daily'.clicks = daily.clicks + 1 /\ total' = daily'
    BY <2>1, <1>1 DEF Counts
  <2>3. l \in present /\ present \subseteq Links /\ linkClicks \in [Links -> Nat]
    BY <1>4 DEF IInv, TypeOK
  <2>4. PerLink' = [PerLink EXCEPT ![l] = @ + 1]
    <3> HIDE DEF l
    <3> QED BY <2>1, <2>3 DEF PerLink
  <2>5. AtMost(PerLink', daily.clicks + 1)
    <3> HIDE DEF l
    <3> QED BY <2>3, <2>4, <1>1, OneMoreClick
  <2> QED BY <1>1, <2>2, <2>5 DEF Counted, AtMost, ChartGrows
<1>5. ASSUME NEW l \in Links, DeleteLink(l) PROVE Counted' /\ ChartGrows
  <2>1. /\ present' = present \ {l} /\ UNCHANGED <<total, daily>>
        /\ \A k \in present \ {l} : linkClicks'[k] = linkClicks[k]
    BY <1>5 DEF DeleteLink, IInv, TypeOK
  <2>2. /\ DOMAIN (PerLink') = present \ {l} /\ DOMAIN PerLink = present
        /\ \A k \in present \ {l} : PerLink'[k] = PerLink[k]
    BY <2>1 DEF PerLink
  <2>3. AtMost(PerLink', daily.clicks)
    BY <2>2, <1>1, FewerClicks
  <2> QED BY <1>1, <2>1, <2>3 DEF Counted, AtMost, ChartGrows
<1>6. ASSUME NEW p \in Procs, RegisterClick(p), job[p].fp[2] \notin enabled
      PROVE  UNCHANGED <<total, daily, present, linkClicks>>
  BY <1>6 DEF RegisterClick, counters
<1>7. ASSUME NEW p \in Procs, (\E f \in Fingerprints : Beacon(p, f)) \/ ClaimEvent(p) \/ Fail(p)
      PROVE  UNCHANGED <<total, daily, present, linkClicks>>
  BY <1>7 DEF Beacon, ClaimEvent, Fail, counters
<1>8. ASSUME NEW l \in Links, NEW on \in BOOLEAN, SetEnabled(l, on)
      PROVE  UNCHANGED <<total, daily, present, linkClicks>>
  BY <1>8 DEF SetEnabled, counters
<1>9. ASSUME BeginPurge \/ PurgeExpiredEvents \/ Tick \/ UNCHANGED vars
      PROVE  UNCHANGED <<total, daily, present, linkClicks>>
  BY <1>9 DEF BeginPurge, PurgeExpiredEvents, Tick, vars, counters
<1> QED BY <1>2, <1>3, <1>4, <1>5, <1>6, <1>7, <1>8, <1>9 DEF Next

(* The first day of a chart is not after the day it is drawn on. *)
LEMMA FirstDayBefore ==
  ASSUME NEW d \in Nat \ {0}
  PROVE  FirstDay(d) \in 1..d
BY DashAssumption DEF FirstDay

(* A count goes to a row of one day: the sums up to a day do not shrink. *)
LEMMA BookedGrows ==
  ASSUME Dated, Booked, ChartGrows, daily \in Counts, daily' \in Counts
  PROVE  /\ dawn' \in [1..MaxDay -> Counts]
         /\ \A e \in 1..MaxDay : /\ dawn[e].views <= dawn'[e].views
                                 /\ dawn[e].clicks <= dawn'[e].clicks
<1>1. \A e \in 1..MaxDay : dawn[e] \in Counts
  BY DEF Dated
<1>2. \A c \in Counts : c.views \in Nat /\ c.clicks \in Nat
  BY DEF Counts
<1>3. CASE dawn' = dawn
  <2>1. \A e \in 1..MaxDay : dawn[e].views <= dawn[e].views /\ dawn[e].clicks <= dawn[e].clicks
    BY <1>1, <1>2
  <2> QED BY <1>3, <2>1 DEF Dated
<1>4. CASE \E d : dawn' = [e \in 1..MaxDay |->
                             IF d < e /\ e <= today THEN Plus(dawn[e], Minus(daily', daily))
                                                   ELSE dawn[e]]
  <2>1. PICK d : dawn' = [e \in 1..MaxDay |->
                            IF d < e /\ e <= today THEN Plus(dawn[e], Minus(daily', daily))
                                                  ELSE dawn[e]]
    BY <1>4
  <2>2. ASSUME NEW e \in 1..MaxDay
        PROVE  LET s == Plus(dawn[e], Minus(daily', daily)) IN
               s \in Counts /\ dawn[e].views <= s.views /\ dawn[e].clicks <= s.clicks
    <3> DEFINE v == dawn[e].views + (daily'.views - daily.views)
               k == dawn[e].clicks + (daily'.clicks - daily.clicks)
    <3>1. /\ dawn[e].views \in Nat /\ dawn[e].clicks \in Nat
          /\ daily.views \in Nat /\ daily.clicks \in Nat
          /\ daily'.views \in Nat /\ daily'.clicks \in Nat
      BY <1>1, <1>2
    <3>2. v \in Nat /\ k \in Nat /\ dawn[e].views <= v /\ dawn[e].clicks <= k
      BY <3>1 DEF ChartGrows
    <3>3. Plus(dawn[e], Minus(daily', daily)) = [views |-> v, clicks |-> k]
      BY DEF Plus, Minus
    <3> HIDE DEF v, k
    <3> QED BY <3>2, <3>3 DEF Counts
  <2>3. ASSUME NEW e \in 1..MaxDay
        PROVE  /\ dawn'[e] \in Counts
               /\ dawn[e].views <= dawn'[e].views /\ dawn[e].clicks <= dawn'[e].clicks
    <3>1. dawn'[e] = Plus(dawn[e], Minus(daily', daily)) \/ dawn'[e] = dawn[e]
      BY <2>1
    <3>2. dawn[e].views <= dawn[e].views /\ dawn[e].clicks <= dawn[e].clicks
      BY <1>1, <1>2
    <3> QED BY <1>1, <2>2, <3>1, <3>2
  <2>4. dawn' = [e \in 1..MaxDay |-> dawn'[e]]
    BY <2>1
  <2> QED BY <2>3, <2>4
<1> QED BY <1>3, <1>4 DEF Booked

LEMMA DashStepOfCounting == [DashNext]_dashVars => [Next]_vars
BY DEF DashNext, Midnight, ReadTotals, ReadLinks, ReadChart, dashVars, Next

(* The dashboard only reads: seen without it, a behaviour is one of Counting. *)
THEOREM DashImplementsCounting == DashSpec => Spec
<1>1. DashInit => Init
  BY DEF DashInit
<1> QED BY <1>1, DashStepOfCounting, PTL DEF DashSpec, Spec

LEMMA DashInitIInv == DashInit => DashIInv
<1> SUFFICES ASSUME DashInit PROVE DashIInv
  OBVIOUS
<1>1. IInv
  BY InitIInv DEF DashInit
<1>2. Clicks(PerLink) = {}
  <2>1. DOMAIN PerLink = Links /\ \A l \in Links : PerLink[l] = 0
    BY DEF DashInit, Init, PerLink
  <2>2. 1..0 = {}
    OBVIOUS
  <2>3. \A l \in Links : {l} \X (1..0) = {}
    BY <2>2
  <2> QED BY <2>1, <2>3 DEF Clicks
<1>3. Clicks(<<>>) = {}
  <2>1. DOMAIN <<>> = {}
    OBVIOUS
  <2> QED BY <2>1 DEF Clicks
<1>4. Counted
  BY <1>2, FS_EmptySet DEF Counted, AtMost, DashInit, Init, Zero
<1>5. /\ board.at = "none" /\ board.perLink = <<>>
      /\ board.total = [views |-> 0, clicks |-> 0] /\ daily.clicks = 0
      /\ board.daily = [views |-> 0, clicks |-> 0] /\ board.day = 1
  BY DEF DashInit, Init, NoBoard, Zero
<1>6. AtMost(board.perLink, daily.clicks)
  <2>1. Clicks(board.perLink) = {}
    BY <1>3, <1>5
  <2>2. IsFiniteSet({}) /\ Cardinality({}) = 0
    BY FS_EmptySet
  <2> QED BY <2>1, <2>2, <1>5 DEF AtMost
<1>7. Read /\ ChartCoversTotals
  BY <1>5, <1>6 DEF Read, ChartCoversTotals, Counts
<1>8. Dated
  <2>1. today = 1 /\ dawn = [d \in 1..MaxDay |-> Zero] /\ Zero \in Counts
    BY DEF DashInit, Zero, Counts
  <2> QED BY <1>5, <2>1, DashAssumption DEF Dated
<1> QED BY <1>1, <1>4, <1>7, <1>8 DEF DashIInv

LEMMA DashNextIInv == DashIInv /\ [DashNext]_dashVars => DashIInv'
<1> SUFFICES ASSUME DashIInv, [DashNext]_dashVars PROVE DashIInv'
  OBVIOUS
<1>1. IInv' /\ Counted' /\ ChartGrows
  BY NextIInv, NextCounted, DashStepOfCounting DEF DashIInv
<1>2. /\ daily.views \in Nat /\ daily.clicks \in Nat
      /\ board.total.views \in Nat /\ board.total.clicks \in Nat
      /\ daily \in Counts /\ daily' \in Counts
  BY <1>1 DEF DashIInv, IInv, TypeOK, Counts, Read
<1>3. daily'.views \in Nat /\ daily'.clicks \in Nat
  BY <1>1 DEF IInv, TypeOK, Counts
<1>4. AtMost(board.perLink, daily'.clicks)
  BY <1>1, <1>2, <1>3, AtMostMore DEF DashIInv, Read, ChartGrows
<1>4a. Cardinality(Clicks(board.perLink)) \in Nat
  BY FS_CardinalityType DEF DashIInv, Read, AtMost
<1>5. /\ today \in 1..MaxDay /\ board.day \in 1..today /\ MaxDay \in Nat
      /\ dawn \in [1..MaxDay -> Counts]
      /\ board.daily.views \in Int /\ board.daily.clicks \in Int
  BY DashAssumption DEF DashIInv, Dated
<1>6. /\ FirstDay(board.day) \in 1..today /\ FirstDay(today) \in 1..today
      /\ FirstDay(board.day) \in 1..MaxDay /\ FirstDay(today) \in 1..MaxDay
  <2>1. FirstDay(board.day) \in 1..board.day /\ FirstDay(today) \in 1..today
    BY <1>5, FirstDayBefore
  <2> QED BY <1>5, <2>1
<1>7. /\ \A e \in 1..MaxDay : dawn[e].views \in Nat /\ dawn[e].clicks \in Nat
  BY <1>5 DEF Counts
<1>8. ASSUME board' = board,
             dawn' \in [1..MaxDay -> Counts], today' \in today..MaxDay,
             dawn[FirstDay(board.day)].views <= dawn'[FirstDay(board.day)].views,
             dawn[FirstDay(board.day)].clicks <= dawn'[FirstDay(board.day)].clicks
      PROVE  DashIInv'
  <2>1. Read'
    BY <1>1, <1>2, <1>3, <1>4, <1>8 DEF DashIInv, Read, ChartGrows, AtMost, Clicks
  <2>2. Dated'
    BY <1>5, <1>8 DEF Dated
  <2>3. ChartCoversTotals'
    <3> DEFINE f == FirstDay(board.day)
    <3>1. /\ dawn[f].views \in Nat /\ dawn[f].clicks \in Nat
          /\ dawn'[f].views \in Nat /\ dawn'[f].clicks \in Nat
      BY <1>6, <1>7, <1>8 DEF Counts
    <3>2. board.at = "done" =>
            /\ board.total.views <= board.daily.views + dawn[f].views
            /\ board.total.clicks <= board.daily.clicks + dawn[f].clicks
            /\ Cardinality(Clicks(board.perLink)) <= board.daily.clicks + dawn[f].clicks
      BY DEF DashIInv, ChartCoversTotals, Plus
    <3>3. board.at = "done" =>
            /\ board.total.views <= board.daily.views + dawn'[f].views
            /\ board.total.clicks <= board.daily.clicks + dawn'[f].clicks
            /\ Cardinality(Clicks(board.perLink)) <= board.daily.clicks + dawn'[f].clicks
      <4>1. /\ board.total.views \in Int /\ board.total.clicks \in Int
            /\ Cardinality(Clicks(board.perLink)) \in Int
            /\ board.daily.views \in Int /\ board.daily.clicks \in Int
            /\ dawn[f].views \in Int /\ dawn[f].clicks \in Int
            /\ dawn'[f].views \in Int /\ dawn'[f].clicks \in Int
        BY <1>2, <1>4a, <1>5, <3>1
      <4>2. dawn[f].views <= dawn'[f].views /\ dawn[f].clicks <= dawn'[f].clicks
        BY <1>8
      <4>3. \A a, b, c, d \in Int : a <= b + c /\ c <= d => a <= b + d
        OBVIOUS
      <4> QED BY ONLY <3>2, <4>1, <4>2, <4>3
    <3>4. FirstDay(board'.day) = f /\ Clicks(board'.perLink) = Clicks(board.perLink)
      BY <1>8
    <3> QED BY <1>8, <3>3, <3>4 DEF ChartCoversTotals, Plus, Clicks, FirstDay
  <2> QED BY <1>1, <2>1, <2>2, <2>3 DEF DashIInv
<1>9. CASE Next /\ Booked /\ UNCHANGED <<board, today>>
  <2>1. /\ dawn' \in [1..MaxDay -> Counts]
        /\ \A e \in 1..MaxDay : /\ dawn[e].views <= dawn'[e].views
                                /\ dawn[e].clicks <= dawn'[e].clicks
    BY <1>1, <1>2, <1>9, BookedGrows DEF DashIInv
  <2>2. today' \in today..MaxDay
    BY <1>5, <1>9
  <2> QED BY <1>6, <1>8, <1>9, <2>1, <2>2
<1>10. CASE UNCHANGED dashVars
  <2>1. dawn' = dawn /\ today' = today /\ board' = board
    BY <1>10 DEF dashVars
  <2>2. today' \in today..MaxDay
    BY <1>5, <2>1
  <2>3. /\ dawn[FirstDay(board.day)].views <= dawn'[FirstDay(board.day)].views
        /\ dawn[FirstDay(board.day)].clicks <= dawn'[FirstDay(board.day)].clicks
    BY <1>6, <1>7, <2>1
  <2> QED BY <1>5, <1>8, <2>1, <2>2, <2>3
<1>11. CASE Midnight
  <2>1. /\ board' = board /\ today < MaxDay /\ today' = today + 1
        /\ dawn' = [dawn EXCEPT ![today + 1] = daily]
    BY <1>11 DEF Midnight
  <2>2. today' \in today..MaxDay /\ dawn' \in [1..MaxDay -> Counts]
    BY <1>2, <1>5, <2>1
  <2>3. dawn'[FirstDay(board.day)] = dawn[FirstDay(board.day)]
    BY <1>5, <1>6, <2>1
  <2>4. /\ dawn[FirstDay(board.day)].views <= dawn'[FirstDay(board.day)].views
        /\ dawn[FirstDay(board.day)].clicks <= dawn'[FirstDay(board.day)].clicks
    BY <1>6, <1>7, <2>3
  <2> QED BY <1>8, <2>1, <2>2, <2>4
<1>12. ASSUME UNCHANGED <<today, dawn>>, board'.day \in 1..today,
              board'.daily.views \in Int /\ board'.daily.clicks \in Int
       PROVE  Dated'
  BY <1>5, <1>12 DEF Dated
<1>13. CASE ReadTotals
  <2>1. board.at = "none" /\ board' = [board EXCEPT !.at = "totals", !.total = total]
        /\ daily' = daily /\ total = daily /\ total \in Counts /\ UNCHANGED <<today, dawn>>
    BY <1>13 DEF ReadTotals, vars, counters, DashIInv, Counted, IInv, TypeOK
  <2>2. /\ board'.at = "totals" /\ board'.total = daily /\ board'.perLink = board.perLink
        /\ board'.day = board.day /\ board'.daily = board.daily
    BY <2>1 DEF DashIInv, Read
  <2>3. Read'
    BY <1>2, <1>4, <2>1, <2>2 DEF Read, AtMost, Clicks
  <2>4. Dated'
    BY <1>5, <1>12, <2>1, <2>2
  <2> QED BY <1>1, <2>2, <2>3, <2>4 DEF DashIInv, ChartCoversTotals
<1>14. CASE ReadLinks
  <2>1. /\ board.at = "totals" /\ daily' = daily /\ UNCHANGED <<today, dawn>>
        /\ board' = [board EXCEPT !.at = "links", !.perLink = PerLink]
    BY <1>14 DEF ReadLinks, vars, counters, PerLink
  <2>2. /\ board'.at = "links" /\ board'.total = board.total /\ board'.perLink = PerLink
        /\ board'.day = board.day /\ board'.daily = board.daily
    BY <2>1
  <2>3. Read'
    BY <1>2, <2>1, <2>2 DEF DashIInv, Counted, Read, AtMost, Clicks
  <2>4. Dated'
    BY <1>5, <1>12, <2>1, <2>2
  <2> QED BY <1>1, <2>2, <2>3, <2>4 DEF DashIInv, ChartCoversTotals
<1>15. CASE ReadChart
  <2> DEFINE f == FirstDay(today)
  <2>1. /\ board.at = "links" /\ daily' = daily /\ UNCHANGED <<today, dawn>>
        /\ board' = [board EXCEPT !.at = "done", !.day = today, !.daily = Minus(daily, dawn[f])]
    BY <1>15 DEF ReadChart, vars, counters
  <2> HIDE DEF f
  <2>2. /\ board'.at = "done" /\ board'.total = board.total /\ board'.perLink = board.perLink
        /\ board'.day = today /\ board'.daily = Minus(daily, dawn[f])
    BY <2>1
  <2>3. /\ board'.daily.views = daily.views - dawn[f].views
        /\ board'.daily.clicks = daily.clicks - dawn[f].clicks
    BY <2>2 DEF Minus
  <2>4. Read'
    BY <1>2, <2>1, <2>2 DEF DashIInv, Read, AtMost, Clicks
  <2>5. dawn[f].views \in Nat /\ dawn[f].clicks \in Nat
    BY <1>6, <1>7 DEF f
  <2>6. Dated'
    <3>1. board'.daily.views \in Int /\ board'.daily.clicks \in Int
      BY <1>2, <2>3, <2>5
    <3>2. board'.day \in 1..today
      BY <1>5, <2>2
    <3> QED BY <1>12, <2>1, <3>1, <3>2
  <2>7. ChartCoversTotals'
    <3>1. /\ board'.daily.views + dawn[f].views = daily.views
          /\ board'.daily.clicks + dawn[f].clicks = daily.clicks
      BY <1>2, <2>3, <2>5
    <3>2. /\ board.total.views <= daily.views /\ board.total.clicks <= daily.clicks
          /\ Cardinality(Clicks(board.perLink)) <= daily.clicks
      BY <2>1 DEF DashIInv, Read, AtMost
    <3>3. Clicks(board'.perLink) = Clicks(board.perLink) /\ FirstDay(board'.day) = f
      BY <2>2 DEF f
    <3>4. dawn' = dawn
      BY <2>1
    <3> QED BY <2>2, <3>1, <3>2, <3>3, <3>4 DEF ChartCoversTotals, Plus, Clicks, FirstDay
  <2> QED BY <1>1, <2>4, <2>6, <2>7 DEF DashIInv
<1> QED BY <1>9, <1>10, <1>11, <1>13, <1>14, <1>15 DEF DashNext

(* Stats' three reads, with beacons, edits and midnights between them: the   *)
(* chart, read last, with the rows before its first day adds up to at least  *)
(* what the totals and the links show.                                       *)
THEOREM ChartIsCovering == DashSpec => []ChartCoversTotals
<1>1. DashIInv => ChartCoversTotals
  BY DEF DashIInv
<1> QED BY <1>1, DashInitIInv, DashNextIInv, PTL DEF DashSpec

(* Types, explained losses and the distance of counts, with the dashboard.   *)
THEOREM CountingThroughDashboard ==
  DashSpec => [](TypeOK /\ LossExplained) /\ CountedApart
BY DashImplementsCounting, TypeCorrect, LossesExplained, OncePerWindow, PTL
=============================================================================
