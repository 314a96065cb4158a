---------------------------- MODULE LinksProofs -----------------------------
(***************************************************************************)
(* The rows of the links table behave as the ordered lists of LinkOrder,   *)
(* for every number of accounts, links and concurrent requests.  The facts *)
(* that carry the proofs: sorting by position and id is a strict total     *)
(* order whatever the positions are (BeforeOrder); counting the            *)
(* predecessors of a link in that order is strictly monotone, so           *)
(* renumbering keeps it (RankMonotone); and a list of n distinct links of  *)
(* an account that has n links leaves none out (NothingLeftOut).           *)
(***************************************************************************)
EXTENDS PublicPage, FunctionTheorems, FiniteSetTheorems, TLAPS

IInv ==
  /\ TypeOK
  /\ \A p \in Procs : job[p].at = "measured" => job[p].user \in Users
  /\ MeasuredIsEnd
  /\ PositionsDistinct

-----------------------------------------------------------------------------
(* The order of the rows *)

LEMMA BeforeOrder ==
  ASSUME pos \in [Ids -> Nat]
  PROVE  /\ \A a \in Ids : ~Before(a, a)
         /\ \A a, b \in Ids : Before(a, b) => ~Before(b, a)
         /\ \A a, b \in Ids : a # b => Before(a, b) \/ Before(b, a)
         /\ \A a, b, c \in Ids : Before(a, b) /\ Before(b, c) => Before(a, c)
<1>1. \A a \in Ids : a \in Nat /\ pos[a] \in Nat
  BY LinksAssumption DEF Ids
<1> QED BY <1>1 DEF Before

LEMMA OwnFinite ==
  ASSUME NEW u
  PROVE  /\ Own(u) \subseteq Ids
         /\ \A S \in SUBSET Ids : IsFiniteSet(S) /\ Cardinality(S) \in Nat
<1>1. IsFiniteSet(Ids)
  BY FS_Interval, LinksAssumption DEF Ids
<1>2. ASSUME NEW S \in SUBSET Ids PROVE IsFiniteSet(S) /\ Cardinality(S) \in Nat
  BY <1>1, FS_Subset, FS_CardinalityType
<1> QED BY <1>2 DEF Own

(* A link has strictly more predecessors than any link before it. *)
LEMMA RankMonotone ==
  ASSUME pos \in [Ids -> Nat], NEW S \in SUBSET Ids, NEW a \in S, NEW b \in S, Before(a, b)
  PROVE  Cardinality({m \in S : Before(m, a)}) < Cardinality({m \in S : Before(m, b)})
<1> DEFINE A == {m \in S : Before(m, a)}
           B == {m \in S : Before(m, b)}
<1>1. /\ IsFiniteSet(A) /\ Cardinality(A) \in Nat
      /\ IsFiniteSet(B) /\ Cardinality(B) \in Nat
  <2>1. A \in SUBSET Ids /\ B \in SUBSET Ids
    OBVIOUS
  <2> QED BY <2>1, OwnFinite
<1>2. a \notin A
  BY BeforeOrder
<1>3. A \cup {a} \subseteq B
  BY BeforeOrder
<1>4. Cardinality(A \cup {a}) = Cardinality(A) + 1
  BY <1>1, <1>2, FS_AddElement
<1>5. Cardinality(A \cup {a}) <= Cardinality(B)
  BY <1>1, <1>3, FS_Subset
<1> QED BY <1>1, <1>4, <1>5

(* resequence: positions are natural, and the remaining links of u keep      *)
(* their order; nobody else's positions change.                              *)
LEMMA ResequencedFact ==
  ASSUME pos \in [Ids -> Nat], NEW u, NEW i \in Ids, pos' = Resequenced(u, i)
  PROVE  /\ pos' \in [Ids -> Nat]
         /\ \A k \in Ids : owner[k] # u /\ k # i => pos'[k] = pos[k]
         /\ \A a, b \in Own(u) \ {i} : Before(a, b) => pos'[a] < pos'[b]
<1> DEFINE S == Own(u) \ {i}
           R(k) == Cardinality({m \in S : Before(m, k)})
<1>1. \A k \in Ids : R(k) \in Nat
  <2>1. ASSUME NEW k \in Ids PROVE {m \in S : Before(m, k)} \in SUBSET Ids
    BY DEF Own
  <2> QED BY <2>1, OwnFinite
<1>2. \A k \in Ids : pos'[k] = IF owner[k] = u /\ k # i THEN R(k)
                               ELSE IF k = i THEN 0 ELSE pos[k]
  BY DEF Resequenced
<1>3. DOMAIN pos' = Ids /\ pos' = [k \in Ids |-> pos'[k]]
  BY DEF Resequenced
<1>4. pos' \in [Ids -> Nat]
  <2>1. \A k \in Ids : pos'[k] \in Nat
    <3> HIDE DEF R
    <3> QED BY <1>1, <1>2
  <2> QED BY <1>3, <2>1
<1>5. ASSUME NEW a \in S, NEW b \in S, Before(a, b) PROVE pos'[a] < pos'[b]
  <2>1. S \in SUBSET Ids
    BY DEF Own
  <2>2. R(a) < R(b)
    BY <1>5, <2>1, RankMonotone
  <2>3. pos'[a] = R(a) /\ pos'[b] = R(b)
    BY <1>2 DEF Own
  <2> QED BY <2>2, <2>3
<1> QED BY <1>2, <1>4, <1>5

(* A list that ReorderLinks accepts names every link of the account. *)
LEMMA NothingLeftOut ==
  ASSUME NEW u, NEW n \in Nat, NEW ids \in [1..n -> Ids], Acceptable(u, ids)
  PROVE  /\ n = Cardinality(Own(u))
         /\ \A i \in Own(u) : \E k \in 1..n : ids[k] = i
<1>1. IsFiniteSet(Own(u)) /\ Cardinality(Own(u)) \in Nat
  BY OwnFinite
<1>2. 1..n = 1..Cardinality(Own(u))
  BY DEF Acceptable
<1>3. IsFiniteSet(1..n) /\ Cardinality(1..n) = n
  BY FS_Interval
<1>4. Cardinality(1..Cardinality(Own(u))) = Cardinality(Own(u))
  BY <1>1, FS_Interval
<1>5. n = Cardinality(Own(u))
  BY <1>2, <1>3, <1>4
<1>6. ids \in Injection(1..n, Own(u))
  BY Fun_IsInj DEF Acceptable
<1>7. ids \in Surjection(1..n, Own(u))
  BY <1>1, <1>3, <1>5, <1>6, FS_Injection
<1> QED BY <1>5, <1>7, Fun_SurjectionProperties

(* Reordering: natural positions, distinct ones for the links of u, and the  *)
(* others' as they were.                                                     *)
LEMMA ReorderFact ==
  ASSUME TypeOK, NEW u, NEW n \in Nat, NEW ids \in [1..n -> Ids], ReorderLinks(u, ids)
  PROVE  /\ pos' \in [Ids -> Nat]
         /\ \A k \in Ids \ Own(u) : pos'[k] = pos[k]
         /\ \A a, b \in Own(u) : pos'[a] = pos'[b] => a = b
<1> DEFINE At(i) == CHOOSE k \in DOMAIN ids : ids[k] = i
<1>1. Acceptable(u, ids) /\ DOMAIN ids = 1..n
  BY DEF ReorderLinks
<1>2. \A i \in Own(u) : \E k \in DOMAIN ids : ids[k] = i
  BY <1>1, NothingLeftOut
<1>3. ASSUME NEW i \in Ids, \E k \in DOMAIN ids : ids[k] = i
      PROVE  At(i) \in 1..n /\ ids[At(i)] = i
  BY <1>1, <1>3
<1>4. \A i \in Ids : pos'[i] = IF \E k \in DOMAIN ids : ids[k] = i THEN At(i) - 1 ELSE pos[i]
  BY DEF ReorderLinks
<1>5. pos' \in [Ids -> Nat]
  <2>1. ASSUME NEW i \in Ids PROVE pos'[i] \in Nat
    <3>1. CASE \E k \in DOMAIN ids : ids[k] = i
      <4>1. At(i) \in 1..n /\ pos'[i] = At(i) - 1
        BY <3>1, <1>3, <1>4
      <4> HIDE DEF At
      <4> QED BY <4>1
    <3>2. CASE ~(\E k \in DOMAIN ids : ids[k] = i)
      BY <3>2, <1>4 DEF TypeOK
    <3> QED BY <3>1, <3>2
  <2>2. pos' = [i \in Ids |-> pos'[i]]
    BY DEF ReorderLinks
  <2> QED BY <2>1, <2>2
<1>6. \A i \in Ids \ Own(u) : pos'[i] = pos[i]
  <2>1. ASSUME NEW i \in Ids \ Own(u), NEW k \in DOMAIN ids, ids[k] = i PROVE FALSE
    BY <2>1, <1>1 DEF Acceptable
  <2> QED BY <2>1, <1>4
<1>7. ASSUME NEW a \in Own(u), NEW b \in Own(u), pos'[a] = pos'[b] PROVE a = b
  <2>1. a \in Ids /\ b \in Ids
    BY OwnFinite
  <2>2. /\ At(a) \in 1..n /\ ids[At(a)] = a /\ pos'[a] = At(a) - 1
        /\ At(b) \in 1..n /\ ids[At(b)] = b /\ pos'[b] = At(b) - 1
    BY <2>1, <1>2, <1>3, <1>4
  <2> HIDE DEF At
  <2>3. At(a) = At(b)
    BY <2>2, <1>7
  <2> QED BY <2>2, <2>3
<1> QED BY <1>5, <1>6, <1>7

-----------------------------------------------------------------------------
(* The invariant *)

LEMMA InitIInv == Init => IInv
<1> SUFFICES ASSUME Init PROVE IInv
  OBVIOUS
<1>1. \A u \in Users : Own(u) = {}
  BY LinksAssumption DEF Init, Own
<1>2. TypeOK
  <2>1. Idle \in Job
    BY DEF Idle, Job
  <2>2. enabled = {} /\ crowded = {} /\ alive = Users /\ lastId = 0
    BY DEF Init
  <2>3. owner \in [Ids -> alive \cup {NoUser}] /\ pos \in [Ids -> Nat] /\ job \in [Procs -> Job]
    BY <2>1 DEF Init
  <2>4. \A i \in Ids : owner[i] = NoUser
    BY DEF Init
  <2> QED BY <2>2, <2>3, <2>4, LinksAssumption DEF TypeOK
<1>3. \A p \in Procs : job[p].at # "measured"
  BY DEF Init, Idle
<1>4. PositionsDistinct
  BY <1>1, <1>2 DEF PositionsDistinct, TypeOK
<1> QED BY <1>2, <1>3, <1>4 DEF IInv, MeasuredIsEnd

(* What Overtake leaves of a creation that has measured its list. *)
LEMMA OvertakeFact ==
  ASSUME TypeOK, NEW u, NEW done, Overtake(u, done)
  PROVE  /\ job' \in [Procs -> Job]
         /\ \A q \in Procs : job'[q].at = "measured" =>
              /\ q \notin done /\ job[q].at = "measured"
              /\ job'[q].user = job[q].user /\ job'[q].next = job[q].next
              /\ job[q].user # u => job'[q].overtaken = job[q].overtaken
              /\ job[q].user = u => job'[q].overtaken = TRUE
<1>1. Idle \in Job /\ Idle.at # "measured"
  BY DEF Idle, Job
<1>2. ASSUME NEW q \in Procs PROVE [job[q] EXCEPT !.overtaken = TRUE] \in Job
  BY DEF TypeOK, Job
<1>3. \A q \in Procs : job'[q] = IF q \in done THEN Idle
                                 ELSE IF job[q].at = "measured" /\ job[q].user = u
                                 THEN [job[q] EXCEPT !.overtaken = TRUE] ELSE job[q]
  BY DEF Overtake
<1>4. job' \in [Procs -> Job]
  BY <1>1, <1>2 DEF Overtake, TypeOK
<1>5. ASSUME NEW q \in Procs, job'[q].at = "measured"
      PROVE  /\ q \notin done /\ job[q].at = "measured"
             /\ job'[q].user = job[q].user /\ job'[q].next = job[q].next
             /\ job[q].user # u => job'[q].overtaken = job[q].overtaken
             /\ job[q].user = u => job'[q].overtaken = TRUE
  <2>1. job[q] \in Job
    BY DEF TypeOK
  <2>2. CASE q \in done
    BY <1>5, <2>2, <1>1, <1>3
  <2>3. CASE q \notin done /\ job[q].at = "measured" /\ job[q].user = u
    BY <2>1, <2>3, <1>3 DEF Job
  <2>4. CASE q \notin done /\ ~(job[q].at = "measured" /\ job[q].user = u)
    BY <1>5, <2>4, <1>3
  <2> QED BY <2>2, <2>3, <2>4
<1> QED BY <1>4, <1>5

LEMMA OvertakeOthers ==
  ASSUME TypeOK, NEW u, NEW p, Overtake(u, {p})
  PROVE  /\ job' \in [Procs -> Job]
         /\ \A q \in Procs : job'[q].at = "measured" =>
              /\ q # p /\ job[q].at = "measured"
              /\ job'[q].user = job[q].user /\ job'[q].next = job[q].next
              /\ job[q].user # u => job'[q].overtaken = job[q].overtaken
              /\ job[q].user = u => job'[q].overtaken = TRUE
<1> DEFINE done == {p}
<1>1. Overtake(u, done) /\ p \in done
  OBVIOUS
<1> HIDE DEF done
<1>2. job' \in [Procs -> Job]
  BY <1>1, OvertakeFact
<1>3. ASSUME NEW q \in Procs, job'[q].at = "measured"
      PROVE  /\ q \notin done /\ job[q].at = "measured"
             /\ job'[q].user = job[q].user /\ job'[q].next = job[q].next
             /\ job[q].user # u => job'[q].overtaken = job[q].overtaken
             /\ job[q].user = u => job'[q].overtaken = TRUE
  BY <1>1, <1>3, OvertakeFact
<1> QED BY <1>1, <1>2, <1>3

(* The list of u was rewritten: everything left of the invariant is about    *)
(* the other lists and about the new positions of u.                         *)
LEMMA RewriteStep ==
  ASSUME IInv, TypeOK', NEW u \in Users, Overtake(u, {}),
         crowded' = crowded \ {u}, alive' = alive,
         \A v \in Users \ {u} : Own(v)' = Own(v) /\ \A k \in Own(v) : pos'[k] = pos[k],
         \A a, b \in Own(u)' : pos'[a] = pos'[b] => a = b
  PROVE  IInv'
<1>1. \A q \in Procs : job'[q].at = "measured" =>
        /\ job[q].at = "measured" /\ job'[q].user = job[q].user /\ job'[q].next = job[q].next
        /\ job[q].user # u => job'[q].overtaken = job[q].overtaken
        /\ job[q].user = u => job'[q].overtaken = TRUE
  <2>1. TypeOK
    BY DEF IInv
  <2> QED BY <2>1, OvertakeFact
<1>2. \A q \in Procs : job'[q].at = "measured" => job'[q].user \in Users
  BY <1>1 DEF IInv
<1>3. MeasuredIsEnd'
  <2>1. ASSUME NEW q \in Procs, job'[q].at = "measured", ~job'[q].overtaken,
               NEW i \in Ids, owner'[i] = job'[q].user
        PROVE  pos'[i] < job'[q].next
    <3>1. job[q].at = "measured" /\ job[q].user # u /\ job[q].user \in Users
      BY <1>1, <2>1 DEF IInv
    <3>2. job'[q].user = job[q].user /\ job'[q].next = job[q].next /\ ~job[q].overtaken
      BY <1>1, <2>1, <3>1
    <3>3. i \in Own(job[q].user) /\ pos'[i] = pos[i]
      BY <2>1, <3>1, <3>2 DEF Own
    <3> QED BY <3>1, <3>2, <3>3 DEF IInv, MeasuredIsEnd
  <2> QED BY <2>1 DEF MeasuredIsEnd, Own
<1>4. PositionsDistinct'
  <2>1. ASSUME NEW v \in alive \ crowded', NEW a \in Own(v)', NEW b \in Own(v)',
               pos'[a] = pos'[b]
        PROVE  a = b
    <3>1. CASE v = u
      BY <3>1, <2>1
    <3>2. CASE v # u
      BY <3>2, <2>1 DEF IInv, PositionsDistinct, TypeOK
    <3> QED BY <3>1, <3>2
  <2> QED BY <2>1 DEF PositionsDistinct
<1> QED BY <1>2, <1>3, <1>4 DEF IInv

(* Steps that leave the lists alone and make no creation forget that it was  *)
(* overtaken.                                                                *)
LEMMA QuietStep ==
  ASSUME IInv, TypeOK', UNCHANGED <<alive, owner, pos, crowded>>,
         \A q \in Procs : job'[q] = job[q] \/ job'[q] = Idle
  PROVE  IInv'
<1>1. \A q \in Procs : job'[q].at = "measured" => job'[q] = job[q]
  BY DEF Idle
<1>2. \A u : Own(u)' = Own(u)
  BY DEF Own
<1>3. MeasuredIsEnd'
  BY <1>1, <1>2 DEF IInv, MeasuredIsEnd
<1>4. PositionsDistinct'
  BY <1>2 DEF IInv, PositionsDistinct
<1> QED BY <1>1, <1>3, <1>4 DEF IInv

LEMMA MeasureStep ==
  ASSUME IInv, NEW p \in Procs, NEW u \in Users, Measure(p, u)
  PROVE  IInv'
<1>1. PICK n \in {0} \cup {pos[i] + 1 : i \in Own(u)} :
        /\ \A i \in Own(u) : pos[i] < n
        /\ job' = [job EXCEPT ![p] = [at |-> "measured", user |-> u, next |-> n,
                                      overtaken |-> FALSE]]
  BY DEF Measure
<1> DEFINE j == [at |-> "measured", user |-> u, next |-> n, overtaken |-> FALSE]
<1>2. n \in Nat
  BY DEF IInv, TypeOK, Own
<1>3. UNCHANGED <<alive, owner, pos, enabled, lastId, crowded>>
  BY DEF Measure
<1>4. \A q \in Procs : job'[q] = IF q = p THEN j ELSE job[q]
  BY <1>1 DEF IInv, TypeOK
<1>5. TypeOK'
  <2>1. j \in Job
    BY <1>2 DEF Job
  <2>2. job' \in [Procs -> Job]
    BY <2>1, <1>1 DEF IInv, TypeOK
  <2> QED BY <2>2, <1>3 DEF IInv, TypeOK
<1>6. \A v : Own(v)' = Own(v)
  BY <1>3 DEF Own
<1>7. MeasuredIsEnd'
  <2>1. ASSUME NEW q \in Procs, job'[q].at = "measured", ~job'[q].overtaken,
               NEW i \in Own(job'[q].user)
        PROVE  pos[i] < job'[q].next
    <3>1. CASE q = p
      BY <3>1, <2>1, <1>4, <1>1
    <3>2. CASE q # p
      BY <3>2, <2>1, <1>4 DEF IInv, MeasuredIsEnd
    <3> QED BY <3>1, <3>2
  <2> QED BY <2>1, <1>3, <1>6 DEF MeasuredIsEnd
<1>8. PositionsDistinct'
  BY <1>3, <1>6 DEF IInv, PositionsDistinct
<1>9. \A q \in Procs : job'[q].at = "measured" => job'[q].user \in Users
  BY <1>4 DEF IInv
<1> QED BY <1>5, <1>7, <1>8, <1>9 DEF IInv

(* The row that a creation inserts. *)
LEMMA InsertFact ==
  ASSUME IInv, NEW p \in Procs, NEW on \in BOOLEAN, CreateLink(p, on),
         NEW u, u = job[p].user, u \in alive
  PROVE  /\ lastId + 1 \in Ids /\ owner[lastId + 1] = NoUser
         /\ u \in Users /\ job[p].next \in Nat
         /\ \A i \in Ids : owner'[i] = IF i = lastId + 1 THEN u ELSE owner[i]
         /\ \A i \in Ids : pos'[i] = IF i = lastId + 1 THEN job[p].next ELSE pos[i]
         /\ Own(u)' = Own(u) \cup {lastId + 1}
         /\ lastId + 1 \notin Own(u)
         /\ \A v \in Users \ {u} : Own(v)' = Own(v) /\ lastId + 1 \notin Own(v)
<1>1. lastId + 1 \in Ids /\ owner[lastId + 1] = NoUser
  BY LinksAssumption DEF CreateLink, IInv, TypeOK, Ids
<1>2. u \in Users /\ job[p].next \in Nat
  BY DEF CreateLink, IInv, TypeOK, Job
<1>3. /\ owner' = [owner EXCEPT ![lastId + 1] = u]
      /\ pos' = [pos EXCEPT ![lastId + 1] = job[p].next]
  BY DEF CreateLink
<1>4. \A i \in Ids : owner'[i] = IF i = lastId + 1 THEN u ELSE owner[i]
  BY <1>3 DEF IInv, TypeOK
<1>5. \A i \in Ids : pos'[i] = IF i = lastId + 1 THEN job[p].next ELSE pos[i]
  BY <1>3 DEF IInv, TypeOK
<1>6. Own(u)' = Own(u) \cup {lastId + 1}
  BY <1>1, <1>4 DEF Own
<1>7. \A v \in Users : lastId + 1 \notin Own(v)
  BY <1>1, LinksAssumption DEF Own
<1>8. \A v \in Users \ {u} : Own(v)' = Own(v)
  BY <1>4, <1>7 DEF Own
<1> QED BY <1>1, <1>2, <1>4, <1>5, <1>6, <1>7, <1>8

(* A creation whose account still exists inserts its row. *)
LEMMA InsertStep ==
  ASSUME IInv, NEW p \in Procs, NEW on \in BOOLEAN, CreateLink(p, on),
         NEW u, u = job[p].user, u \in alive
  PROVE  IInv'
<1> DEFINE x == lastId + 1
<1>1. /\ x \in Ids /\ owner[x] = NoUser /\ u \in Users /\ job[p].next \in Nat
      /\ \A i \in Ids : owner'[i] = IF i = x THEN u ELSE owner[i]
      /\ \A i \in Ids : pos'[i] = IF i = x THEN job[p].next ELSE pos[i]
      /\ Own(u)' = Own(u) \cup {x} /\ x \notin Own(u)
      /\ \A v \in Users \ {u} : Own(v)' = Own(v) /\ x \notin Own(v)
  BY InsertFact
<1>2. /\ lastId < MaxId /\ lastId' = x /\ alive' = alive /\ job[p].at = "measured"
      /\ owner' = [owner EXCEPT ![x] = u] /\ pos' = [pos EXCEPT ![x] = job[p].next]
      /\ enabled' = IF on THEN enabled \cup {x} ELSE enabled
      /\ crowded' = IF job[p].overtaken THEN crowded \cup {u} ELSE crowded
      /\ Overtake(u, {p})
  BY DEF CreateLink
<1>3. /\ job' \in [Procs -> Job]
      /\ \A q \in Procs : job'[q].at = "measured" =>
           /\ q # p /\ job[q].at = "measured" /\ job'[q].user = job[q].user
           /\ job'[q].next = job[q].next
           /\ job[q].user # u => job'[q].overtaken = job[q].overtaken
           /\ job[q].user = u => job'[q].overtaken = TRUE
  <2>1. TypeOK
    BY DEF IInv
  <2>2. Overtake(u, {p})
    BY <1>2
  <2> QED BY <2>1, <2>2, OvertakeOthers
<1>4. TypeOK'
  <2>1. owner' \in [Ids -> alive \cup {NoUser}] /\ pos' \in [Ids -> Nat]
    BY <1>1, <1>2 DEF IInv, TypeOK
  <2>2. x \in 0..MaxId /\ \A i \in Ids : i > x => owner'[i] = NoUser
    BY <1>1, LinksAssumption DEF IInv, TypeOK, Ids
  <2>3. enabled' \subseteq {i \in Ids : owner'[i] # NoUser}
    <3>1. owner'[x] # NoUser /\ \A i \in Ids : owner[i] # NoUser => owner'[i] # NoUser
      BY <1>1, LinksAssumption
    <3>2. enabled \subseteq {i \in Ids : owner[i] # NoUser}
      BY DEF IInv, TypeOK
    <3>3. enabled' \subseteq enabled \cup {x} /\ x \in Ids
      BY <1>1, <1>2
    <3> HIDE DEF x
    <3> QED BY <3>1, <3>2, <3>3
  <2>4. crowded' \subseteq alive
    BY <1>2 DEF IInv, TypeOK
  <2> HIDE DEF x
  <2> QED BY <1>2, <1>3, <2>1, <2>2, <2>3, <2>4 DEF IInv, TypeOK
<1>5. MeasuredIsEnd'
  <2>1. ASSUME NEW q \in Procs, job'[q].at = "measured", ~job'[q].overtaken,
               NEW i \in Ids, owner'[i] = job'[q].user
        PROVE  pos'[i] < job'[q].next
    <3>1. job[q].at = "measured" /\ job[q].user # u /\ job[q].user \in Users
      BY <2>1, <1>3 DEF IInv
    <3>2. job'[q].user = job[q].user /\ job'[q].next = job[q].next /\ ~job[q].overtaken
      BY <2>1, <3>1, <1>3
    <3>3. i \in Own(job[q].user) /\ i # x
      BY <2>1, <3>1, <3>2, <1>1 DEF Own
    <3> QED BY <3>1, <3>2, <3>3, <1>1 DEF IInv, MeasuredIsEnd
  <2> QED BY <2>1 DEF MeasuredIsEnd, Own
<1>6. PositionsDistinct'
  <2>1. ASSUME NEW v \in alive \ crowded', NEW a \in Own(v)', NEW b \in Own(v)',
               pos'[a] = pos'[b]
        PROVE  a = b
    <3>1. v \in Users /\ v \notin crowded /\ a \in Ids /\ b \in Ids
      BY <2>1, <1>2 DEF IInv, TypeOK, Own
    <3>2. \A c, d \in Own(v) : pos[c] = pos[d] => c = d
      BY <2>1, <3>1 DEF IInv, PositionsDistinct
    <3>3. CASE v # u
      BY <3>1, <3>2, <3>3, <2>1, <1>1
    <3>4. CASE v = u
      <4>1. \A i \in Own(u) : pos[i] < job[p].next
        BY <3>1, <3>4, <2>1, <1>2 DEF IInv, MeasuredIsEnd
      <4>2. \A i \in Ids : pos[i] \in Nat
        BY DEF IInv, TypeOK
      <4>3. \A i \in Own(u) : pos'[i] = pos[i] /\ pos[i] < job[p].next
        BY <4>1, <1>1 DEF Own
      <4>4. pos'[x] = job[p].next
        BY <1>1
      <4> HIDE DEF x
      <4> QED BY <2>1, <3>1, <3>2, <3>4, <4>2, <4>3, <4>4, <1>1
    <3> QED BY <3>3, <3>4
  <2> QED BY <2>1, <1>2 DEF PositionsDistinct
<1>7. \A q \in Procs : job'[q].at = "measured" => job'[q].user \in Users
  BY <1>3 DEF IInv
<1> QED BY <1>4, <1>5, <1>6, <1>7 DEF IInv

LEMMA CreateStep ==
  ASSUME IInv, NEW p \in Procs, NEW on \in BOOLEAN, CreateLink(p, on)
  PROVE  IInv'
<1>1. CASE job[p].user \notin alive
  <2>1. /\ job' = [job EXCEPT ![p] = Idle]
        /\ UNCHANGED <<alive, owner, pos, enabled, lastId, crowded>>
    BY <1>1 DEF CreateLink
  <2>2. TypeOK'
    <3>1. Idle \in Job
      BY DEF Idle, Job
    <3> QED BY <2>1, <3>1 DEF IInv, TypeOK
  <2>3. \A q \in Procs : job'[q] = job[q] \/ job'[q] = Idle
    BY <2>1 DEF IInv, TypeOK
  <2> QED BY <2>1, <2>2, <2>3, QuietStep
<1>2. ASSUME NEW u, u = job[p].user, u \in alive PROVE IInv'
  BY <1>2, InsertStep
<1> QED BY <1>1, <1>2

LEMMA CancelStep ==
  ASSUME IInv, NEW p \in Procs, Cancel(p)
  PROVE  IInv'
<1>1. /\ job' = [job EXCEPT ![p] = Idle]
      /\ UNCHANGED <<alive, owner, pos, enabled, lastId, crowded>>
  BY DEF Cancel
<1>2. Idle \in Job
  BY DEF Idle, Job
<1>3. TypeOK'
  BY <1>1, <1>2 DEF IInv, TypeOK
<1>4. \A q \in Procs : job'[q] = job[q] \/ job'[q] = Idle
  BY <1>1 DEF IInv, TypeOK
<1> QED BY <1>1, <1>3, <1>4, QuietStep

LEMMA UpdateStep ==
  ASSUME IInv, NEW u \in Users, NEW i \in Ids, NEW on \in BOOLEAN, UpdateLink(u, i, on)
  PROVE  IInv'
<1>1. UNCHANGED <<alive, owner, pos, lastId, job, crowded>>
  BY DEF UpdateLink
<1>2. TypeOK'
  <2>1. enabled' \subseteq enabled \cup {i} /\ owner[i] = u
    BY DEF UpdateLink, Own
  <2>2. u # NoUser
    BY LinksAssumption
  <2>3. enabled' \subseteq {k \in Ids : owner[k] # NoUser}
    BY <2>1, <2>2 DEF IInv, TypeOK
  <2> QED BY <1>1, <2>3 DEF IInv, TypeOK
<1> QED BY <1>1, <1>2, QuietStep

(* The list of u after a deletion, renumbered. *)
LEMMA DeleteFact ==
  ASSUME TypeOK, NEW u \in Users, NEW i \in Ids, DeleteLink(u, i)
  PROVE  /\ i \in Own(u)
         /\ \A k \in Ids : owner'[k] = IF k = i THEN NoUser ELSE owner[k]
         /\ Own(u)' = Own(u) \ {i}
         /\ \A v \in Users \ {u} : Own(v)' = Own(v) /\ \A k \in Own(v) : pos'[k] = pos[k]
         /\ pos' \in [Ids -> Nat]
         /\ \A a, b \in Own(u)' : Before(a, b) => pos'[a] < pos'[b]
<1>1. i \in Own(u) /\ owner' = [owner EXCEPT ![i] = NoUser]
  BY DEF DeleteLink
<1>2. \A k \in Ids : owner'[k] = IF k = i THEN NoUser ELSE owner[k]
  BY <1>1 DEF TypeOK
<1>3. Own(u)' = Own(u) \ {i}
  BY <1>2, LinksAssumption DEF Own
<1>4. /\ pos' \in [Ids -> Nat]
      /\ \A k \in Ids : owner[k] # u /\ k # i => pos'[k] = pos[k]
      /\ \A a, b \in Own(u) \ {i} : Before(a, b) => pos'[a] < pos'[b]
  <2>1. pos' = Resequenced(u, i) /\ pos \in [Ids -> Nat]
    BY DEF DeleteLink, TypeOK
  <2> QED BY <2>1, ResequencedFact
<1>5. \A v \in Users \ {u} : Own(v)' = Own(v) /\ \A k \in Own(v) : pos'[k] = pos[k]
  <2>1. ASSUME NEW v \in Users \ {u} PROVE Own(v)' = Own(v)
    BY <1>1, <1>2, LinksAssumption DEF Own
  <2>2. ASSUME NEW v \in Users \ {u}, NEW k \in Own(v) PROVE pos'[k] = pos[k]
    BY <1>1, <1>4 DEF Own
  <2> QED BY <2>1, <2>2
<1> QED BY <1>1, <1>2, <1>3, <1>4, <1>5

LEMMA DeleteStep ==
  ASSUME IInv, NEW u \in Users, NEW i \in Ids, DeleteLink(u, i)
  PROVE  IInv'
<1>1. TypeOK
  BY DEF IInv
<1>2. /\ i \in Own(u)
      /\ \A k \in Ids : owner'[k] = IF k = i THEN NoUser ELSE owner[k]
      /\ Own(u)' = Own(u) \ {i}
      /\ \A v \in Users \ {u} : Own(v)' = Own(v) /\ \A k \in Own(v) : pos'[k] = pos[k]
      /\ pos' \in [Ids -> Nat]
      /\ \A a, b \in Own(u)' : Before(a, b) => pos'[a] < pos'[b]
  BY <1>1, DeleteFact
<1>3. /\ owner' = [owner EXCEPT ![i] = NoUser] /\ enabled' = enabled \ {i}
      /\ crowded' = crowded \ {u} /\ Overtake(u, {}) /\ UNCHANGED <<alive, lastId>>
  BY DEF DeleteLink
<1>4. TypeOK'
  <2>1. job' \in [Procs -> Job]
    BY <1>1, <1>3, OvertakeFact
  <2>2. owner' \in [Ids -> alive \cup {NoUser}]
    BY <1>3 DEF IInv, TypeOK
  <2>3. /\ enabled' \subseteq {k \in Ids : owner'[k] # NoUser}
        /\ \A k \in Ids : k > lastId => owner'[k] = NoUser
    BY <1>1, <1>2, <1>3 DEF TypeOK
  <2> QED BY <1>1, <1>2, <1>3, <2>1, <2>2, <2>3 DEF TypeOK
<1>5. \A a, b \in Own(u)' : pos'[a] = pos'[b] => a = b
  <2>1. ASSUME NEW a \in Own(u)', NEW b \in Own(u)', a # b PROVE pos'[a] # pos'[b]
    <3>1. a \in Ids /\ b \in Ids
      BY DEF Own
    <3>2. Before(a, b) \/ Before(b, a)
      BY <1>1, <2>1, <3>1, BeforeOrder DEF TypeOK
    <3>3. pos'[a] < pos'[b] \/ pos'[b] < pos'[a]
      BY <1>2, <3>2
    <3>4. pos'[a] \in Nat /\ pos'[b] \in Nat
      BY <1>2, <3>1
    <3> QED BY <3>3, <3>4
  <2> QED BY <2>1
<1> QED BY <1>2, <1>3, <1>4, <1>5, RewriteStep

LEMMA ReorderStep ==
  ASSUME IInv, NEW u \in Users, NEW n \in Nat, NEW ids \in [1..n -> Ids], ReorderLinks(u, ids)
  PROVE  IInv'
<1>1. TypeOK
  BY DEF IInv
<1>2. /\ pos' \in [Ids -> Nat]
      /\ \A k \in Ids \ Own(u) : pos'[k] = pos[k]
      /\ \A a, b \in Own(u) : pos'[a] = pos'[b] => a = b
  BY <1>1, ReorderFact
<1>3. /\ crowded' = crowded \ {u} /\ Overtake(u, {})
      /\ UNCHANGED <<alive, owner, enabled, lastId>>
  BY DEF ReorderLinks
<1>4. \A v : Own(v)' = Own(v)
  BY <1>3 DEF Own
<1>5. TypeOK'
  <2>1. job' \in [Procs -> Job]
    BY <1>1, <1>3, OvertakeFact
  <2> QED BY <1>1, <1>2, <1>3, <2>1 DEF TypeOK
<1>6. \A v \in Users \ {u} : Own(v)' = Own(v) /\ \A k \in Own(v) : pos'[k] = pos[k]
  BY <1>2, <1>4 DEF Own
<1>7. \A a, b \in Own(u)' : pos'[a] = pos'[b] => a = b
  BY <1>2, <1>4
<1> QED BY <1>3, <1>5, <1>6, <1>7, RewriteStep

LEMMA DeleteUserStep ==
  ASSUME IInv, NEW u \in Users, DeleteUser(u)
  PROVE  IInv'
<1>1. TypeOK
  BY DEF IInv
<1>2. /\ alive' = alive \ {u}
      /\ owner' = [i \in Ids |-> IF owner[i] = u THEN NoUser ELSE owner[i]]
      /\ pos' = [i \in Ids |-> IF owner[i] = u THEN 0 ELSE pos[i]]
      /\ enabled' = enabled \ Own(u)
      /\ crowded' = crowded \ {u}
      /\ UNCHANGED <<lastId, job>>
  BY DEF DeleteUser
<1>3. Own(u)' = {} /\ \A v \in Users \ {u} : Own(v)' = Own(v)
  BY <1>2, LinksAssumption DEF Own
<1>4. TypeOK'
  <2>1. owner' \in [Ids -> alive' \cup {NoUser}] /\ pos' \in [Ids -> Nat]
    BY <1>1, <1>2 DEF TypeOK
  <2>2. /\ enabled' \subseteq {k \in Ids : owner'[k] # NoUser}
        /\ \A k \in Ids : k > lastId => owner'[k] = NoUser
    BY <1>1, <1>2 DEF TypeOK, Own
  <2> QED BY <1>1, <1>2, <2>1, <2>2 DEF TypeOK
<1>5. MeasuredIsEnd'
  <2>1. ASSUME NEW q \in Procs, job[q].at = "measured", ~job[q].overtaken,
               NEW i \in Own(job[q].user)'
        PROVE  pos'[i] < job[q].next
    <3>1. job[q].user \in Users
      BY <2>1 DEF IInv
    <3>2. i \in Ids /\ owner'[i] = job[q].user
      BY <2>1, <1>2 DEF Own
    <3>3. owner[i] = job[q].user /\ owner[i] # u
      BY <3>1, <3>2, <1>2, LinksAssumption
    <3> QED BY <2>1, <3>2, <3>3, <1>2 DEF IInv, MeasuredIsEnd, Own
  <2> QED BY <2>1, <1>2 DEF MeasuredIsEnd
<1>6. PositionsDistinct'
  <2>1. ASSUME NEW v \in alive' \ crowded', NEW a \in Own(v)', NEW b \in Own(v)',
               pos'[a] = pos'[b]
        PROVE  a = b
    <3>1. v \in Users \ {u} /\ v \in alive \ crowded
      BY <1>1, <1>2 DEF TypeOK
    <3>2. a \in Own(v) /\ b \in Own(v)
      BY <3>1, <1>3
    <3>3. pos'[a] = pos[a] /\ pos'[b] = pos[b]
      BY <3>1, <3>2, <1>2 DEF Own
    <3> QED BY <2>1, <3>1, <3>2, <3>3 DEF IInv, PositionsDistinct
  <2> QED BY <2>1 DEF PositionsDistinct
<1> QED BY <1>2, <1>4, <1>5, <1>6 DEF IInv

LEMMA NextIInv == IInv /\ [Next]_vars => IInv'
<1> SUFFICES ASSUME IInv, [Next]_vars PROVE IInv'
  OBVIOUS
<1>1. CASE UNCHANGED vars
  <2>1. TypeOK'
    BY <1>1 DEF vars, IInv, TypeOK
  <2>2. UNCHANGED <<alive, owner, pos, crowded>> /\ job' = job
    BY <1>1 DEF vars
  <2> QED BY <2>1, <2>2, QuietStep
<1>2. ASSUME NEW p \in Procs, NEW u \in Users, Measure(p, u) PROVE IInv'
  BY <1>2, MeasureStep
<1>3. ASSUME NEW p \in Procs, NEW on \in BOOLEAN, CreateLink(p, on) PROVE IInv'
  BY <1>3, CreateStep
<1>4. ASSUME NEW p \in Procs, Cancel(p) PROVE IInv'
  BY <1>4, CancelStep
<1>5. ASSUME NEW u \in Users, NEW i \in Ids, NEW on \in BOOLEAN, UpdateLink(u, i, on) PROVE IInv'
  BY <1>5, UpdateStep
<1>6. ASSUME NEW u \in Users, NEW i \in Ids, DeleteLink(u, i) PROVE IInv'
  BY <1>6, DeleteStep
<1>7. ASSUME NEW u \in Users, NEW n \in 1..MaxId, NEW ids \in [1..n -> Ids], ReorderLinks(u, ids)
      PROVE  IInv'
  <2>1. n \in Nat
    OBVIOUS
  <2> QED BY <2>1, <1>7, ReorderStep
<1>8. ASSUME NEW u \in Users, DeleteUser(u) PROVE IInv'
  BY <1>8, DeleteUserStep
<1> QED BY <1>1, <1>2, <1>3, <1>4, <1>5, <1>6, <1>7, <1>8 DEF Next

THEOREM Invariance == Spec => []IInv
<1>1. Init => IInv
  BY InitIInv
<1>2. IInv /\ [Next]_vars => IInv'
  BY NextIInv
<1> QED BY <1>1, <1>2, PTL DEF Spec

(* Types, and rows only of accounts that exist, deletion cascading (0003's   *)
(* ON DELETE CASCADE) however creations are interleaved with it.             *)
THEOREM TypeCorrect == Spec => []TypeOK
<1>1. IInv => TypeOK
  BY DEF IInv
<1> QED BY <1>1, Invariance, PTL

(* A position measured by a creation that nothing has overtaken is the end   *)
(* of the list.                                                              *)
THEOREM MeasuredPosition == Spec => []MeasuredIsEnd
<1>1. IInv => MeasuredIsEnd
  BY DEF IInv
<1> QED BY <1>1, Invariance, PTL

(* Ties between positions come from overtaken creations only, and every      *)
(* deletion and reorder removes them.                                        *)
THEOREM TiesOnlyByOvertaking == Spec => []PositionsDistinct
<1>1. IInv => PositionsDistinct
  BY DEF IInv
<1> QED BY <1>1, Invariance, PTL

-----------------------------------------------------------------------------
(* Refinement: what the rows say about the order of an account's links *)

Shown(u) == {r \in Own(u) \X Own(u) : Before(r[1], r[2])}

LEMMA ShownPairs ==
  ASSUME NEW u
  PROVE  /\ Shown(u) \subseteq Own(u) \X Own(u)
         /\ \A a, b : <<a, b>> \in Shown(u) <=> a \in Own(u) /\ b \in Own(u) /\ Before(a, b)
BY DEF Shown

LEMMA ShownOrder ==
  ASSUME TypeOK, NEW u
  PROVE  LO!TotalOrder(Shown(u), Own(u))
<1>1. Own(u) \subseteq Ids /\ pos \in [Ids -> Nat]
  BY DEF Own, TypeOK
<1>2. \A a \in Own(u) : ~Before(a, a)
  BY <1>1, BeforeOrder
<1>3. \A a, b \in Own(u) : a # b => Before(a, b) \/ Before(b, a)
  BY <1>1, BeforeOrder
<1>4. \A a, b, c \in Own(u) : Before(a, b) /\ Before(b, c) => Before(a, c)
  BY <1>1, BeforeOrder
<1> QED BY <1>2, <1>3, <1>4, ShownPairs DEF LO!TotalOrder

Ordered == \A u \in Users : LO!TotalOrder(Shown(u), Own(u))

LEMMA OrderedNext == TypeOK' => Ordered'
<1>1. TypeOK => Ordered
  BY ShownOrder DEF Ordered
<1> QED BY <1>1, PTL

(* A list whose rows did not move is shown as before. *)
LEMMA ShownKept ==
  ASSUME NEW u, Own(u)' = Own(u), \A k \in Own(u) : pos'[k] = pos[k]
  PROVE  Shown(u)' = Shown(u)
<1>1. \A a, b \in Own(u) : Before(a, b)' <=> Before(a, b)
  BY DEF Before
<1>2. \A r \in Own(u) \X Own(u) : r[1] \in Own(u) /\ r[2] \in Own(u)
  OBVIOUS
<1> QED BY <1>1, <1>2 DEF Shown

(* The maps of the refinement, account by account. *)
LEMMA Mapping ==
  /\ LO!Next <=> \E u \in Users :
       LET Others == \A v \in Users \ {u} : Own(v)' = Own(v) /\ Shown(v)' = Shown(v) IN
       \/ \E x \in Ids :
            \/ /\ \A v \in Users : x \notin Own(v)
               /\ Own(u)' = Own(u) \cup {x}
               /\ LO!TotalOrder(Shown(u)', Own(u)')
               /\ Shown(u)' \cap (Own(u) \X Own(u)) = Shown(u)
               /\ Others
            \/ /\ x \in Own(u)
               /\ Own(u)' = Own(u) \ {x}
               /\ Shown(u)' = Shown(u) \cap (Own(u)' \X Own(u)')
               /\ Others
       \/ Own(u)' = Own(u) /\ LO!TotalOrder(Shown(u)', Own(u)) /\ Others
       \/ Own(u)' = {} /\ Shown(u)' = {} /\ Others
BY DEF LO!Next, LO!Insert, LO!Remove, LO!Reorder, LO!Drop, LO!OthersKeep, Shown

(* Nothing a reader of the lists can see has changed. *)
LEMMA QuietMap ==
  ASSUME UNCHANGED <<owner, pos>>
  PROVE  UNCHANGED LO!vars
<1>1. \A u \in Users : Own(u)' = Own(u) /\ Shown(u)' = Shown(u)
  <2>1. ASSUME NEW u \in Users PROVE Own(u)' = Own(u) /\ Shown(u)' = Shown(u)
    <3>1. Own(u)' = Own(u)
      BY DEF Own
    <3> QED BY <3>1, ShownKept
  <2> QED BY <2>1
<1> QED BY <1>1 DEF LO!vars, Shown

LEMMA InsertMap ==
  ASSUME IInv, IInv', NEW p \in Procs, NEW on \in BOOLEAN, CreateLink(p, on),
         NEW u, u = job[p].user, u \in alive
  PROVE  LO!Next
<1> DEFINE x == lastId + 1
<1>1. /\ x \in Ids /\ owner[x] = NoUser /\ u \in Users
      /\ \A i \in Ids : pos'[i] = IF i = x THEN job[p].next ELSE pos[i]
      /\ Own(u)' = Own(u) \cup {x} /\ x \notin Own(u)
      /\ \A v \in Users \ {u} : Own(v)' = Own(v) /\ x \notin Own(v)
  BY InsertFact
<1> HIDE DEF x
<1>2. \A v \in Users : x \notin Own(v)
  BY <1>1
<1>3. \A k \in Ids \ {x} : pos'[k] = pos[k]
  BY <1>1
<1>4. LO!TotalOrder(Shown(u)', Own(u)')
  <2>1. TypeOK'
    BY DEF IInv
  <2>2. Ordered'
    BY <2>1, OrderedNext
  <2> QED BY <2>2, <1>1 DEF Ordered
<1>5. Shown(u)' \cap (Own(u) \X Own(u)) = Shown(u)
  <2>1. \A a, b \in Own(u) : Before(a, b)' <=> Before(a, b)
    BY <1>1, <1>3 DEF Before, Own
  <2>2. \A r \in Own(u) \X Own(u) : r[1] \in Own(u) /\ r[2] \in Own(u)
    OBVIOUS
  <2>3. Own(u) \X Own(u) \subseteq Own(u)' \X Own(u)'
    BY <1>1
  <2> QED BY <2>1, <2>2, <2>3 DEF Shown
<1>6. ASSUME NEW v \in Users \ {u} PROVE Own(v)' = Own(v) /\ Shown(v)' = Shown(v)
  <2>1. Own(v)' = Own(v)
    BY <1>1
  <2>2. \A k \in Own(v) : pos'[k] = pos[k]
    BY <1>2, <1>3 DEF Own
  <2> QED BY <2>1, <2>2, ShownKept
<1> QED BY <1>1, <1>2, <1>4, <1>5, <1>6, Mapping

LEMMA DeleteMap ==
  ASSUME TypeOK, NEW u \in Users, NEW i \in Ids, DeleteLink(u, i)
  PROVE  LO!Next
<1>1. /\ i \in Own(u) /\ Own(u)' = Own(u) \ {i}
      /\ \A v \in Users \ {u} : Own(v)' = Own(v) /\ \A k \in Own(v) : pos'[k] = pos[k]
      /\ pos' \in [Ids -> Nat]
      /\ \A a, b \in Own(u)' : Before(a, b) => pos'[a] < pos'[b]
  BY DeleteFact
<1>2. \A a, b \in Own(u)' : Before(a, b)' <=> Before(a, b)
  <2>1. ASSUME NEW a \in Own(u)', NEW b \in Own(u)' PROVE Before(a, b)' <=> Before(a, b)
    <3>1. a \in Ids /\ b \in Ids
      BY DEF Own
    <3>2. pos'[a] \in Nat /\ pos'[b] \in Nat
      BY <1>1, <3>1
    <3>3. Before(a, b) => Before(a, b)'
      BY <1>1 DEF Before
    <3>4. Before(b, a) => ~Before(a, b)'
      <4>1. Before(b, a) => pos'[b] < pos'[a]
        BY <1>1
      <4> QED BY <4>1, <3>2 DEF Before
    <3>5. a = b => ~Before(a, b)' /\ ~Before(a, b)
      BY <3>1, <3>2, LinksAssumption DEF Before, TypeOK, Ids
    <3>6. a # b => Before(a, b) \/ Before(b, a)
      BY <3>1, BeforeOrder DEF TypeOK
    <3> QED BY <3>3, <3>4, <3>5, <3>6
  <2> QED BY <2>1
<1>3. Shown(u)' = Shown(u) \cap (Own(u)' \X Own(u)')
  <2>1. \A r \in Own(u)' \X Own(u)' : r[1] \in Own(u)' /\ r[2] \in Own(u)'
    OBVIOUS
  <2>2. Own(u)' \X Own(u)' \subseteq Own(u) \X Own(u)
    BY <1>1
  <2> QED BY <1>2, <2>1, <2>2 DEF Shown
<1>4. \A v \in Users \ {u} : Own(v)' = Own(v) /\ Shown(v)' = Shown(v)
  BY <1>1, ShownKept
<1> QED BY <1>1, <1>3, <1>4, Mapping

LEMMA ReorderMap ==
  ASSUME IInv, IInv', NEW u \in Users, NEW n \in Nat, NEW ids \in [1..n -> Ids],
         ReorderLinks(u, ids)
  PROVE  LO!Next
<1>1. \A k \in Ids \ Own(u) : pos'[k] = pos[k]
  <2>1. TypeOK
    BY DEF IInv
  <2> QED BY <2>1, ReorderFact
<1>2. \A v : Own(v)' = Own(v)
  BY DEF Own, ReorderLinks
<1>3. LO!TotalOrder(Shown(u)', Own(u)')
  <2>1. TypeOK'
    BY DEF IInv
  <2>2. Ordered'
    BY <2>1, OrderedNext
  <2>3. LO!TotalOrder(Shown(u)', Own(u)')
    BY <2>2 DEF Ordered
  <2> QED BY <2>3, <1>2
<1>4. ASSUME NEW v \in Users \ {u} PROVE Own(v)' = Own(v) /\ Shown(v)' = Shown(v)
  <2>1. \A k \in Own(v) : pos'[k] = pos[k]
    BY <1>1 DEF Own
  <2> QED BY <1>2, <2>1, ShownKept
<1> QED BY <1>2, <1>3, <1>4, Mapping

LEMMA DropMap ==
  ASSUME TypeOK, NEW u \in Users, DeleteUser(u)
  PROVE  LO!Next
<1>1. /\ owner' = [i \in Ids |-> IF owner[i] = u THEN NoUser ELSE owner[i]]
      /\ pos' = [i \in Ids |-> IF owner[i] = u THEN 0 ELSE pos[i]]
  BY DEF DeleteUser
<1>2. Own(u)' = {} /\ \A v \in Users \ {u} : Own(v)' = Own(v)
  BY <1>1, LinksAssumption DEF Own
<1>3. Shown(u)' = {}
  BY <1>2 DEF Shown
<1>4. ASSUME NEW v \in Users \ {u} PROVE Own(v)' = Own(v) /\ Shown(v)' = Shown(v)
  <2>1. \A k \in Own(v) : pos'[k] = pos[k]
    BY <1>1 DEF Own
  <2> QED BY <1>2, <2>1, ShownKept
<1> QED BY <1>2, <1>3, <1>4, Mapping

LEMMA StepMap == IInv /\ IInv' /\ [Next]_vars => [LO!Next]_(LO!vars)
<1> SUFFICES ASSUME IInv, IInv', [Next]_vars PROVE LO!Next \/ UNCHANGED LO!vars
  OBVIOUS
<1>0. TypeOK
  BY DEF IInv
<1>1. CASE UNCHANGED vars
  BY <1>1, QuietMap DEF vars
<1>2. ASSUME NEW p \in Procs, NEW u \in Users, Measure(p, u) PROVE UNCHANGED LO!vars
  BY <1>2, QuietMap DEF Measure
<1>3. ASSUME NEW p \in Procs, NEW on \in BOOLEAN, CreateLink(p, on)
      PROVE  LO!Next \/ UNCHANGED LO!vars
  <2>1. CASE job[p].user \notin alive
    BY <1>3, <2>1, QuietMap DEF CreateLink
  <2>2. ASSUME NEW u, u = job[p].user, u \in alive PROVE LO!Next
    BY <1>3, <2>2, InsertMap
  <2> QED BY <2>1, <2>2
<1>4. ASSUME NEW p \in Procs, Cancel(p) PROVE UNCHANGED LO!vars
  BY <1>4, QuietMap DEF Cancel
<1>5. ASSUME NEW u \in Users, NEW i \in Ids, NEW on \in BOOLEAN, UpdateLink(u, i, on)
      PROVE  UNCHANGED LO!vars
  BY <1>5, QuietMap DEF UpdateLink
<1>6. ASSUME NEW u \in Users, NEW i \in Ids, DeleteLink(u, i) PROVE LO!Next
  BY <1>0, <1>6, DeleteMap
<1>7. ASSUME NEW u \in Users, NEW n \in 1..MaxId, NEW ids \in [1..n -> Ids], ReorderLinks(u, ids)
      PROVE  LO!Next
  <2>1. n \in Nat
    OBVIOUS
  <2> QED BY <2>1, <1>7, ReorderMap
<1>8. ASSUME NEW u \in Users, DeleteUser(u) PROVE LO!Next
  BY <1>0, <1>8, DropMap
<1> QED BY <1>1, <1>2, <1>3, <1>4, <1>5, <1>6, <1>7, <1>8 DEF Next

(* The links table implements the ordered lists of LinkOrder: concurrent     *)
(* creations may leave gaps and ties among the positions, and still only a   *)
(* reorder changes how two links stand to each other.                        *)
THEOREM ImplementsOrder == Spec => KeepsOrder
<1>1. Init => LO!Init
  <2>1. ASSUME Init, NEW u \in Users PROVE Own(u) = {}
    BY <2>1, LinksAssumption DEF Init, Own
  <2> QED BY <2>1 DEF LO!Init
<1>2. Spec => []IInv
  BY Invariance
<1>3. IInv /\ IInv' /\ [Next]_vars => [LO!Next]_(LO!vars)
  BY StepMap
<1> QED BY <1>1, <1>2, <1>3, PTL DEF Spec, KeepsOrder, LO!Spec

-----------------------------------------------------------------------------
(***************************************************************************)
(* The public page reads accounts and links that change under it.  It      *)
(* changes nothing of Links, so all that is proved above holds with        *)
(* visitors about (PageImplementsLinks).  That a page is of one account    *)
(* rests on the handles of profiles being distinct (Apart) and on a        *)
(* visit's account still holding the handle that was read until it leaves  *)
(* it (Reads).                                                             *)
(***************************************************************************)

Reads == \A v \in Visits :
  /\ visit[v].at = "pointer" => visit[v].account \in Users
  /\ visit[v].at = "profile" =>
       /\ visit[v].of \in Users /\ visit[v].name \in Handles
       /\ ~visit[v].left => handle[visit[v].of] = visit[v].name

Kept == \A v \in Visits :
  visit[v].at = "account" /\ ~visit[v].left => visit[v].account = visit[v].of

PageIInv == TypeOK /\ PageTypeOK /\ Reads /\ OneAccount

-----------------------------------------------------------------------------
(* The page leaves Links as it is *)

LEMMA PageStepOfLinks == [PageNext]_<<vars, pageVars>> => [Next]_vars
BY DEF PageNext, LinkStep, PageStep, Next

(* Every behaviour with visitors is, seen without the page, one of Links.    *)
THEOREM PageImplementsLinks == PageSpec => Spec
<1>1. PageInit => Init
  BY DEF PageInit
<1> QED BY <1>1, PageStepOfLinks, PTL DEF PageSpec, Spec

(* links.go, with visitors and renamed handles about: types, a measured      *)
(* position that is the end of its list, ties only after overtaken           *)
(* creations, and an order that only a reorder rearranges.                   *)
THEOREM LinksThroughPage ==
  PageSpec => [](TypeOK /\ MeasuredIsEnd /\ PositionsDistinct) /\ KeepsOrder
BY PageImplementsLinks, TypeCorrect, MeasuredPosition, TiesOnlyByOvertaking,
   ImplementsOrder, PTL

-----------------------------------------------------------------------------
(* Steps *)

(* Who holds the handle of a profile that is there. *)
LEMMA SoleHolder ==
  ASSUME PageTypeOK, NEW u \in Users, handle[u] # NoHandle
  PROVE  Holders(handle[u]) = {u}
BY DEF Holders, Apart, PageTypeOK

LEMMA InitPage == PageInit => PageIInv
<1> SUFFICES ASSUME PageInit PROVE PageIInv
  OBVIOUS
<1>1. TypeOK
  BY InitIInv DEF PageInit, IInv
<1>2. /\ alive = Users
      /\ handle \in [Users -> Handles \cup {NoHandle}] /\ Apart
      /\ visit = [v \in Visits |-> Unread]
  BY DEF PageInit, Init
<1>3. Unread \in Visit
  BY DEF Unread, Visit
<1>4. PageTypeOK
  BY <1>2, <1>3 DEF PageTypeOK
<1>6. Reads /\ OneAccount
  BY <1>2 DEF Reads, OneAccount, Unread
<1> QED BY <1>1, <1>4, <1>6 DEF PageIInv

(* An account leaves its handle: visits that read it know. *)
LEMMA LeaveKeeps ==
  ASSUME PageIInv, NEW u \in Users, Leave(u),
         \A w \in Users \ {u} : handle'[w] = handle[w]
  PROVE  visit' \in [Visits -> Visit] /\ Reads' /\
         \A v \in Visits : ~visit'[v].left => visit'[v] = visit[v] /\ visit[v].of # u
<1>1. visit \in [Visits -> Visit]
  BY DEF PageIInv, PageTypeOK
<1>2. ASSUME NEW v \in Visits, visit[v].of = u
      PROVE  /\ visit'[v] = [visit[v] EXCEPT !.left = TRUE]
             /\ visit'[v] \in Visit /\ visit'[v].left
             /\ visit'[v].at = visit[v].at /\ visit'[v].of = visit[v].of
             /\ visit'[v].name = visit[v].name
             /\ visit'[v].account = visit[v].account
  <2>1. visit'[v] = [visit[v] EXCEPT !.left = TRUE]
    BY <1>2 DEF Leave
  <2>2. visit[v] \in Visit
    BY <1>1
  <2> QED BY <2>1, <2>2 DEF Visit
<1>3. ASSUME NEW v \in Visits, visit[v].of # u
      PROVE  visit'[v] = visit[v]
  BY <1>3 DEF Leave
<1>4. visit' \in [Visits -> Visit]
  <2>1. \A v \in Visits : visit'[v] \in Visit
    BY <1>1, <1>2, <1>3
  <2> QED BY <2>1 DEF Leave
<1>5. Reads'
  <2> SUFFICES ASSUME NEW v \in Visits
               PROVE  /\ visit'[v].at = "pointer" => visit'[v].account \in Users
                      /\ visit'[v].at = "profile" =>
                           /\ visit'[v].of \in Users /\ visit'[v].name \in Handles
                           /\ ~visit'[v].left => handle'[visit'[v].of] = visit'[v].name
    BY DEF Reads
  <2>1. CASE visit[v].of = u
    BY <1>2, <2>1 DEF PageIInv, Reads
  <2>2. CASE visit[v].of # u
    BY <1>3, <2>2 DEF PageIInv, Reads
  <2> QED BY <2>1, <2>2
<1> QED BY <1>2, <1>3, <1>4, <1>5

(* A visit that has not been left finds the account of its profile.  The     *)
(* second fact is the first one step later.                                  *)
LEMMA ReadsGiveOneAccount == PageTypeOK /\ Reads /\ Kept => OneAccount
<1> SUFFICES ASSUME PageTypeOK, Reads, Kept,
                    NEW v \in Visits, ~visit[v].left, visit[v].at = "profile"
             PROVE  Holders(visit[v].name) = {visit[v].of}
  BY DEF OneAccount, Kept
<1>1. /\ visit[v].of \in Users /\ visit[v].name \in Handles
      /\ handle[visit[v].of] = visit[v].name
  BY DEF Reads
<1>2. handle[visit[v].of] # NoHandle
  BY <1>1, PublicPageAssumption
<1> QED BY <1>1, <1>2, SoleHolder

LEMMA ReadsGiveOneAccountNext ==
  (PageTypeOK /\ Reads /\ Kept)' => OneAccount'
BY ReadsGiveOneAccount, PTL

LEMMA UpdateProfileStep ==
  ASSUME PageIInv, UNCHANGED vars, NEW u \in Users, NEW h \in Handles, UpdateProfile(u, h)
  PROVE  PageIInv'
<1>1. TypeOK' /\ alive' = alive
  <2>1. TypeOK /\ UNCHANGED vars
    BY DEF PageIInv
  <2> QED BY <2>1 DEF TypeOK, vars, Own, Job
<1>2. /\ handle' = [handle EXCEPT ![u] = h] /\ u \in alive /\ h # NoHandle
      /\ handle \in [Users -> Handles \cup {NoHandle}]
  BY PublicPageAssumption DEF UpdateProfile, PageIInv, PageTypeOK
<1>3. Apart'
  BY <1>1, <1>2, PublicPageAssumption DEF Apart, PageIInv, PageTypeOK, UpdateProfile, Holders
<1>4. CASE h = handle[u]
  <2>1. UNCHANGED <<handle, visit, alive>>
    BY <1>1, <1>2, <1>4 DEF UpdateProfile
  <2> QED BY <1>1, <2>1, <1>3 DEF PageIInv, PageTypeOK, Reads, OneAccount, Holders
<1>5. CASE h # handle[u]
  <2>1. Leave(u) /\ \A w \in Users \ {u} : handle'[w] = handle[w]
    BY <1>2, <1>5 DEF UpdateProfile
  <2>2. visit' \in [Visits -> Visit] /\ Reads' /\
        \A v \in Visits : ~visit'[v].left => visit'[v] = visit[v] /\ visit[v].of # u
    BY <2>1, LeaveKeeps
  <2>3. PageTypeOK'
    BY <1>1, <1>2, <1>3, <2>2 DEF PageTypeOK, PageIInv
  <2>4. OneAccount'
    <3>1. Kept'
      BY <2>2 DEF PageIInv, OneAccount, Kept
    <3> QED BY <3>1, <2>2, <2>3, ReadsGiveOneAccountNext
  <2> QED BY <1>1, <2>2, <2>3, <2>4 DEF PageIInv
<1> QED BY <1>4, <1>5

(* The row and its profile go together, so a living account keeps the only   *)
(* profile of its handle.                                                    *)
LEMMA ProfileGoneStep ==
  ASSUME PageIInv, TypeOK', NEW u \in Users, DeleteUser(u), DeleteProfile(u)
  PROVE  PageIInv'
<1>1. /\ handle' = [handle EXCEPT ![u] = NoHandle] /\ alive' = alive \ {u}
      /\ handle \in [Users -> Handles \cup {NoHandle}]
      /\ \A w \in Users : handle[w] # NoHandle => w \in alive
  BY DEF DeleteProfile, DeleteUser, PageIInv, PageTypeOK
<1>2. Leave(u) /\ \A w \in Users \ {u} : handle'[w] = handle[w]
  BY <1>1 DEF DeleteProfile
<1>3. visit' \in [Visits -> Visit] /\ Reads' /\
      \A v \in Visits : ~visit'[v].left => visit'[v] = visit[v] /\ visit[v].of # u
  BY <1>2, LeaveKeeps
<1>4. Apart'
  BY <1>1 DEF Apart, PageIInv, PageTypeOK
<1>5. PageTypeOK'
  BY <1>1, <1>3, <1>4 DEF PageTypeOK
<1>6. Kept'
  BY <1>3 DEF PageIInv, OneAccount, Kept
<1> QED BY <1>3, <1>5, <1>6, ReadsGiveOneAccountNext DEF PageIInv

LEMMA VisitStep ==
  ASSUME PageIInv, TypeOK', UNCHANGED vars, UNCHANGED handle, NEW v \in Visits,
         \/ FeaturedAccount(v)
         \/ \E u \in Users : handle[u] # NoHandle /\ Found(v, u)
         \/ FeaturedProfile(v)
         \/ UserByProfileHandle(v)
         \/ Answer(v)
  PROVE  PageIInv'
<1>1. /\ visit \in [Visits -> Visit] /\ handle' = handle /\ alive' = alive
      /\ Unread \in Visit /\ Unread.at = "idle"
  BY DEF PageIInv, PageTypeOK, vars, Unread, Visit
<1>2. Apart'
  BY <1>1 DEF PageIInv, PageTypeOK, Apart
<1>3. ASSUME NEW r \in Visit, visit' = [visit EXCEPT ![v] = r],
             r.at = "pointer" => r.account \in Users,
             r.at = "profile" => r.of \in Users /\ r.name \in Handles /\
                                 (~r.left => handle[r.of] = r.name),
             r.at = "account" /\ ~r.left => r.account = r.of
      PROVE  PageIInv'
  <2>1. PageTypeOK'
    BY <1>1, <1>2, <1>3 DEF PageIInv, PageTypeOK
  <2>2. /\ visit'[v] = r
        /\ \A w \in Visits \ {v} : visit'[w] = visit[w]
    BY <1>1, <1>3
  <2>3. Reads'
    BY <1>1, <1>3, <2>2 DEF PageIInv, Reads
  <2>4. Kept'
    BY <1>1, <1>3, <2>2 DEF PageIInv, Kept, OneAccount
  <2> QED BY <2>1, <2>3, <2>4, ReadsGiveOneAccountNext DEF PageIInv
<1>4. ASSUME NEW u \in Users, handle[u] # NoHandle, Found(v, u) PROVE PageIInv'
  <2> DEFINE r == [Unread EXCEPT !.at = "profile", !.name = handle[u], !.of = u]
  <2>1. u \in Users /\ handle[u] \in Handles
    BY <1>4 DEF PageIInv, PageTypeOK
  <2>2. /\ r \in Visit /\ r.at = "profile" /\ r.of = u /\ r.name = handle[u]
    BY <2>1 DEF Unread, Visit
  <2>3. visit' = [visit EXCEPT ![v] = r]
    BY <1>4 DEF Found
  <2> HIDE DEF r
  <2> QED BY <2>1, <2>2, <2>3, <1>3
<1>5. ASSUME visit' = [visit EXCEPT ![v] = Unread] PROVE PageIInv'
  BY <1>1, <1>3, <1>5
<1>6. ASSUME visit[v].at = "profile", NEW u \in Holders(visit[v].name),
             visit' = [visit EXCEPT ![v].at = "account", ![v].account = u]
      PROVE  PageIInv'
  <2> DEFINE r == [visit[v] EXCEPT !.at = "account", !.account = u]
  <2>1. visit' = [visit EXCEPT ![v] = r]
    BY <1>1, <1>6
  <2>2. visit[v] \in Visit /\ u \in Users
    BY <1>1 DEF Holders
  <2>3. /\ r \in Visit /\ r.at = "account" /\ r.account = u
        /\ r.of = visit[v].of /\ r.left = visit[v].left
    BY <2>2 DEF Visit
  <2>4. ~visit[v].left => u = visit[v].of
    BY <1>6 DEF PageIInv, OneAccount
  <2> HIDE DEF r
  <2> QED BY <2>1, <2>3, <2>4, <1>3
<1>7. CASE UserByProfileHandle(v)
  BY <1>5, <1>6, <1>7 DEF UserByProfileHandle
<1>8. CASE Answer(v)
  BY <1>5, <1>8 DEF Answer
<1>9. CASE FeaturedAccount(v)
  <2>1. PICK u \in alive :
          visit' = [visit EXCEPT ![v] = [Unread EXCEPT !.at = "pointer", !.account = u]]
    BY <1>9 DEF FeaturedAccount
  <2> DEFINE r == [Unread EXCEPT !.at = "pointer", !.account = u]
  <2>2. u \in Users
    BY DEF PageIInv, TypeOK
  <2>3. r \in Visit /\ r.at = "pointer" /\ r.account = u
    BY <2>2 DEF Unread, Visit
  <2>4. visit' = [visit EXCEPT ![v] = r]
    BY <2>1
  <2> HIDE DEF r
  <2> QED BY <2>2, <2>3, <2>4, <1>3
<1>10. CASE FeaturedProfile(v)
  <2>1. visit[v].account \in Users
    BY <1>10 DEF FeaturedProfile, PageIInv, Reads
  <2> QED BY <1>4, <1>5, <1>10, <2>1 DEF FeaturedProfile
<1> QED BY <1>4, <1>7, <1>8, <1>9, <1>10

-----------------------------------------------------------------------------
(* Theorems *)

THEOREM PageInvariance == PageSpec => []PageIInv
<1>1. PageIInv /\ TypeOK' /\ [PageNext]_<<vars, pageVars>> => PageIInv'
  <2> SUFFICES ASSUME PageIInv, TypeOK', [PageNext]_<<vars, pageVars>> PROVE PageIInv'
    OBVIOUS
  <2>1. ASSUME alive' = alive, UNCHANGED pageVars PROVE PageIInv'
    BY <2>1 DEF PageIInv, PageTypeOK, Apart, Reads, OneAccount, Holders, pageVars
  <2>2. CASE UNCHANGED <<vars, pageVars>>
    BY <2>1, <2>2 DEF vars
  <2>3. CASE LinkStep
    <3>1. \/ alive' = alive /\ UNCHANGED pageVars
          \/ \E u \in Users : DeleteUser(u) /\ DeleteProfile(u)
      BY <2>3 DEF LinkStep, Measure, CreateLink, Cancel, UpdateLink, DeleteLink, ReorderLinks
    <3> QED BY <2>1, <3>1, ProfileGoneStep
  <2>4. CASE PageStep
    <3>1. UNCHANGED vars
      BY <2>4 DEF PageStep
    <3>2. CASE \E u \in Users, h \in Handles : UpdateProfile(u, h)
      BY <3>1, <3>2, UpdateProfileStep
    <3>3. ASSUME NEW v \in Visits, NEW h \in Handles, ProfileByHandle(v, h)
          PROVE  PageIInv'
      <4>1. \A u \in Holders(h) : u \in Users /\ handle[u] # NoHandle
        BY PublicPageAssumption DEF Holders, PageIInv, PageTypeOK
      <4> QED BY <3>1, <3>3, <4>1, VisitStep DEF ProfileByHandle
    <3>4. ASSUME NEW v \in Visits,
                 FeaturedAccount(v) \/ FeaturedProfile(v) \/ UserByProfileHandle(v) \/ Answer(v)
          PROVE  PageIInv'
      BY <3>1, <3>4, VisitStep DEF FeaturedAccount, FeaturedProfile, UserByProfileHandle, Answer
    <3> QED BY <2>4, <3>2, <3>3, <3>4 DEF PageStep
  <2> QED BY <2>2, <2>3, <2>4 DEF PageNext
<1>2. PageSpec => []TypeOK
  BY PageImplementsLinks, TypeCorrect, PTL
<1> QED BY <1>1, <1>2, InitPage, PTL DEF PageSpec

(* profile.go, 0006_profiles.sql: types of the page; with accounts deleted   *)
(* and handles renamed at any moment, and accounts that never had a profile, *)
(* a profile belongs to an account that exists and handles stay distinct.    *)
THEOREM ProfilesHaveAccounts == PageSpec => []PageTypeOK
<1>1. PageIInv => PageTypeOK
  BY DEF PageIInv
<1> QED BY <1>1, PageInvariance, PTL

(* public.go: for any number of accounts, handles and visits at once, a page *)
(* is of one account unless that account gives up its handle meanwhile.      *)
THEOREM PagesOfOneAccount == PageSpec => []OneAccount
<1>1. PageIInv => OneAccount
  BY DEF PageIInv
<1> QED BY <1>1, PageInvariance, PTL
=============================================================================
