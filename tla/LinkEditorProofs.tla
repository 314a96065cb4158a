-------------------------- MODULE LinkEditorProofs --------------------------
(***************************************************************************)
(* The page shows the server's list when it is told everything and asks    *)
(* for one thing at a time, for any number of links and of calls in flight *)
(* (PageFollows).  While calls are under way the two lists differ, and the *)
(* invariant says by what: the page has not yet appended the link that was *)
(* created last, still shows the ones that were deleted, has old fields in *)
(* the rows whose change is not yet answered, may have rows of no link,    *)
(* and for the rest shows the server's links in the server's order         *)
(* (Patched).  A call about the whole list is alone, and carries the list  *)
(* that the page will show (Whole).                                        *)
(* The server's list changes only as LinkOrder allows                      *)
(* (ServerFollowsOrder).                                                   *)
(***************************************************************************)
EXTENDS LinkEditor, FunctionTheorems, FiniteSetTheorems, SequenceTheorems, TLAPS

Ids(n) == (0..n) \cup {Undefined}
Row(n) == [id : (1..n) \cup {Undefined}, on : BOOLEAN]

Calling(n) ==
  [op : {"none", "load", "create", "save", "toggle", "delete", "reorder"},
   at : {"idle", "sent", "written", "answered", "failed"},
   id : Ids(n), on : BOOLEAN, ids : Seq(Int),
   previous : Seq(Row(n)), answer : Seq(Row(n)), live : BOOLEAN]

(* A call that is under way asks for something; only a write is read back,   *)
(* and what is read back is one row.                                         *)
Sound(x) ==
  /\ x # Idle => x.op # "none" /\ x.at # "idle"
  /\ x.at = "written" => x.op \in {"create", "save", "toggle", "reorder"}
  /\ x.at = "answered" /\ x.op \in {"create", "save", "toggle"} => Len(x.answer) = 1

Typed ==
  /\ TypeOK
  /\ list \in Seq(Int)
  /\ rows \in Seq(Row(lastId))
  /\ call \in [Calls -> Calling(lastId)]
  /\ \A c \in Calls : Sound(call[c])

-----------------------------------------------------------------------------
(* The lists beside each other *)

(* s shows the list l, but for a last one not yet appended (new) and some    *)
(* not yet taken out (gone); beside them it may have undefined entries.      *)
Lined(s, l, new, gone) ==
  /\ \A k, m \in DOMAIN s : s[k] = s[m] /\ s[k] # Undefined => k = m
  /\ ToSet(s) \ {Undefined} = (ToSet(l) \ new) \cup gone
  /\ new \subseteq ToSet(l) /\ gone \cap ToSet(l) = {}
  /\ \A k, m \in DOMAIN s, p, q \in DOMAIN l :
       s[k] = l[p] /\ s[m] = l[q] /\ k < m => p < q
  /\ \A p \in DOMAIN l : l[p] \in new => p = Len(l)

Creates(x) == x.op = "create" /\ x.at \in {"written", "answered"}
Deletes(x) == x.op = "delete" /\ x.at = "answered"
Changes(x) == x.op \in {"save", "toggle"} /\ x.at \in {"written", "answered"}

New(calls) == {calls[c].id : c \in {d \in Calls : Creates(calls[d])}}
Gone(calls) == {calls[c].id : c \in {d \in Calls : Deletes(calls[d])}}
Changed(calls) == {calls[c].id : c \in {d \in Calls : Changes(calls[d])}}

RowOf(enabled, i) == [id |-> i, on |-> i \in enabled]

(* The link of a change or deletion is on the page, what has changed is a    *)
(* link, and an answer is still true when it comes.                          *)
True(x, ids, enabled) ==
  /\ x.op \in {"save", "toggle", "delete"} => x.id \in ToSet(ids)
  /\ Changes(x) => x.id # Undefined
  /\ x.op \in {"create", "save", "toggle"} /\ x.at = "answered" =>
       x.answer = <<RowOf(enabled, x.id)>>

Patched ==
  /\ \A c \in Calls : call[c].op \notin WholeList
  /\ Lined(IdsOf(rows), list, New(call), Gone(call))
  /\ \A k \in DOMAIN rows :
       rows[k].id \in ToSet(list) \ Changed(call) => rows[k] = RowOf(on, rows[k].id)
  /\ \A c \in Calls : True(call[c], IdsOf(rows), on)

(* rs is the list, give or take rows of no link. *)
Shows(rs, l, enabled) ==
  /\ Lined(IdsOf(rs), l, {}, {})
  /\ \A k \in DOMAIN rs : rs[k].id \in ToSet(l) => rs[k] = RowOf(enabled, rs[k].id)

Whole ==
  \E c \in Calls :
    /\ call[c].op \in WholeList
    /\ \A d \in Calls \ {c} : call[d] = Idle
    /\ call[c].op = "load" => call[c].at # "failed"
    /\ call[c].at = "answered" => call[c].answer = Answer
    /\ call[c].op = "reorder" /\ call[c].at \in {"sent", "failed"} =>
         Shows(call[c].previous, list, on)

(* Calls under way are the open page's, about different things, and at most  *)
(* one of them creates.                                                      *)
Separate ==
  /\ \A c \in Flying : call[c].live
  /\ \A c, d \in Flying :
       c # d => ~Conflict(call[c], call[d]) /\ {call[c].op, call[d].op} # {"create"}

EditIInv == Typed /\ (~clashed /\ ~missed => Separate /\ (Patched \/ Whole))

-----------------------------------------------------------------------------
(* Filters *)

(* The places that are kept, counted from the first, are met in their order, *)
(* and each is met.                                                          *)
LEMMA Places ==
  ASSUME NEW n \in Nat, NEW ks \in SUBSET (1..n)
  PROVE  /\ Cardinality(ks) \in Nat
         /\ \A j \in 1..Cardinality(ks) : Nth(ks, j) \in ks
         /\ \A i, j \in 1..Cardinality(ks) : i < j => Nth(ks, i) < Nth(ks, j)
         /\ \A k \in ks : \E j \in 1..Cardinality(ks) : Nth(ks, j) = k
<1> DEFINE Upto(k) == {m \in ks : m <= k}
           rank == [k \in ks |-> Cardinality(Upto(k))]
           N == Cardinality(ks)
<1>1. IsFiniteSet(ks) /\ N \in Nat
  <2>1. IsFiniteSet(1..n)
    BY FS_Interval
  <2> QED BY <2>1, FS_Subset, FS_CardinalityType
<1>0. ks \subseteq Int
  OBVIOUS
<1>2. ASSUME NEW k \in ks
      PROVE  IsFiniteSet(Upto(k)) /\ Cardinality(Upto(k)) \in 1..N
  <2>1. IsFiniteSet(Upto(k)) /\ Cardinality(Upto(k)) <= N
    BY <1>1, FS_Subset
  <2>2. Cardinality(Upto(k)) \in Nat
    BY <2>1, FS_CardinalityType
  <2>3. Cardinality(Upto(k)) # 0
    <3>1. k \in Upto(k)
      BY <1>0
    <3> HIDE DEF Upto
    <3> QED BY <2>1, <3>1, FS_EmptySet
  <2> HIDE DEF Upto
  <2> QED BY <1>1, <2>1, <2>2, <2>3
<1>3. ASSUME NEW k \in ks, NEW m \in ks, k < m PROVE rank[k] < rank[m]
  <2>0. k \in Int /\ m \in Int
    BY <1>0
  <2>1. Upto(k) \subseteq Upto(m) /\ m \in Upto(m) /\ m \notin Upto(k)
    <3>1. \A x \in ks : x <= k => x <= m
      BY <1>0, <1>3, <2>0
    <3>2. m <= m /\ ~(m <= k)
      BY <1>3, <2>0
    <3> QED BY <3>1, <3>2
  <2>2. IsFiniteSet(Upto(m)) /\ Cardinality(Upto(k)) \in 1..N /\ Cardinality(Upto(m)) \in 1..N
    BY <1>2
  <2>3. Cardinality(Upto(k)) <= Cardinality(Upto(m)) /\ Cardinality(Upto(k)) # Cardinality(Upto(m))
    <3> HIDE DEF Upto
    <3> QED BY <2>1, <2>2, FS_Subset
  <2>4. rank[k] = Cardinality(Upto(k)) /\ rank[m] = Cardinality(Upto(m))
    BY DEF rank
  <2> HIDE DEF rank, Upto
  <2> QED BY <1>1, <2>2, <2>3, <2>4
<1>4. rank \in [ks -> 1..N]
  <2>1. \A k \in ks : Cardinality(Upto(k)) \in 1..N
    BY <1>2
  <2> HIDE DEF Upto
  <2> QED BY <2>1
<1>5. \A k, m \in ks : rank[k] = rank[m] => k = m
  <2>1. \A k \in ks : rank[k] \in 1..N
    BY <1>4
  <2> HIDE DEF rank
  <2> SUFFICES ASSUME NEW k \in ks, NEW m \in ks, k # m PROVE rank[k] # rank[m]
    OBVIOUS
  <2>2. CASE k < m
    BY <1>1, <1>3, <2>1, <2>2
  <2>3. CASE m < k
    BY <1>1, <1>3, <2>1, <2>3
  <2> QED BY <2>2, <2>3
<1>6. \A j \in 1..N : \E k \in ks : rank[k] = j
  <2>1. rank \in Injection(ks, 1..N)
    <3> HIDE DEF rank
    <3> QED BY <1>4, <1>5 DEF Injection, IsInjective
  <2>2. IsFiniteSet(1..N) /\ Cardinality(1..N) = N
    BY <1>1, FS_Interval
  <2>3. rank \in Surjection(ks, 1..N)
    BY <2>1, <2>2, FS_Injection
  <2> HIDE DEF rank
  <2> QED BY <2>3 DEF Surjection
<1>7. \A k \in ks : rank[k] = Cardinality({m \in ks : m <= k})
  BY DEF rank
<1> HIDE DEF rank
<1>8. \A j \in 1..N : Nth(ks, j) \in ks /\ rank[Nth(ks, j)] = j
  BY <1>6, <1>7 DEF Nth
<1>9. ASSUME NEW i \in 1..N, NEW j \in 1..N, i < j PROVE Nth(ks, i) < Nth(ks, j)
  <2>1. /\ Nth(ks, i) \in ks /\ Nth(ks, j) \in ks
        /\ rank[Nth(ks, i)] = i /\ rank[Nth(ks, j)] = j
    BY <1>8
  <2>2. ~(Nth(ks, j) < Nth(ks, i))
    <3>1. Nth(ks, j) < Nth(ks, i) => j < i
      BY <1>3, <2>1
    <3> HIDE DEF N
    <3> QED BY <1>1, <1>9, <3>1
  <2>3. Nth(ks, i) # Nth(ks, j)
    BY <1>9, <2>1
  <2>4. Nth(ks, i) \in Int /\ Nth(ks, j) \in Int
    BY <1>0, <2>1
  <2> QED BY <2>2, <2>3, <2>4
<1>10. \A k \in ks : rank[k] \in 1..N /\ Nth(ks, rank[k]) = k
  BY <1>4, <1>5, <1>8
<1> QED BY <1>1, <1>8, <1>9, <1>10

(* What a filter by an entry leaves: the others, in their order. *)
LEMMA Filtered ==
  ASSUME NEW T, NEW s \in Seq(T), NEW ks \in SUBSET (DOMAIN s)
  PROVE  /\ Kept(s, ks) \in Seq(T)
         /\ ToSet(Kept(s, ks)) = {s[k] : k \in ks}
         /\ DOMAIN Kept(s, ks) = 1..Cardinality(ks)
         /\ \A j \in 1..Cardinality(ks) : Nth(ks, j) \in ks /\ Kept(s, ks)[j] = s[Nth(ks, j)]
         /\ \A i, j \in 1..Cardinality(ks) : i < j => Nth(ks, i) < Nth(ks, j)
<1> DEFINE N == Cardinality(ks)
           t == Kept(s, ks)
<1>1. /\ DOMAIN s = 1..Len(s) /\ Len(s) \in Nat /\ \A k \in DOMAIN s : s[k] \in T
      /\ ks \in SUBSET (1..Len(s)) /\ \A k \in ks : s[k] \in T
  BY LenProperties
<1>2. /\ N \in Nat
      /\ \A j \in 1..N : Nth(ks, j) \in ks
      /\ \A i, j \in 1..N : i < j => Nth(ks, i) < Nth(ks, j)
      /\ \A k \in ks : \E j \in 1..N : Nth(ks, j) = k
  BY <1>1, Places
<1>3. DOMAIN t = 1..N /\ \A j \in 1..N : t[j] = s[Nth(ks, j)]
  BY DEF Kept
<1>4. t \in [1..N -> T]
  <2>1. \A j \in 1..N : s[Nth(ks, j)] \in T
    BY <1>1, <1>2
  <2> HIDE DEF N
  <2>2. t = [j \in 1..N |-> s[Nth(ks, j)]]
    BY DEF Kept, N
  <2> HIDE DEF t
  <2> QED BY <2>1, <2>2
<1> HIDE DEF N, t
<1>5. t \in Seq(T)
  BY <1>2, <1>4
<1>6. ToSet(t) = {s[k] : k \in ks}
  <2>1. ASSUME NEW j \in 1..N PROVE t[j] \in {s[k] : k \in ks}
    BY <1>2, <1>3
  <2>2. ASSUME NEW k \in ks PROVE \E j \in 1..N : t[j] = s[k]
    BY <1>2, <1>3
  <2> QED BY <1>3, <2>1, <2>2 DEF ToSet
<1> QED BY <1>2, <1>3, <1>5, <1>6 DEF N, t

(* Two lists that show the same links in the same order are the same. *)
LEMMA SameOrder ==
  ASSUME NEW s \in Seq(Int), NEW l \in Seq(Int), IsInjective(l), Lined(s, l, {}, {}),
         Undefined \notin ToSet(s)
  PROVE  s = l
<1> DEFINE m == Len(s)
           n == Len(l)
           g == [k \in 1..m |-> CHOOSE p \in 1..n : l[p] = s[k]]
<1>1. /\ m \in Nat /\ n \in Nat /\ DOMAIN s = 1..m /\ DOMAIN l = 1..n
  BY LenProperties
<1>2. ToSet(s) = ToSet(l)
  BY DEF Lined
<1>3. \A k \in 1..m : \E p \in 1..n : l[p] = s[k]
  BY <1>1, <1>2 DEF ToSet
<1>4. \A k \in 1..m : g[k] \in 1..n /\ l[g[k]] = s[k]
  BY <1>3
<1>5. \A p \in 1..n : \E k \in 1..m : g[k] = p
  <2>1. ASSUME NEW p \in 1..n PROVE \E k \in 1..m : g[k] = p
    <3>1. PICK k \in 1..m : s[k] = l[p]
      BY <1>1, <1>2 DEF ToSet
    <3>2. g[k] \in 1..n /\ l[g[k]] = l[p]
      BY <1>4, <3>1
    <3> HIDE DEF g
    <3> QED BY <1>1, <3>2 DEF IsInjective
  <2> QED BY <2>1
<1> HIDE DEF g
<1>6. \A i, k \in 1..m : i < k => g[i] < g[k]
  BY <1>1, <1>4 DEF Lined
<1> HIDE DEF m, n
<1>7. ASSUME NEW k \in 1..m PROVE g[k] = k
  <2> DEFINE h == [j \in 1..k |-> g[j]]
  <2>1. k \in Nat /\ g[k] \in Nat /\ g[k] \in 1..n /\ 1..k \subseteq 1..m
    BY <1>1, <1>4
  <2>2. ASSUME NEW j \in 1..k PROVE h[j] = g[j] /\ g[j] \in 1..g[k]
    <3>1. j \in 1..m /\ g[j] \in 1..n
      BY <1>1, <1>4, <2>1
    <3>2. j = k \/ j < k
      BY <2>1
    <3>3. g[j] <= g[k]
      BY <1>1, <1>6, <2>1, <3>1, <3>2
    <3> QED BY <1>1, <2>1, <3>1, <3>3
  <2>3. ASSUME NEW p \in 1..g[k] PROVE \E j \in 1..k : h[j] = p
    <3>1. p \in 1..n /\ p <= g[k]
      BY <1>1, <2>1
    <3>2. PICK j \in 1..m : g[j] = p
      BY <1>5, <3>1
    <3>3. ~(k < j)
      <4>1. k < j => g[k] < g[j]
        BY <1>6
      <4> QED BY <4>1, <3>1, <3>2, <2>1
    <3>4. j \in 1..k
      BY <1>1, <2>1, <3>3
    <3> QED BY <2>2, <3>2, <3>4
  <2>4. ASSUME NEW i \in 1..k, NEW j \in 1..k, h[i] = h[j] PROVE i = j
    <3>1. i \in 1..m /\ j \in 1..m /\ g[i] = g[j] /\ g[i] \in Int /\ i \in Int /\ j \in Int
      BY <1>1, <1>4, <2>1, <2>2, <2>4
    <3>2. ~(i < j) /\ ~(j < i)
      BY <1>6, <3>1
    <3> QED BY <3>1, <3>2
  <2>5. h \in Bijection(1..k, 1..g[k])
    <3>1. h \in [1..k -> 1..g[k]]
      BY <2>2
    <3> HIDE DEF h
    <3> QED BY <2>3, <2>4, <3>1 DEF Bijection, Injection, Surjection, IsInjective
  <2>6. ExistsBijection(1..k, 1..g[k])
    BY <2>5 DEF ExistsBijection
  <2>7. /\ IsFiniteSet(1..k) /\ Cardinality(1..k) = k
        /\ Cardinality(1..g[k]) = g[k]
    BY <2>1, FS_Interval
  <2> QED BY <2>6, <2>7, FS_Bijection
<1>8. m = n
  <2>1. m <= n
    <3>1. m > 0 => m \in 1..m /\ g[m] = m /\ g[m] \in 1..n
      BY <1>1, <1>4, <1>7
    <3> QED BY <1>1, <3>1
  <2>2. n <= m
    <3>1. n > 0 => \E k \in 1..m : k = n
      BY <1>1, <1>5, <1>7
    <3> QED BY <1>1, <3>1
  <2> QED BY <1>1, <2>1, <2>2
<1>9. \A k \in 1..m : s[k] = l[k]
  BY <1>4, <1>7
<1> QED BY <1>8, <1>9, SeqEqual DEF m, n

(* As many ids as there are links, and the same ones: none twice. *)
LEMMA NoneTwice ==
  ASSUME NEW s \in Seq(Int), NEW l \in Seq(Int), IsInjective(l),
         Len(s) = Len(l), ToSet(s) = ToSet(l)
  PROVE  IsInjective(s)
<1> DEFINE n == Len(l)
           S == ToSet(l)
<1>1. n \in Nat /\ DOMAIN s = 1..n /\ DOMAIN l = 1..n
  BY LenProperties
<1>2. IsFiniteSet(1..n) /\ Cardinality(1..n) = n
  <2>1. n \in Nat
    BY <1>1
  <2> HIDE DEF n
  <2> QED BY <2>1, FS_Interval
<1>3. l \in Bijection(1..n, S)
  <2>1. l \in [1..n -> S]
    BY <1>1, LenProperties DEF ToSet
  <2> QED BY <1>1, <2>1 DEF Bijection, Injection, Surjection, IsInjective, ToSet
<1>4. Cardinality(S) = n
  BY <1>2, <1>3, FS_Bijection DEF ExistsBijection
<1>5. s \in Surjection(1..n, S)
  <2>1. s \in [1..n -> S]
    BY <1>1, LenProperties DEF ToSet
  <2> QED BY <1>1, <2>1 DEF Surjection, ToSet
<1> HIDE DEF S, n
<1>6. s \in Injection(1..n, S)
  BY <1>2, <1>4, <1>5, FS_SurjSameCardinalityImpliesInj
<1> QED BY <1>6 DEF Injection

(* The server appends a link that the page does not know. *)
LEMMA ServerAppends ==
  ASSUME NEW s \in Seq(Int), NEW l \in Seq(Int), NEW i \in Int, NEW gone,
         Lined(s, l, {}, gone), i \notin ToSet(l), i \notin ToSet(s)
  PROVE  Lined(s, Append(l, i), {i}, gone)
<1> DEFINE t == Append(l, i)
<1>1. /\ Len(l) \in Nat /\ DOMAIN l = 1..Len(l)
      /\ DOMAIN t = 1..(Len(l) + 1) /\ Len(t) = Len(l) + 1
      /\ \A p \in 1..Len(l) : t[p] = l[p]
      /\ t[Len(l) + 1] = i
  BY LenProperties, AppendProperties
<1> HIDE DEF t
<1>2. ToSet(t) = ToSet(l) \cup {i}
  <2>1. \A e : e \in ToSet(t) <=> \E k \in 1..(Len(l) + 1) : t[k] = e
    BY <1>1 DEF ToSet
  <2>2. \A e : e \in ToSet(l) <=> \E k \in 1..Len(l) : l[k] = e
    BY <1>1 DEF ToSet
  <2>3. \A k : k \in 1..(Len(l) + 1) <=> k \in 1..Len(l) \/ k = Len(l) + 1
    BY <1>1
  <2>4. ASSUME NEW e PROVE e \in ToSet(t) <=> e \in ToSet(l) \cup {i}
    BY <1>1, <2>1, <2>2, <2>3
  <2> QED BY <2>4
<1>3. \A k \in DOMAIN s : s[k] # i
  BY DEF ToSet
<1>4. ASSUME NEW k \in DOMAIN s, NEW m \in DOMAIN s, NEW p \in DOMAIN t, NEW q \in DOMAIN t,
             s[k] = t[p], s[m] = t[q], k < m
      PROVE  p < q
  <2>1. p \in 1..Len(l) /\ q \in 1..Len(l)
    BY <1>1, <1>3, <1>4
  <2> QED BY <1>1, <1>4, <2>1 DEF Lined
<1>5. \A p \in DOMAIN t : t[p] \in {i} => p = Len(t)
  <2>1. \A p \in 1..Len(l) : l[p] # i
    BY <1>1 DEF ToSet
  <2> QED BY <1>1, <2>1
<1>6. /\ \A k, m \in DOMAIN s : s[k] = s[m] /\ s[k] # Undefined => k = m
      /\ ToSet(s) \ {Undefined} = (ToSet(t) \ {i}) \cup gone
      /\ {i} \subseteq ToSet(t) /\ gone \cap ToSet(t) = {}
  BY <1>2 DEF Lined
<1> QED BY <1>4, <1>5, <1>6 DEF Lined, t

(* The server takes out a link that the page shows. *)
LEMMA ServerRemoves ==
  ASSUME NEW s \in Seq(Int), NEW l \in Seq(Int), NEW i, NEW new, NEW gone,
         NEW ks, ks = {k \in DOMAIN l : l[k] # i},
         Lined(s, l, new, gone), i \in ToSet(l), i \notin new
  PROVE  Lined(s, Kept(l, ks), new, gone \cup {i})
<1> DEFINE t == Kept(l, ks)
           N == Cardinality(ks)
<1>1. /\ t \in Seq(Int) /\ ToSet(t) = {l[k] : k \in ks} /\ DOMAIN t = 1..N
      /\ \A j \in 1..N : Nth(ks, j) \in DOMAIN l /\ t[j] = l[Nth(ks, j)]
      /\ \A j, h \in 1..N : j < h => Nth(ks, j) < Nth(ks, h)
  <2>1. ks \in SUBSET (DOMAIN l)
    OBVIOUS
  <2>2. /\ Kept(l, ks) \in Seq(Int)
        /\ ToSet(Kept(l, ks)) = {l[k] : k \in ks}
        /\ DOMAIN Kept(l, ks) = 1..Cardinality(ks)
        /\ \A j \in 1..Cardinality(ks) : Nth(ks, j) \in ks /\ Kept(l, ks)[j] = l[Nth(ks, j)]
        /\ \A j, h \in 1..Cardinality(ks) : j < h => Nth(ks, j) < Nth(ks, h)
    BY <2>1, Filtered
  <2> QED BY <2>1, <2>2
<1>2. Len(t) = N /\ N \in Nat /\ DOMAIN l = 1..Len(l) /\ Len(l) \in Nat
  <2>1. N \in Nat
    <3>1. DOMAIN l = 1..Len(l) /\ Len(l) \in Nat
      BY LenProperties
    <3> QED BY <3>1, Places
  <2>2. DOMAIN t = 1..Len(t) /\ Len(t) \in Nat
    BY <1>1, LenProperties
  <2>3. Len(t) = N
    <3> HIDE DEF t, N
    <3> QED BY <1>1, <2>1, <2>2
  <2> QED BY <2>1, <2>3, LenProperties
<1> HIDE DEF t, N
<1>3. ToSet(t) = ToSet(l) \ {i}
  BY <1>1 DEF ToSet
<1>4. ASSUME NEW k \in DOMAIN s, NEW m \in DOMAIN s, NEW p \in DOMAIN t, NEW q \in DOMAIN t,
             s[k] = t[p], s[m] = t[q], k < m
      PROVE  p < q
  <2>1. /\ Nth(ks, p) \in DOMAIN l /\ Nth(ks, q) \in DOMAIN l
        /\ s[k] = l[Nth(ks, p)] /\ s[m] = l[Nth(ks, q)]
    BY <1>1, <1>4
  <2>2. Nth(ks, p) < Nth(ks, q)
    BY <1>4, <2>1 DEF Lined
  <2>3. q < p => Nth(ks, q) < Nth(ks, p)
    BY <1>1
  <2>4. p \in Nat /\ q \in Nat /\ Nth(ks, p) \in Nat /\ Nth(ks, q) \in Nat
    BY <1>1, <1>2, <2>1
  <2> QED BY <2>2, <2>3, <2>4
<1>5. ASSUME NEW p \in DOMAIN t, t[p] \in new PROVE p = Len(t)
  <2>1. Nth(ks, p) = Len(l)
    BY <1>1, <1>5 DEF Lined
  <2>2. p < N => Nth(ks, p) < Nth(ks, N) /\ Nth(ks, N) <= Len(l)
    <3>1. N \in 1..N
      BY <1>1, <1>2
    <3> QED BY <1>1, <1>2, <3>1
  <2>3. Nth(ks, N) \in Int
    <3>1. N \in 1..N
      BY <1>1, <1>2
    <3> QED BY <1>1, <1>2, <3>1
  <2>4. p \in Int /\ p <= N /\ Len(l) \in Int
    BY <1>1, <1>2
  <2>5. ~(p < N)
    <3>1. p < N => Len(l) < Nth(ks, N) /\ Nth(ks, N) <= Len(l)
      BY <2>1, <2>2
    <3> QED BY <2>3, <2>4, <3>1
  <2> QED BY <1>2, <2>4, <2>5
<1>6. /\ \A k, m \in DOMAIN s : s[k] = s[m] /\ s[k] # Undefined => k = m
      /\ ToSet(s) \ {Undefined} = (ToSet(t) \ new) \cup (gone \cup {i})
      /\ new \subseteq ToSet(t) /\ (gone \cup {i}) \cap ToSet(t) = {}
  BY <1>3 DEF Lined
<1> QED BY <1>4, <1>5, <1>6 DEF Lined, t

(* The page appends the link that was created. *)
LEMMA PageAppends ==
  ASSUME NEW s \in Seq(Int), NEW l \in Seq(Int), NEW i \in Int, NEW gone,
         Lined(s, l, {i}, gone), i # Undefined
  PROVE  Lined(Append(s, i), l, {}, gone)
<1> DEFINE t == Append(s, i)
<1>1. /\ Len(s) \in Nat /\ DOMAIN s = 1..Len(s)
      /\ DOMAIN t = 1..(Len(s) + 1)
      /\ \A k \in 1..Len(s) : t[k] = s[k]
      /\ t[Len(s) + 1] = i
      /\ Len(l) \in Nat /\ DOMAIN l = 1..Len(l)
  BY LenProperties, AppendProperties
<1> HIDE DEF t
<1>2. ToSet(t) = ToSet(s) \cup {i}
  <2>1. \A e : e \in ToSet(t) <=> \E k \in 1..(Len(s) + 1) : t[k] = e
    BY <1>1 DEF ToSet
  <2>2. \A e : e \in ToSet(s) <=> \E k \in 1..Len(s) : s[k] = e
    BY <1>1 DEF ToSet
  <2>3. \A k : k \in 1..(Len(s) + 1) <=> k \in 1..Len(s) \/ k = Len(s) + 1
    BY <1>1
  <2>4. ASSUME NEW e PROVE e \in ToSet(t) <=> e \in ToSet(s) \cup {i}
    BY <1>1, <2>1, <2>2, <2>3
  <2> QED BY <2>4
<1>3. i \in ToSet(l) /\ i \notin ToSet(s)
  BY DEF Lined
<1>4. \A k \in 1..Len(s) : s[k] # i
  BY <1>1, <1>3 DEF ToSet
<1>5. \A k, m \in DOMAIN t : t[k] = t[m] /\ t[k] # Undefined => k = m
  <2>1. \A a, b \in 1..Len(s) : s[a] = s[b] /\ s[a] # Undefined => a = b
    BY <1>1 DEF Lined
  <2>2. ASSUME NEW a \in DOMAIN t, NEW b \in DOMAIN t, t[a] = t[b], t[a] # Undefined
        PROVE  a = b
    <3>1. /\ a \in 1..Len(s) \/ a = Len(s) + 1
          /\ b \in 1..Len(s) \/ b = Len(s) + 1
      BY <1>1
    <3> QED BY <1>1, <1>4, <2>1, <2>2, <3>1
  <2> QED BY <2>2
<1>6. ASSUME NEW k \in DOMAIN t, NEW m \in DOMAIN t, NEW p \in DOMAIN l, NEW q \in DOMAIN l,
             t[k] = l[p], t[m] = l[q], k < m
      PROVE  p < q
  <2>1. k \in 1..Len(s) /\ t[k] = s[k] /\ s[k] # i
    BY <1>1, <1>4, <1>6
  <2>2. CASE m \in 1..Len(s)
    BY <1>1, <1>6, <2>1, <2>2 DEF Lined
  <2>3. CASE m = Len(s) + 1
    <3>1. q = Len(l) /\ p # q
      BY <1>1, <1>6, <2>1, <2>3 DEF Lined
    <3> QED BY <1>1, <3>1
  <2>4. m \in 1..Len(s) \/ m = Len(s) + 1
    BY <1>1
  <2> QED BY <2>2, <2>3, <2>4
<1>7. /\ ToSet(t) \ {Undefined} = (ToSet(l) \ {}) \cup gone
      /\ gone \cap ToSet(l) = {}
  BY <1>2, <1>3 DEF Lined
<1> QED BY <1>5, <1>6, <1>7 DEF Lined, t

(* The page takes out a link that is gone; so without the undefined entries. *)
LEMMA PageRemoves ==
  ASSUME NEW s \in Seq(Int), NEW l \in Seq(Int), NEW i, NEW new, NEW gone,
         NEW ks, ks = {k \in DOMAIN s : s[k] # i},
         Lined(s, l, new, gone), i \in gone \/ i = Undefined
  PROVE  Lined(Kept(s, ks), l, new, gone \ {i})
<1> DEFINE t == Kept(s, ks)
           N == Cardinality(ks)
<1>1. /\ ToSet(t) = {s[k] : k \in ks} /\ DOMAIN t = 1..N
      /\ \A j \in 1..N : Nth(ks, j) \in DOMAIN s /\ t[j] = s[Nth(ks, j)]
      /\ \A j, h \in 1..N : j < h => Nth(ks, j) < Nth(ks, h)
      /\ t \in Seq(Int)
  <2>1. ks \in SUBSET (DOMAIN s)
    OBVIOUS
  <2>2. /\ Kept(s, ks) \in Seq(Int)
        /\ ToSet(Kept(s, ks)) = {s[k] : k \in ks}
        /\ DOMAIN Kept(s, ks) = 1..Cardinality(ks)
        /\ \A j \in 1..Cardinality(ks) : Nth(ks, j) \in ks /\ Kept(s, ks)[j] = s[Nth(ks, j)]
        /\ \A j, h \in 1..Cardinality(ks) : j < h => Nth(ks, j) < Nth(ks, h)
    BY <2>1, Filtered
  <2> QED BY <2>1, <2>2
<1>2. Len(t) = N /\ N \in Nat /\ DOMAIN s = 1..Len(s) /\ Len(s) \in Nat
  <2>1. N \in Nat
    <3>1. DOMAIN s = 1..Len(s) /\ Len(s) \in Nat
      BY LenProperties
    <3> QED BY <3>1, Places
  <2>2. DOMAIN t = 1..Len(t) /\ Len(t) \in Nat
    BY <1>1, LenProperties
  <2>3. Len(t) = N
    <3> HIDE DEF t, N
    <3> QED BY <1>1, <2>1, <2>2
  <2> QED BY <2>1, <2>3, LenProperties
<1> HIDE DEF t, N
<1>3. ToSet(t) = ToSet(s) \ {i}
  BY <1>1 DEF ToSet
<1>4. \A k, m \in DOMAIN t : t[k] = t[m] /\ t[k] # Undefined => k = m
  <2>1. ASSUME NEW a \in 1..N, NEW b \in 1..N, t[a] = t[b], t[a] # Undefined PROVE a = b
    <3>1. Nth(ks, a) = Nth(ks, b) /\ Nth(ks, a) \in Int
      BY <1>1, <1>2, <2>1 DEF Lined
    <3>2. /\ a < b => Nth(ks, a) < Nth(ks, b)
          /\ b < a => Nth(ks, b) < Nth(ks, a)
      BY <1>1
    <3>3. ~(a < b) /\ ~(b < a)
      BY <3>1, <3>2
    <3> QED BY <1>2, <3>3
  <2> QED BY <1>1, <2>1
<1>5. ASSUME NEW k \in DOMAIN t, NEW m \in DOMAIN t, NEW p \in DOMAIN l, NEW q \in DOMAIN l,
             t[k] = l[p], t[m] = l[q], k < m
      PROVE  p < q
  <2>1. /\ Nth(ks, k) \in DOMAIN s /\ Nth(ks, m) \in DOMAIN s /\ Nth(ks, k) < Nth(ks, m)
        /\ s[Nth(ks, k)] = l[p] /\ s[Nth(ks, m)] = l[q]
    BY <1>1, <1>5
  <2> QED BY <2>1 DEF Lined
<1>6. /\ new \subseteq ToSet(l) /\ (gone \ {i}) \cap ToSet(l) = {}
      /\ \A p \in DOMAIN l : l[p] \in new => p = Len(l)
  BY DEF Lined
<1>7. ToSet(t) \ {Undefined} = (ToSet(l) \ new) \cup (gone \ {i})
  <2>1. ToSet(s) \ {Undefined} = (ToSet(l) \ new) \cup gone /\ gone \cap ToSet(l) = {}
    BY DEF Lined
  <2>2. CASE i \in gone
    BY <1>3, <2>1, <2>2
  <2>3. CASE i = Undefined
    <3>1. i \notin (ToSet(l) \ new) \cup gone
      BY <2>1, <2>3
    <3> QED BY <1>3, <2>1, <2>3, <3>1
  <2> QED BY <2>2, <2>3
<1> QED BY <1>4, <1>5, <1>6, <1>7 DEF Lined, t

(* A list shows itself. *)
LEMMA LinedItself ==
  ASSUME NEW l \in Seq(Int), IsInjective(l), Undefined \notin ToSet(l)
  PROVE  Lined(l, l, {}, {})
BY DEF Lined, IsInjective

-----------------------------------------------------------------------------
(* Types *)

Rows(n) == Seq(Row(n))

LEMMA Grow ==
  ASSUME NEW m \in Nat, NEW n \in Nat, m <= n
  PROVE  Rows(m) \subseteq Rows(n) /\ Calling(m) \subseteq Calling(n)
<1>1. 1..m \subseteq 1..n /\ 0..m \subseteq 0..n
  OBVIOUS
<1>2. Row(m) \subseteq Row(n)
  BY <1>1 DEF Row
<1>3. Rows(m) \subseteq Rows(n)
  BY <1>2, SeqMonotonic DEF Rows
<1>4. ASSUME NEW x \in Calling(m) PROVE x \in Calling(n)
  BY <1>1, <1>3 DEF Calling, Rows, Ids
<1> QED BY <1>3, <1>4

(* What the page asks for. *)
LEMMA Requests ==
  ASSUME NEW n \in Nat, NEW i \in Ids(n), NEW e \in BOOLEAN, NEW ids \in Seq(Int),
         NEW rs \in Rows(n)
  PROVE  /\ Idle \in Calling(n) /\ Sound(Idle)
         /\ \A op \in {"load", "create", "save", "toggle", "delete", "reorder"} :
              Request(op) \in Calling(n)
         /\ [Request("create") EXCEPT !.on = e] \in Calling(n)
         /\ [Request("save") EXCEPT !.id = i, !.on = e] \in Calling(n)
         /\ [Request("toggle") EXCEPT !.id = i, !.on = e] \in Calling(n)
         /\ [Request("delete") EXCEPT !.id = i] \in Calling(n)
         /\ [Request("reorder") EXCEPT !.ids = ids, !.previous = rs] \in Calling(n)
<1>1. <<>> \in Seq(Int) /\ <<>> \in Rows(n) /\ 0 \in Ids(n)
  BY EmptySeq DEF Rows, Ids
<1>2. Idle \in Calling(n)
  BY <1>1 DEF Idle, Calling, Rows
<1>3. Sound(Idle)
  BY DEF Sound, Idle
<1>4. ASSUME NEW op \in {"load", "create", "save", "toggle", "delete", "reorder"}
      PROVE  Request(op) \in Calling(n)
  BY <1>1 DEF Request, Idle, Calling, Rows
<1>5. [Request("create") EXCEPT !.on = e] \in Calling(n)
  BY <1>4 DEF Calling
<1>6. [Request("save") EXCEPT !.id = i, !.on = e] \in Calling(n)
  BY <1>4 DEF Calling
<1>7. [Request("toggle") EXCEPT !.id = i, !.on = e] \in Calling(n)
  BY <1>4 DEF Calling
<1>8. [Request("delete") EXCEPT !.id = i] \in Calling(n)
  BY <1>4 DEF Calling
<1>9. [Request("reorder") EXCEPT !.ids = ids, !.previous = rs] \in Calling(n)
  BY <1>4 DEF Calling, Rows
<1> QED BY <1>2, <1>3, <1>4, <1>5, <1>6, <1>7, <1>8, <1>9

(* What becomes of a request. *)
Reply(x, at, answer) == [x EXCEPT !.at = at, !.answer = answer]

LEMMA ReplyFields ==
  ASSUME NEW n, NEW x \in Calling(n),
         NEW at \in {"sent", "written", "answered", "failed"}, NEW answer \in Rows(n)
  PROVE  LET y == Reply(x, at, answer) IN
         /\ y \in Calling(n)
         /\ y.op = x.op /\ y.id = x.id /\ y.ids = x.ids /\ y.previous = x.previous
         /\ y.live = x.live /\ y.at = at /\ y.answer = answer
         /\ y # Idle
<1>1. Idle.at = "idle"
  BY DEF Idle
<1> QED BY <1>1 DEF Calling, Reply, Rows

LEMMA Replied ==
  ASSUME Typed, NEW c \in Calls, NEW at, NEW answer, To(c, at, answer)
  PROVE  call' = [call EXCEPT ![c] = Reply(call[c], at, answer)]
BY DEF Typed, To, Reply, Calling

(* One call changes. *)
LEMMA CallTyped ==
  ASSUME Typed, lastId' \in Nat, lastId <= lastId', NEW c \in Calls,
         NEW y \in Calling(lastId'), Sound(y), call' = [call EXCEPT ![c] = y]
  PROVE  call' \in [Calls -> Calling(lastId')] /\ \A d \in Calls : Sound(call'[d])
<1>1. call \in [Calls -> Calling(lastId)] /\ \A d \in Calls : Sound(call[d])
      /\ lastId \in Nat
  BY DEF Typed, TypeOK
<1>2. Calling(lastId) \subseteq Calling(lastId')
  BY <1>1, Grow
<1>3. \A d \in Calls : call'[d] = IF d = c THEN y ELSE call[d]
  BY <1>1
<1> QED BY <1>1, <1>2, <1>3

LEMMA ShownRow ==
  ASSUME NEW n \in Nat, NEW i \in 1..n
  PROVE  Shown(i) \in Row(n) /\ Shown(i).id = i
<1>1. (i \in on) \in BOOLEAN
  OBVIOUS
<1> QED BY <1>1 DEF Shown, Row

LEMMA AnswerRows ==
  ASSUME Typed
  PROVE  /\ Answer \in Rows(lastId) /\ IdsOf(Answer) = list
         /\ Len(list) \in Nat /\ DOMAIN list = 1..Len(list)
         /\ DOMAIN Answer = 1..Len(list)
         /\ \A k \in DOMAIN list : list[k] \in 1..lastId /\ Answer[k] = Shown(list[k])
<1>1. /\ list \in Seq(Int) /\ Len(list) \in Nat /\ DOMAIN list = 1..Len(list)
      /\ lastId \in Nat
  BY LenProperties DEF Typed, TypeOK
<1>2. \A k \in DOMAIN list : list[k] \in 1..lastId
  BY DEF Typed, TypeOK, ToSet
<1>3. \A k \in DOMAIN list : Shown(list[k]) \in Row(lastId) /\ Shown(list[k]).id = list[k]
  BY <1>1, <1>2, ShownRow
<1>4. /\ DOMAIN Answer = 1..Len(list)
      /\ \A k \in 1..Len(list) : Answer[k] = Shown(list[k])
  BY <1>1 DEF Answer
<1>5. Answer \in Rows(lastId)
  <2>1. Answer \in [1..Len(list) -> Row(lastId)]
    <3>1. Answer = [k \in 1..Len(list) |-> Shown(list[k])]
      BY <1>1 DEF Answer
    <3> QED BY <1>1, <1>3, <3>1
  <2> QED BY <1>1, <2>1 DEF Rows
<1>6. IdsOf(Answer) = list
  <2>1. /\ DOMAIN IdsOf(Answer) = 1..Len(list)
        /\ \A k \in 1..Len(list) : IdsOf(Answer)[k] = list[k]
    BY <1>1, <1>3, <1>4 DEF IdsOf
  <2>2. IdsOf(Answer) = [k \in 1..Len(list) |-> IdsOf(Answer)[k]]
    BY <2>1 DEF IdsOf
  <2>3. list = [k \in 1..Len(list) |-> list[k]]
    BY <1>1, LenProperties
  <2> QED BY <2>1, <2>2, <2>3
<1> QED BY <1>1, <1>2, <1>4, <1>5, <1>6

LEMMA RowsIds ==
  ASSUME NEW n, NEW rs \in Rows(n)
  PROVE  /\ IdsOf(rs) \in Seq(Int) /\ DOMAIN IdsOf(rs) = DOMAIN rs
         /\ DOMAIN rs = 1..Len(rs) /\ Len(rs) \in Nat
         /\ \A k \in DOMAIN rs : rs[k] \in Row(n) /\ rs[k].id \in (1..n) \cup {Undefined}
                                 /\ rs[k].on \in BOOLEAN /\ IdsOf(rs)[k] = rs[k].id
<1>1. Len(rs) \in Nat /\ DOMAIN rs = 1..Len(rs) /\ rs \in [1..Len(rs) -> Row(n)]
  BY LenProperties DEF Rows
<1>2. \A k \in DOMAIN rs : rs[k] \in Row(n) /\ rs[k].id \in (1..n) \cup {Undefined}
                         /\ rs[k].on \in BOOLEAN /\ rs[k].id \in Int
  BY <1>1 DEF Row, Undefined
<1>3. DOMAIN IdsOf(rs) = DOMAIN rs /\ \A k \in DOMAIN rs : IdsOf(rs)[k] = rs[k].id
  BY DEF IdsOf
<1>4. IdsOf(rs) \in Seq(Int)
  <2>1. IdsOf(rs) \in [1..Len(rs) -> Int]
    BY <1>1, <1>2 DEF IdsOf
  <2> QED BY <1>1, <2>1
<1> QED BY <1>1, <1>2, <1>3, <1>4

LEMMA InitTyped == Init => Typed
<1> SUFFICES ASSUME Init PROVE Typed
  OBVIOUS
<1>1. First \in Nat /\ MaxId \in Nat /\ lastId = First /\ First <= MaxId
  BY LinkEditorAssumption DEF Init
<1>2. /\ list \in [1..First -> Int] /\ \A k \in 1..First : list[k] = k
      /\ on = 1..First
  BY <1>1 DEF Init
<1>3. list \in Seq(Int) /\ IsInjective(list) /\ ToSet(list) = 1..First
  BY <1>1, <1>2 DEF IsInjective, ToSet
<1>4. rows \in Seq(Row(lastId)) /\ DOMAIN rows = {}
  BY EmptySeq DEF Init
<1>5. Idle \in Calling(lastId) /\ Sound(Idle)
  <2>1. 0 \in Ids(lastId) /\ TRUE \in BOOLEAN /\ <<>> \in Seq(Int) /\ <<>> \in Rows(lastId)
    BY <1>1, EmptySeq DEF Rows, Ids
  <2> QED BY <1>1, <2>1, Requests
<1>6. call \in [Calls -> Calling(lastId)] /\ \A c \in Calls : Sound(call[c])
  BY <1>5 DEF Init
<1>7. busy = 0 /\ drag \in Nat /\ clashed \in BOOLEAN /\ missed \in BOOLEAN
  BY DEF Init
<1> QED BY <1>1, <1>2, <1>3, <1>4, <1>6, <1>7 DEF Typed, TypeOK

(* Steps of the page leave the server's list alone ... *)
LEMMA PageTyped ==
  ASSUME Typed, UNCHANGED <<list, on, lastId>>,
         rows' \in Rows(lastId), busy' \in Ids(lastId), drag' \in Nat,
         call' \in [Calls -> Calling(lastId)], \A d \in Calls : Sound(call'[d]),
         clashed' \in BOOLEAN, missed' \in BOOLEAN
  PROVE  Typed'
<1>1. \A k \in DOMAIN rows' : rows'[k].id \in (1..lastId) \cup {Undefined} /\ rows'[k].on \in BOOLEAN
  BY RowsIds
<1>2. TypeOK'
  BY <1>1 DEF Typed, TypeOK, Ids
<1> QED BY <1>2 DEF Typed, Rows

(* ... and those of the server the page. *)
LEMMA ServerTyped ==
  ASSUME Typed, UNCHANGED <<rows, busy, drag, clashed>>, missed' \in BOOLEAN,
         lastId' \in lastId..MaxId, list' \in Seq(Int), IsInjective(list'),
         ToSet(list') \subseteq 1..lastId', on' \subseteq ToSet(list'),
         NEW c \in Calls, NEW y \in Calling(lastId'), Sound(y),
         call' = [call EXCEPT ![c] = y]
  PROVE  Typed'
<1>1. lastId \in Nat /\ lastId' \in Nat /\ lastId <= lastId' /\ lastId' \in 0..MaxId
  BY LinkEditorAssumption DEF Typed, TypeOK
<1>2. call' \in [Calls -> Calling(lastId')] /\ \A d \in Calls : Sound(call'[d])
  BY <1>1, CallTyped
<1>3. rows' \in Rows(lastId')
  BY <1>1, Grow DEF Typed, Rows
<1>4. \A k \in DOMAIN rows' : rows'[k].id \in (1..lastId') \cup {Undefined} /\ rows'[k].on \in BOOLEAN
  BY <1>3, RowsIds
<1>5. busy' \in Ids(lastId') /\ drag' \in Nat
  BY <1>1 DEF Typed, TypeOK, Ids
<1>6. TypeOK'
  <2>1. clashed' \in BOOLEAN
    BY DEF Typed, TypeOK
  <2> QED BY <1>1, <1>4, <1>5, <2>1 DEF TypeOK, Ids
<1> QED BY <1>2, <1>3, <1>6 DEF Typed, Rows

LEMMA SendTyped ==
  ASSUME Typed, UNCHANGED <<list, on, lastId>>,
         rows' \in Rows(lastId), busy' \in Ids(lastId), drag' \in Nat,
         NEW c \in Calls, NEW x \in Calling(lastId), Sound(x), Send(c, x)
  PROVE  Typed'
<1>1. lastId \in Nat /\ lastId' = lastId /\ call' = [call EXCEPT ![c] = x]
  BY DEF Typed, TypeOK, Send
<1>2. call' \in [Calls -> Calling(lastId)] /\ \A d \in Calls : Sound(call'[d])
  <2>1. lastId' \in Nat /\ lastId <= lastId' /\ x \in Calling(lastId')
    BY <1>1
  <2>2. call' \in [Calls -> Calling(lastId')] /\ \A d \in Calls : Sound(call'[d])
    BY <1>1, <2>1, CallTyped
  <2> QED BY <1>1, <2>2
<1>3. clashed' \in BOOLEAN /\ missed' \in BOOLEAN
  BY DEF Typed, TypeOK, Send
<1> QED BY <1>2, <1>3, PageTyped

(* Requests as they are sent. *)
LEMMA RequestFields ==
  ASSUME NEW op, NEW i, NEW e, NEW ids, NEW rs
  PROVE  /\ Request(op).op = op /\ Request(op).at = "sent" /\ Request(op).live /\ Request(op).id = 0
         /\ LET x == [Request("create") EXCEPT !.on = e] IN
            x.op = "create" /\ x.at = "sent" /\ x.live /\ x.id = 0
         /\ LET x == [Request("save") EXCEPT !.id = i, !.on = e] IN
            x.op = "save" /\ x.at = "sent" /\ x.live /\ x.id = i
         /\ LET x == [Request("toggle") EXCEPT !.id = i, !.on = e] IN
            x.op = "toggle" /\ x.at = "sent" /\ x.live /\ x.id = i
         /\ LET x == [Request("delete") EXCEPT !.id = i] IN
            x.op = "delete" /\ x.at = "sent" /\ x.live /\ x.id = i
         /\ LET x == [Request("reorder") EXCEPT !.ids = ids, !.previous = rs] IN
            x.op = "reorder" /\ x.at = "sent" /\ x.live /\ x.previous = rs
BY DEF Request, Idle

LEMMA SentSound ==
  ASSUME NEW i, NEW e, NEW ids, NEW rs
  PROVE  /\ Sound(Request("load"))
         /\ Sound([Request("create") EXCEPT !.on = e])
         /\ Sound([Request("save") EXCEPT !.id = i, !.on = e])
         /\ Sound([Request("toggle") EXCEPT !.id = i, !.on = e])
         /\ Sound([Request("delete") EXCEPT !.id = i])
         /\ Sound([Request("reorder") EXCEPT !.ids = ids, !.previous = rs])
BY DEF Sound, Request, Idle

LEMMA SaveTyped ==
  ASSUME Typed, NEW c \in Calls, NEW i \in Ids(lastId), NEW e \in BOOLEAN, Save(c, i, e)
  PROVE  Typed'
<1>1. lastId \in Nat /\ rows' \in Rows(lastId) /\ busy' \in Ids(lastId) /\ drag' \in Nat
      /\ UNCHANGED <<list, on, lastId>>
  BY DEF Typed, TypeOK, Save, Rows, Ids
<1>2. <<>> \in Seq(Int) /\ <<>> \in Rows(lastId)
  BY EmptySeq DEF Rows
<1>3. /\ [Request("create") EXCEPT !.on = e] \in Calling(lastId)
      /\ [Request("save") EXCEPT !.id = i, !.on = e] \in Calling(lastId)
  BY <1>1, <1>2, Requests
<1>4. /\ Sound([Request("create") EXCEPT !.on = e])
      /\ Sound([Request("save") EXCEPT !.id = i, !.on = e])
  BY SentSound
<1>5. \/ Send(c, [Request("create") EXCEPT !.on = e])
      \/ Send(c, [Request("save") EXCEPT !.id = i, !.on = e])
  BY DEF Save
<1> QED BY <1>1, <1>3, <1>4, <1>5, SendTyped

LEMMA ToggleTyped ==
  ASSUME Typed, NEW c \in Calls, NEW k \in DOMAIN rows, Toggle(c, k)
  PROVE  Typed'
<1> DEFINE i == rows[k].id
           e == ~rows[k].on
<1>1. lastId \in Nat /\ rows \in Rows(lastId) /\ UNCHANGED <<list, on, lastId, rows>> /\ busy' = i
      /\ drag' \in Nat
  BY DEF Typed, TypeOK, Toggle, Rows
<1>2. i \in Ids(lastId) /\ e \in BOOLEAN
  BY <1>1, RowsIds DEF Ids
<1>3. Send(c, [Request("toggle") EXCEPT !.id = i, !.on = e])
  BY DEF Toggle
<1> HIDE DEF i, e
<1>4. <<>> \in Seq(Int) /\ <<>> \in Rows(lastId)
  BY EmptySeq DEF Rows
<1>5. [Request("toggle") EXCEPT !.id = i, !.on = e] \in Calling(lastId)
  BY <1>1, <1>2, <1>4, Requests
<1>6. Sound([Request("toggle") EXCEPT !.id = i, !.on = e])
  BY SentSound
<1> QED BY <1>1, <1>2, <1>3, <1>5, <1>6, SendTyped

LEMMA RemoveTyped ==
  ASSUME Typed, NEW c \in Calls, NEW k \in DOMAIN rows, RemoveLink(c, k)
  PROVE  Typed'
<1> DEFINE i == rows[k].id
<1>1. lastId \in Nat /\ rows \in Rows(lastId) /\ UNCHANGED <<list, on, lastId, rows>> /\ busy' = i
      /\ drag' \in Nat
  BY DEF Typed, TypeOK, RemoveLink, Rows
<1>2. i \in Ids(lastId)
  BY <1>1, RowsIds DEF Ids
<1>3. Send(c, [Request("delete") EXCEPT !.id = i])
  BY DEF RemoveLink
<1> HIDE DEF i
<1>4. <<>> \in Seq(Int) /\ <<>> \in Rows(lastId) /\ TRUE \in BOOLEAN
  BY EmptySeq DEF Rows
<1>5. [Request("delete") EXCEPT !.id = i] \in Calling(lastId)
  BY <1>1, <1>2, <1>4, Requests
<1>6. Sound([Request("delete") EXCEPT !.id = i])
  BY SentSound
<1> QED BY <1>1, <1>2, <1>3, <1>5, <1>6, SendTyped

(* A row moved: rows again. *)
LEMMA MovedRows ==
  ASSUME NEW T, NEW s \in Seq(T), NEW from \in DOMAIN s, NEW to \in DOMAIN s
  PROVE  InsertAt(RemoveAt(s, from), to, s[from]) \in Seq(T)
<1> DEFINE t == RemoveAt(s, from)
<1>1. Len(s) \in Nat /\ DOMAIN s = 1..Len(s) /\ \A k \in 1..Len(s) : s[k] \in T
      /\ from \in 1..Len(s) /\ to \in 1..Len(s)
  BY LenProperties
<1>2. /\ SubSeq(s, 1, from - 1) \in Seq(T) /\ Len(SubSeq(s, 1, from - 1)) = from - 1
      /\ SubSeq(s, from + 1, Len(s)) \in Seq(T)
      /\ Len(SubSeq(s, from + 1, Len(s))) = Len(s) - from
  <2>1. \A k \in 1..(from - 1) : s[k] \in T
    BY <1>1
  <2>2. \A k \in (from + 1)..Len(s) : s[k] \in T
    BY <1>1
  <2> QED BY <1>1, <2>1, <2>2, SubSeqProperties
<1>3. t \in Seq(T) /\ Len(t) = Len(s) - 1
  BY <1>1, <1>2, ConcatProperties DEF RemoveAt
<1> HIDE DEF t
<1>4. \A k \in 1..(Len(s) - 1) : t[k] \in T
  BY <1>3, LenProperties
<1>5. SubSeq(t, 1, to - 1) \in Seq(T) /\ SubSeq(t, to, Len(t)) \in Seq(T)
  <2>1. \A k \in 1..(to - 1) : t[k] \in T
    BY <1>1, <1>4
  <2>2. \A k \in to..Len(t) : t[k] \in T
    BY <1>1, <1>3, <1>4
  <2> QED BY <1>1, <1>3, <2>1, <2>2, SubSeqProperties
<1>6. <<s[from]>> \in Seq(T)
  BY <1>1
<1> QED BY <1>5, <1>6, ConcatProperties DEF InsertAt, t

LEMMA OrderTyped ==
  ASSUME Typed, NEW c \in Calls, NEW from \in DOMAIN rows, NEW to \in DOMAIN rows,
         ApplyOrder(c, Moved(rows, from, to)), drag' \in Nat
  PROVE  Typed'
<1> DEFINE next == Moved(rows, from, to)
           x == [Request("reorder") EXCEPT !.ids = IdsOf(next), !.previous = rows]
<1>1. /\ lastId \in Nat /\ rows \in Rows(lastId) /\ UNCHANGED <<list, on, lastId, busy>>
      /\ busy \in Ids(lastId) /\ rows' = next /\ Send(c, x)
  BY DEF Typed, TypeOK, ApplyOrder, Rows, Ids
<1>2. next \in Rows(lastId)
  BY <1>1, MovedRows DEF Rows, Moved
<1> HIDE DEF next
<1>3. IdsOf(next) \in Seq(Int)
  BY <1>2, RowsIds
<1>4. x \in Calling(lastId)
  <2>1. 0 \in Ids(lastId) /\ TRUE \in BOOLEAN
    BY <1>1 DEF Ids
  <2> QED BY <1>1, <1>3, <2>1, Requests
<1>5. Sound(x)
  BY SentSound
<1> HIDE DEF x
<1> QED BY <1>1, <1>2, <1>4, <1>5, SendTyped

LEMMA MoveTyped ==
  ASSUME Typed, NEW c \in Calls, NEW from \in DOMAIN rows, NEW to \in DOMAIN rows,
         Move(c, from, to)
  PROVE  Typed'
<1>1. ApplyOrder(c, Moved(rows, from, to)) /\ drag' \in Nat
  BY DEF Move, Typed, TypeOK
<1> QED BY <1>1, OrderTyped

LEMMA DropTyped ==
  ASSUME Typed, NEW c \in Calls, NEW to \in DOMAIN rows, Drop(c, to)
  PROVE  Typed'
<1>1. drag \in DOMAIN rows /\ ApplyOrder(c, Moved(rows, drag, to)) /\ drag' \in Nat
  BY DEF Drop
<1> QED BY <1>1, OrderTyped

(* An entry inserted: the others keep their order. *)
LEMMA Inserted ==
  ASSUME NEW T, NEW s \in Seq(T), NEW to \in DOMAIN s, NEW e \in T
  PROVE  /\ InsertAt(s, to, e) \in Seq(T)
         /\ DOMAIN InsertAt(s, to, e) = 1..(Len(s) + 1)
         /\ \A k \in 1..(Len(s) + 1) :
              InsertAt(s, to, e)[k] =
                IF k < to THEN s[k] ELSE IF k = to THEN e ELSE s[k - 1]
<1>1. Len(s) \in Nat /\ DOMAIN s = 1..Len(s) /\ \A k \in 1..Len(s) : s[k] \in T
  BY LenProperties
<1> DEFINE a == SubSeq(s, 1, to - 1)
           b == SubSeq(s, to, Len(s))
           t == a \o <<e>>
           u == t \o b
<1>2. to \in 1..Len(s) /\ to \in Int
  BY <1>1
<1>3. /\ a \in Seq(T) /\ Len(a) = to - 1 /\ \A k \in 1..(to - 1) : a[k] = s[k]
  <2>1. \A k \in 1..(to - 1) : s[k] \in T
    BY <1>1, <1>2
  <2>2. /\ SubSeq(s, 1, to - 1) \in Seq(T) /\ Len(SubSeq(s, 1, to - 1)) = to - 1
    BY <1>1, <1>2, <2>1, SubSeqProperties
  <2>3. \A k \in 1..(to - 1) : SubSeq(s, 1, to - 1)[k] = s[k]
    BY <1>1, <1>2, <2>1, SubSeqProperties
  <2> QED BY <2>2, <2>3
<1>4. /\ b \in Seq(T) /\ Len(b) = Len(s) - to + 1
      /\ \A k \in 1..(Len(s) - to + 1) : b[k] = s[to + k - 1]
  <2>1. \A k \in to..Len(s) : s[k] \in T
    BY <1>1, <1>2
  <2>2. /\ SubSeq(s, to, Len(s)) \in Seq(T) /\ Len(SubSeq(s, to, Len(s))) = Len(s) - to + 1
    BY <1>1, <1>2, <2>1, SubSeqProperties
  <2>3. \A k \in 1..(Len(s) - to + 1) : SubSeq(s, to, Len(s))[k] = s[to + k - 1]
    BY <1>1, <1>2, <2>1, SubSeqProperties
  <2> QED BY <2>2, <2>3
<1> HIDE DEF a, b
<1>5. <<e>> \in Seq(T) /\ Len(<<e>>) = 1 /\ <<e>>[1] = e
  OBVIOUS
<1>6. /\ t \in Seq(T) /\ Len(t) = to
      /\ \A k \in 1..to : t[k] = IF k < to THEN s[k] ELSE e
  <2>1. t \in Seq(T) /\ Len(t) = to
    BY <1>2, <1>3, <1>5, ConcatProperties
  <2>2. \A k \in 1..to : t[k] = IF k <= Len(a) THEN a[k] ELSE <<e>>[k - Len(a)]
    BY <1>2, <1>3, <1>5, ConcatProperties
  <2>3. ASSUME NEW k \in 1..to PROVE t[k] = IF k < to THEN s[k] ELSE e
    <3>1. CASE k < to
      BY <1>2, <1>3, <2>2, <3>1
    <3>2. CASE k = to
      <4>1. k - Len(a) = 1 /\ ~(k <= Len(a)) /\ ~(k < to)
        BY <1>2, <1>3, <3>2
      <4>2. t[k] = <<e>>[k - Len(a)]
        BY <2>2, <4>1
      <4> QED BY <1>5, <4>1, <4>2
    <3>3. k < to \/ k = to
      BY <1>2
    <3> QED BY <3>1, <3>2, <3>3
  <2> QED BY <2>1, <2>3
<1> HIDE DEF t
<1>7. u \in Seq(T) /\ Len(u) = Len(s) + 1
      /\ \A k \in 1..(Len(s) + 1) : u[k] = IF k <= to THEN t[k] ELSE b[k - to]
  <2>1. u \in Seq(T) /\ Len(u) = Len(t) + Len(b)
    BY <1>4, <1>6, ConcatProperties
  <2>2. \A k \in 1..(Len(t) + Len(b)) : u[k] = IF k <= Len(t) THEN t[k] ELSE b[k - Len(t)]
    BY <1>4, <1>6, ConcatProperties
  <2>3. Len(t) + Len(b) = Len(s) + 1
    BY <1>1, <1>2, <1>4, <1>6
  <2> HIDE DEF u
  <2> QED BY <1>6, <2>1, <2>2, <2>3
<1> HIDE DEF u
<1>8. DOMAIN u = 1..(Len(s) + 1)
  BY <1>7, LenProperties
<1>9. ASSUME NEW k \in 1..(Len(s) + 1)
      PROVE  u[k] = IF k < to THEN s[k] ELSE IF k = to THEN e ELSE s[k - 1]
  <2>1. CASE k <= to
    BY <1>1, <1>2, <1>6, <1>7, <2>1
  <2>2. CASE k > to
    <3>1. k - to \in 1..(Len(s) - to + 1) /\ to + (k - to) - 1 = k - 1
      BY <1>1, <1>2, <2>2
    <3>2. u[k] = b[k - to] /\ b[k - to] = s[to + (k - to) - 1]
      BY <1>1, <1>2, <1>4, <1>7, <2>2, <3>1
    <3> QED BY <1>1, <1>2, <2>2, <3>1, <3>2
  <2> QED BY <1>1, <1>2, <2>1, <2>2
<1>10. InsertAt(s, to, e) = u
  BY DEF InsertAt, u, t, a, b
<1> QED BY <1>7, <1>8, <1>9, <1>10

LEMMA DropNothingTyped ==
  ASSUME Typed, NEW to \in DOMAIN rows, DropNothing(to)
  PROVE  Typed'
<1>1. /\ lastId \in Nat /\ rows \in Seq(Row(lastId)) /\ UNCHANGED <<list, on, lastId>>
      /\ busy' \in Ids(lastId) /\ drag' \in Nat /\ clashed' \in BOOLEAN /\ missed' \in BOOLEAN
      /\ call' \in [Calls -> Calling(lastId)] /\ \A d \in Calls : Sound(call'[d])
      /\ rows' = InsertAt(rows, to, NoLink)
  BY DEF Typed, TypeOK, DropNothing, Ids
<1>2. NoLink \in Row(lastId)
  BY DEF NoLink, Row
<1>3. rows' \in Rows(lastId)
  BY <1>1, <1>2, Inserted DEF Rows
<1> QED BY <1>1, <1>3, PageTyped

LEMMA DragTyped ==
  ASSUME Typed, drag' \in Nat, UNCHANGED <<list, on, lastId, rows, busy, call, clashed, missed>>
  PROVE  Typed'
BY DEF Typed, TypeOK

(* What goes on of a page that is left. *)
LEMMA LeftOf ==
  ASSUME NEW n \in Nat, NEW x \in Calling(n), Sound(x)
  PROVE  Left(x) \in Calling(n) /\ Sound(Left(x))
<1>1. <<>> \in Seq(Int) /\ <<>> \in Rows(n) /\ 0 \in Ids(n) /\ TRUE \in BOOLEAN
  BY EmptySeq DEF Rows, Ids
<1>2. Idle \in Calling(n) /\ Sound(Idle)
  BY <1>1, Requests
<1>3. CASE x.at = "sent" /\ x.op # "load"
  <2> DEFINE y == [x EXCEPT !.live = FALSE, !.previous = <<>>]
  <2>1. y \in Calling(n) /\ y.op = x.op /\ y.at = x.at
    BY <1>1 DEF Calling, Rows
  <2>2. x # Idle
    BY <1>3 DEF Idle
  <2>3. x.op # "none"
    BY <2>2 DEF Sound
  <2>4. Left(x) = y
    BY <1>3 DEF Left
  <2> HIDE DEF y
  <2>5. Sound(y)
    BY <1>3, <2>1, <2>3 DEF Sound
  <2> QED BY <2>1, <2>4, <2>5
<1>4. CASE ~(x.at = "sent" /\ x.op # "load")
  BY <1>2, <1>4 DEF Left
<1> QED BY <1>3, <1>4

LEMMA OpenTyped ==
  ASSUME Typed, NEW c \in Calls, Open(c)
  PROVE  Typed'
<1>1. lastId \in Nat /\ UNCHANGED <<list, on, lastId>> /\ rows' = <<>> /\ busy' = 0 /\ drag' = 0
      /\ clashed' = (\E d \in Calls : Left(call[d]) # Idle) /\ missed' = FALSE
  BY DEF Typed, TypeOK, Open
<1>2. rows' \in Rows(lastId) /\ busy' \in Ids(lastId) /\ drag' \in Nat
  BY <1>1, EmptySeq DEF Rows, Ids
<1>3. clashed' \in BOOLEAN /\ missed' \in BOOLEAN
  BY <1>1
<1>4. Request("load") \in Calling(lastId)
  <2>1. 0 \in Ids(lastId) /\ TRUE \in BOOLEAN /\ <<>> \in Seq(Int) /\ <<>> \in Rows(lastId)
    BY <1>1, EmptySeq DEF Rows, Ids
  <2> QED BY <1>1, <2>1, Requests
<1>5. \A d \in Calls : Left(call[d]) \in Calling(lastId) /\ Sound(Left(call[d]))
  BY <1>1, LeftOf DEF Typed
<1>6. Sound(Request("load"))
  BY SentSound
<1>7. \A d \in Calls : call'[d] \in Calling(lastId) /\ Sound(call'[d])
  BY <1>4, <1>5, <1>6 DEF Open
<1>8. call' \in [Calls -> Calling(lastId)]
  <2>1. call' = [d \in Calls |-> call'[d]]
    BY DEF Open
  <2> QED BY <1>7, <2>1
<1> QED BY <1>1, <1>2, <1>3, <1>7, <1>8, PageTyped

(* What an answer does to the page. *)
LEMMA Received ==
  ASSUME Typed, NEW c \in Calls, Receive(c), NEW x, x = call[c]
  PROVE  /\ call' = [call EXCEPT ![c] = Idle]
         /\ UNCHANGED <<list, on, lastId, drag, clashed, missed>>
         /\ x.op # "none" /\ x.at \in {"answered", "failed"}
         /\ ~x.live => rows' = rows
         /\ x.live =>
              /\ x.at = "failed" =>
                   rows' = IF x.op = "reorder" THEN x.previous ELSE rows
              /\ x.at = "answered" =>
                   /\ x.op \in WholeList => rows' = x.answer
                   /\ x.op = "create" => rows' = rows \o x.answer
                   /\ x.op \in {"save", "toggle"} =>
                        rows' = [k \in DOMAIN rows |->
                                   IF rows[k].id = x.id THEN x.answer[1] ELSE rows[k]]
                   /\ x.op = "delete" => rows' = Without(rows, x.id)
<1>1. call[c] \in Calling(lastId) /\ Sound(call[c]) /\ Idle.at = "idle"
  BY DEF Typed, Idle
<1>2. x.at \in {"answered", "failed"}
  BY DEF Receive
<1>3. x.op # "none"
  BY <1>1, <1>2 DEF Sound
<1>4. call' = [call EXCEPT ![c] = Idle] /\ UNCHANGED <<list, on, lastId, drag, clashed, missed>>
  BY DEF Receive
<1>5. ~x.live => rows' = rows
  BY DEF Receive
<1>6. x.live /\ x.at = "failed" => rows' = IF x.op = "reorder" THEN x.previous ELSE rows
  BY DEF Receive
<1>7. x.live /\ x.at = "answered" /\ x.op \in WholeList => rows' = x.answer
  BY DEF Receive, WholeList
<1>8. x.live /\ x.at = "answered" /\ x.op = "create" => rows' = rows \o x.answer
  BY DEF Receive, WholeList
<1>9. x.live /\ x.at = "answered" /\ x.op \in {"save", "toggle"} =>
        rows' = [k \in DOMAIN rows |-> IF rows[k].id = x.id THEN x.answer[1] ELSE rows[k]]
  BY DEF Receive, WholeList
<1>10. x.live /\ x.at = "answered" /\ x.op = "delete" => rows' = Without(rows, x.id)
  BY DEF Receive, WholeList
<1> QED BY <1>2, <1>3, <1>4, <1>5, <1>6, <1>7, <1>8, <1>9, <1>10

(* A row exchanged for another. *)
LEMMA ExchangedRows ==
  ASSUME NEW n, NEW rs \in Rows(n), NEW i, NEW r \in Row(n)
  PROVE  [k \in DOMAIN rs |-> IF rs[k].id = i THEN r ELSE rs[k]] \in Rows(n)
<1> DEFINE ts == [k \in DOMAIN rs |-> IF rs[k].id = i THEN r ELSE rs[k]]
<1>1. DOMAIN rs = 1..Len(rs) /\ Len(rs) \in Nat /\ \A k \in DOMAIN rs : rs[k] \in Row(n)
  BY RowsIds
<1>2. ts \in [1..Len(rs) -> Row(n)]
  BY <1>1
<1> HIDE DEF ts
<1>3. ts \in Seq(Row(n))
  BY <1>1, <1>2
<1> QED BY <1>3 DEF Rows, ts

LEMMA WithoutRows ==
  ASSUME NEW n, NEW rs \in Rows(n), NEW i
  PROVE  /\ Without(rs, i) \in Rows(n)
         /\ LET ids == IdsOf(rs) IN
            IdsOf(Without(rs, i)) = Kept(ids, {k \in DOMAIN ids : ids[k] # i})
<1> DEFINE ids == IdsOf(rs)
           ks == {k \in DOMAIN rs : rs[k].id # i}
           ts == Kept(rs, ks)
           N == Cardinality(ks)
<1>1. /\ DOMAIN ids = DOMAIN rs
      /\ \A k \in DOMAIN rs : ids[k] = rs[k].id
  BY RowsIds
<1>2. ks = {k \in DOMAIN ids : ids[k] # i}
  BY <1>1
<1>3. /\ Kept(rs, ks) \in Seq(Row(n))
      /\ DOMAIN Kept(rs, ks) = 1..Cardinality(ks)
      /\ \A j \in 1..Cardinality(ks) : Nth(ks, j) \in ks /\ Kept(rs, ks)[j] = rs[Nth(ks, j)]
  <2>1. ks \in SUBSET (DOMAIN rs) /\ rs \in Seq(Row(n))
    BY DEF Rows
  <2> HIDE DEF ks
  <2> QED BY <2>1, Filtered
<1>4. IdsOf(ts) = Kept(ids, ks)
  <2>1. \A j \in 1..N : Nth(ks, j) \in DOMAIN rs
    BY <1>3
  <2>2. IdsOf(ts) = [j \in 1..N |-> ts[j].id]
    BY <1>3 DEF IdsOf
  <2>3. \A j \in 1..N : ts[j].id = ids[Nth(ks, j)]
    BY <1>1, <1>3, <2>1
  <2> HIDE DEF ts, ids, ks, N
  <2>4. Kept(ids, ks) = [j \in 1..N |-> ids[Nth(ks, j)]]
    BY DEF Kept, N
  <2> QED BY <2>2, <2>3, <2>4
<1> QED BY <1>2, <1>3, <1>4 DEF Without, Rows

LEMMA ReceiveTyped ==
  ASSUME Typed, NEW c \in Calls, Receive(c)
  PROVE  Typed'
<1> DEFINE x == call[c]
<1>1. /\ lastId \in Nat /\ rows \in Rows(lastId) /\ busy \in Ids(lastId)
      /\ x \in Calling(lastId) /\ Sound(x)
      /\ drag \in Nat /\ clashed \in BOOLEAN /\ missed \in BOOLEAN
  BY DEF Typed, TypeOK, Rows, Ids
<1>2. busy' \in Ids(lastId)
  <2>1. busy' = 0 \/ busy' = busy
    BY DEF Receive
  <2> QED BY <1>1, <2>1 DEF Ids
<1>3. Idle \in Calling(lastId) /\ Sound(Idle)
  <2>1. 0 \in Ids(lastId) /\ TRUE \in BOOLEAN /\ <<>> \in Seq(Int) /\ <<>> \in Rows(lastId)
    BY <1>1, EmptySeq DEF Rows, Ids
  <2> QED BY <1>1, <2>1, Requests
<1>4. /\ call' = [call EXCEPT ![c] = Idle]
      /\ UNCHANGED <<list, on, lastId, drag, clashed, missed>>
      /\ x.op # "none" /\ x.at \in {"answered", "failed"}
      /\ ~x.live => rows' = rows
      /\ x.live =>
           /\ x.at = "failed" =>
                rows' = IF x.op = "reorder" THEN x.previous ELSE rows
           /\ x.at = "answered" =>
                /\ x.op \in WholeList => rows' = x.answer
                /\ x.op = "create" => rows' = rows \o x.answer
                /\ x.op \in {"save", "toggle"} =>
                     rows' = [k \in DOMAIN rows |->
                                IF rows[k].id = x.id THEN x.answer[1] ELSE rows[k]]
                /\ x.op = "delete" => rows' = Without(rows, x.id)
  BY Received
<1>5. call' \in [Calls -> Calling(lastId)] /\ \A d \in Calls : Sound(call'[d])
  <2>1. lastId' \in Nat /\ lastId <= lastId' /\ Idle \in Calling(lastId')
    BY <1>1, <1>3, <1>4
  <2>2. call' \in [Calls -> Calling(lastId')] /\ \A d \in Calls : Sound(call'[d])
    BY <1>3, <1>4, <2>1, CallTyped
  <2> QED BY <1>4, <2>2
<1>6. x.previous \in Rows(lastId) /\ x.answer \in Rows(lastId)
      /\ x.op \in {"load", "create", "save", "toggle", "delete", "reorder"}
  BY <1>1, <1>4 DEF Calling, Rows
<1> HIDE DEF x
<1>7. rows' \in Rows(lastId)
  <2>1. CASE ~x.live \/ x.at = "failed"
    BY <1>1, <1>4, <1>6, <2>1
  <2>2. CASE x.live /\ x.at = "answered" /\ x.op \in WholeList
    BY <1>4, <1>6, <2>2
  <2>3. CASE x.live /\ x.at = "answered" /\ x.op = "create"
    <3>1. rows' = rows \o x.answer
      BY <1>4, <2>3
    <3> QED BY <1>1, <1>6, <3>1, ConcatProperties DEF Rows
  <2>4. CASE x.live /\ x.at = "answered" /\ x.op \in {"save", "toggle"}
    <3>1. Len(x.answer) = 1
      BY <1>1, <2>4 DEF Sound
    <3>2. x.answer[1] \in Row(lastId)
      BY <1>6, <3>1, RowsIds
    <3>3. rows' = [k \in DOMAIN rows |-> IF rows[k].id = x.id THEN x.answer[1] ELSE rows[k]]
      BY <1>4, <2>4
    <3> QED BY <1>1, <3>2, <3>3, ExchangedRows
  <2>5. CASE x.live /\ x.at = "answered" /\ x.op = "delete"
    BY <1>1, <1>4, <2>5, WithoutRows
  <2> QED BY <1>4, <1>6, <2>1, <2>2, <2>3, <2>4, <2>5 DEF WholeList
<1> QED BY <1>1, <1>2, <1>4, <1>5, <1>7, PageTyped

(* The server changes nothing but the call. *)
LEMMA ToTyped ==
  ASSUME Typed, UNCHANGED <<rows, busy, drag, clashed, list, lastId>>, missed' \in BOOLEAN,
         on' \subseteq ToSet(list),
         NEW c \in Calls, NEW at \in {"sent", "written", "answered", "failed"},
         NEW answer \in Rows(lastId), To(c, at, answer),
         Sound(Reply(call[c], at, answer))
  PROVE  Typed'
<1> DEFINE y == Reply(call[c], at, answer)
<1>1. /\ call[c] \in Calling(lastId) /\ lastId \in 0..MaxId /\ lastId \in Nat /\ MaxId \in Nat
      /\ list \in Seq(Int) /\ IsInjective(list) /\ ToSet(list) \subseteq 1..lastId
  BY LinkEditorAssumption DEF Typed, TypeOK
<1>2. y \in Calling(lastId)
  BY <1>1, ReplyFields
<1>3. call' = [call EXCEPT ![c] = y]
  BY Replied
<1> HIDE DEF y
<1>4. /\ y \in Calling(lastId') /\ lastId' \in lastId..MaxId /\ list' \in Seq(Int)
      /\ IsInjective(list') /\ ToSet(list') \subseteq 1..lastId' /\ on' \subseteq ToSet(list')
      /\ UNCHANGED <<rows, busy, drag, clashed>>
  BY <1>1, <1>2
<1>5. Sound(y)
  BY DEF y
<1> QED BY <1>3, <1>4, <1>5, ServerTyped

LEMMA NoRows == ASSUME NEW n PROVE <<>> \in Rows(n) /\ Len(<<>>) = 0
BY EmptySeq DEF Rows

(* A reply is sound if it is what the operation may be told. *)
LEMMA ReplySound ==
  ASSUME Typed, NEW c \in Calls, call[c].op # "none",
         NEW at \in {"sent", "written", "answered", "failed"}, NEW answer \in Rows(lastId),
         at = "written" => call[c].op \in {"create", "save", "toggle", "reorder"},
         at = "answered" /\ call[c].op \in {"create", "save", "toggle"} => Len(answer) = 1
  PROVE  Sound(Reply(call[c], at, answer))
<1>1. call[c] \in Calling(lastId)
  BY DEF Typed
<1>2. LET y == Reply(call[c], at, answer) IN y.op = call[c].op /\ y.at = at /\ y.answer = answer
  BY <1>1 DEF Reply, Calling
<1> QED BY <1>2 DEF Sound

LEMMA Asked ==
  ASSUME Typed, NEW c \in Calls, call[c].at # "idle"
  PROVE  call[c].op # "none" /\ call[c] # Idle /\ call[c].op \in {"load", "create", "save", "toggle", "delete", "reorder"}
<1>1. call[c] \in Calling(lastId) /\ Sound(call[c]) /\ Idle.at = "idle"
  BY DEF Typed, Idle
<1> QED BY <1>1 DEF Sound, Calling

LEMMA ListTyped ==
  ASSUME Typed, NEW c \in Calls, List(c), UNCHANGED <<rows, busy, drag, clashed, missed>>
  PROVE  Typed'
<1>1. /\ call[c].op = "load" /\ To(c, "answered", Answer)
      /\ UNCHANGED <<list, on, lastId>> /\ missed' \in BOOLEAN /\ on' \subseteq ToSet(list)
  BY DEF List, Typed, TypeOK
<1>2. Answer \in Rows(lastId)
  BY AnswerRows
<1>3. Sound(Reply(call[c], "answered", Answer))
  BY <1>1, <1>2, ReplySound
<1> QED BY <1>1, <1>2, <1>3, ToTyped

LEMMA CreateTyped ==
  ASSUME Typed, NEW c \in Calls, Create(c), UNCHANGED <<rows, busy, drag, clashed, missed>>
  PROVE  Typed'
<1> DEFINE i == lastId + 1
           y == [call[c] EXCEPT !.at = "written", !.id = i]
<1>1. /\ lastId \in Nat /\ MaxId \in Nat /\ lastId < MaxId /\ lastId' = i
      /\ list' = Append(list, i)
      /\ on' = IF call[c].on THEN on \cup {i} ELSE on
      /\ list \in Seq(Int) /\ Len(list) \in Nat /\ DOMAIN list = 1..Len(list)
      /\ call[c] \in Calling(lastId) /\ call[c].op = "create"
      /\ \A k \in DOMAIN list : list[k] \in 1..lastId
      /\ IsInjective(list) /\ on \subseteq ToSet(list)
  BY AnswerRows, LinkEditorAssumption DEF Create, Typed, TypeOK
<1>2. i \in Nat /\ i \in 0..i /\ lastId <= i /\ i \notin 1..lastId /\ i \in 1..i /\ i \in lastId..MaxId
      /\ 1..lastId \subseteq 1..i
  BY <1>1
<1>3. y \in Calling(i) /\ y.op = "create" /\ y.at = "written"
  <2>1. call[c] \in Calling(i)
    BY <1>1, <1>2, Grow
  <2>2. i \in Ids(i)
    BY <1>2 DEF Ids
  <2> HIDE DEF i
  <2> QED BY <1>1, <2>1, <2>2 DEF Calling
<1>4. call' = [call EXCEPT ![c] = y]
  BY DEF Create, Typed, Calling
<1> HIDE DEF i, y
<1>5. /\ list' \in Seq(Int) /\ Len(list') = Len(list) + 1
      /\ \A k \in 1..Len(list) : list'[k] = list[k]
      /\ list'[Len(list) + 1] = i
      /\ DOMAIN list' = 1..(Len(list) + 1)
  <2>1. /\ list' \in Seq(Int) /\ Len(list') = Len(list) + 1
        /\ \A k \in 1..Len(list) : list'[k] = list[k]
        /\ list'[Len(list) + 1] = i
    BY <1>1, <1>2, AppendProperties
  <2>2. list' \in Seq(Int) => DOMAIN list' = 1..Len(list')
    BY LenProperties
  <2> QED BY <2>1, <2>2
<1>6. \A k \in DOMAIN list' : k \in 1..Len(list) \/ k = Len(list) + 1
  BY <1>1, <1>5
<1>7. IsInjective(list')
  <2>1. ASSUME NEW a \in DOMAIN list', NEW b \in DOMAIN list', list'[a] = list'[b]
        PROVE  a = b
    <3>1. \A k \in 1..Len(list) : list'[k] # i /\ list'[k] = list[k]
      BY <1>1, <1>2, <1>5
    <3> QED BY <1>1, <1>5, <1>6, <2>1, <3>1 DEF IsInjective
  <2> QED BY <2>1 DEF IsInjective
<1>8. ToSet(list') = ToSet(list) \cup {i}
  <2>1. \A e : e \in ToSet(list') <=> \E k \in DOMAIN list' : list'[k] = e
    BY DEF ToSet
  <2>2. \A e : e \in ToSet(list) <=> \E k \in DOMAIN list : list[k] = e
    BY DEF ToSet
  <2>3. ASSUME NEW e PROVE e \in ToSet(list') <=> e \in ToSet(list) \cup {i}
    <3>1. Len(list) + 1 \in DOMAIN list' /\ \A k \in 1..Len(list) : k \in DOMAIN list'
      BY <1>1, <1>5
    <3> QED BY <1>1, <1>5, <1>6, <2>1, <2>2, <3>1
  <2> QED BY <2>3
<1>9. ToSet(list') \subseteq 1..i /\ on' \subseteq ToSet(list')
  <2>1. ToSet(list) \subseteq 1..lastId
    BY DEF Typed, TypeOK
  <2> QED BY <1>1, <1>2, <1>8, <2>1
<1>10. Sound(y)
  BY <1>3 DEF Sound
<1>11. y \in Calling(lastId') /\ lastId' \in lastId..MaxId /\ ToSet(list') \subseteq 1..lastId'
       /\ missed' \in BOOLEAN
  BY <1>1, <1>2, <1>3, <1>9 DEF Typed, TypeOK
<1> QED BY <1>4, <1>5, <1>7, <1>9, <1>10, <1>11, ServerTyped

LEMMA UpdateTyped ==
  ASSUME Typed, NEW c \in Calls, Update(c), UNCHANGED <<rows, busy, drag, clashed, missed>>
  PROVE  Typed'
<1>1. /\ call[c].op \in {"save", "toggle"} /\ UNCHANGED <<list, lastId>>
      /\ To(c, "written", <<>>) \/ To(c, "failed", <<>>)
      /\ missed' \in BOOLEAN /\ <<>> \in Rows(lastId)
  BY NoRows DEF Update, Typed, TypeOK
<1>2. on' \subseteq ToSet(list)
  <2>1. on \subseteq ToSet(list)
    BY DEF Typed, TypeOK
  <2>2. Contains(list, call[c].id) => call[c].id \in ToSet(list)
    BY AnswerRows DEF Contains, ToSet
  <2> QED BY <2>1, <2>2 DEF Update
<1>3. Sound(Reply(call[c], "written", <<>>)) /\ Sound(Reply(call[c], "failed", <<>>))
  BY <1>1, ReplySound
<1> QED BY <1>1, <1>2, <1>3, ToTyped

(* A link taken out of the server's list. *)
LEMMA ServerKeeps ==
  ASSUME NEW l \in Seq(Int), IsInjective(l), NEW i,
         NEW ks, ks = {k \in DOMAIN l : l[k] # i}
  PROVE  /\ Kept(l, ks) \in Seq(Int) /\ IsInjective(Kept(l, ks))
         /\ ToSet(Kept(l, ks)) = ToSet(l) \ {i}
<1> DEFINE t == Kept(l, ks)
           N == Cardinality(ks)
<1>0. ks \in SUBSET (DOMAIN l) /\ DOMAIN l = 1..Len(l) /\ Len(l) \in Nat
  BY LenProperties
<1>1. /\ Kept(l, ks) \in Seq(Int)
      /\ ToSet(Kept(l, ks)) = {l[k] : k \in ks}
      /\ DOMAIN Kept(l, ks) = 1..Cardinality(ks)
      /\ \A j \in 1..Cardinality(ks) : Nth(ks, j) \in ks /\ Kept(l, ks)[j] = l[Nth(ks, j)]
      /\ \A j, h \in 1..Cardinality(ks) : j < h => Nth(ks, j) < Nth(ks, h)
  BY <1>0, Filtered
<1>2. N \in Nat
  BY <1>0, Places
<1>3. ToSet(t) = ToSet(l) \ {i}
  BY <1>1 DEF ToSet
<1> HIDE DEF t, N
<1>4. ASSUME NEW a \in 1..N, NEW b \in 1..N, t[a] = t[b] PROVE a = b
  <2>1. /\ Nth(ks, a) \in DOMAIN l /\ Nth(ks, b) \in DOMAIN l
        /\ l[Nth(ks, a)] = l[Nth(ks, b)]
    BY <1>0, <1>1, <1>4 DEF t, N
  <2>2. Nth(ks, a) = Nth(ks, b) /\ Nth(ks, a) \in Int
    BY <1>0, <2>1 DEF IsInjective
  <2>3. /\ a < b => Nth(ks, a) < Nth(ks, b)
        /\ b < a => Nth(ks, b) < Nth(ks, a)
    BY <1>1 DEF N
  <2>4. ~(a < b) /\ ~(b < a)
    BY <2>2, <2>3
  <2> QED BY <1>2, <2>4
<1>5. DOMAIN t = 1..N
  BY <1>1 DEF t, N
<1>6. IsInjective(t)
  BY <1>4, <1>5 DEF IsInjective
<1> QED BY <1>1, <1>3, <1>6 DEF t

LEMMA DeleteTyped ==
  ASSUME Typed, NEW c \in Calls, Delete(c), UNCHANGED <<rows, busy, drag, clashed, missed>>
  PROVE  Typed'
<1> DEFINE i == call[c].id
           at == IF Contains(list, i) THEN "answered" ELSE "failed"
           y == Reply(call[c], at, <<>>)
<1>1. /\ list' = Kept(list, {k \in DOMAIN list : list[k] # i})
      /\ on' = on \ {i} /\ lastId' = lastId /\ call[c].op = "delete" /\ To(c, at, <<>>)
  BY DEF Delete
<1>2. /\ lastId \in 0..MaxId /\ lastId \in Nat /\ MaxId \in Nat
      /\ list \in Seq(Int) /\ IsInjective(list) /\ ToSet(list) \subseteq 1..lastId
      /\ on \subseteq ToSet(list) /\ missed' \in BOOLEAN /\ <<>> \in Rows(lastId)
  BY NoRows, LinkEditorAssumption DEF Typed, TypeOK
<1>3. list' \in Seq(Int) /\ IsInjective(list') /\ ToSet(list') = ToSet(list) \ {i}
  <2> HIDE DEF i
  <2> QED BY <1>1, <1>2, ServerKeeps
<1>4. ToSet(list') \subseteq 1..lastId' /\ on' \subseteq ToSet(list')
  BY <1>1, <1>2, <1>3
<1>5. at \in {"sent", "written", "answered", "failed"} /\ at # "written"
  OBVIOUS
<1> HIDE DEF at
<1>6. Sound(y) /\ call' = [call EXCEPT ![c] = y] /\ y \in Calling(lastId)
  <2>1. call[c] \in Calling(lastId)
    BY DEF Typed
  <2>2. Sound(y)
    BY <1>1, <1>2, <1>5, ReplySound
  <2>3. call' = [call EXCEPT ![c] = y]
    BY <1>1, Replied
  <2>4. y \in Calling(lastId)
    BY <1>2, <1>5, <2>1, ReplyFields
  <2> QED BY <2>2, <2>3, <2>4
<1> HIDE DEF y, i
<1>7. y \in Calling(lastId') /\ lastId' \in lastId..MaxId
  BY <1>1, <1>2, <1>6
<1> QED BY <1>2, <1>3, <1>4, <1>6, <1>7, ServerTyped

LEMMA ReorderTyped ==
  ASSUME Typed, NEW c \in Calls, Reorder(c), UNCHANGED <<rows, busy, drag, clashed, missed>>
  PROVE  Typed'
<1>1. /\ call[c].op = "reorder" /\ UNCHANGED <<on, lastId>>
      /\ \/ Acceptable(call[c].ids) /\ list' = call[c].ids /\ To(c, "written", <<>>)
         \/ list' = list /\ To(c, "failed", <<>>)
      /\ call[c] \in Calling(lastId)
  BY DEF Reorder, Typed
<1>2. /\ lastId \in 0..MaxId /\ lastId \in Nat /\ MaxId \in Nat
      /\ list \in Seq(Int) /\ IsInjective(list) /\ ToSet(list) \subseteq 1..lastId
      /\ on \subseteq ToSet(list) /\ missed' \in BOOLEAN /\ <<>> \in Rows(lastId)
  BY NoRows, LinkEditorAssumption DEF Typed, TypeOK
<1>3. Sound(Reply(call[c], "written", <<>>)) /\ Sound(Reply(call[c], "failed", <<>>))
  BY <1>1, <1>2, ReplySound
<1>4. CASE list' = list /\ To(c, "failed", <<>>)
  BY <1>1, <1>2, <1>3, <1>4, ToTyped
<1>5. CASE Acceptable(call[c].ids) /\ list' = call[c].ids /\ To(c, "written", <<>>)
  <2> DEFINE y == Reply(call[c], "written", <<>>)
  <2>1. list' \in Seq(Int) /\ Len(list') = Len(list) /\ ToSet(list') = ToSet(list)
    BY <1>1, <1>5 DEF Acceptable, Calling
  <2>2. IsInjective(list')
    BY <1>2, <2>1, NoneTwice
  <2>3. y \in Calling(lastId) /\ Sound(y) /\ call' = [call EXCEPT ![c] = y]
    BY <1>1, <1>2, <1>3, <1>5, ReplyFields, Replied
  <2> HIDE DEF y
  <2>4. /\ y \in Calling(lastId') /\ lastId' \in lastId..MaxId
        /\ ToSet(list') \subseteq 1..lastId' /\ on' \subseteq ToSet(list')
    BY <1>1, <1>2, <2>1, <2>3
  <2> QED BY <1>2, <2>1, <2>2, <2>3, <2>4, ServerTyped
<1> QED BY <1>1, <1>4, <1>5

LEMMA ReadBackTyped ==
  ASSUME Typed, NEW c \in Calls, ReadBack(c)
  PROVE  Typed'
<1>1. /\ call[c].at = "written"
      /\ \/ call[c].op = "reorder" /\ To(c, "answered", Answer)
         \/ call[c].op # "reorder" /\ Contains(list, call[c].id)
            /\ To(c, "answered", <<Shown(call[c].id)>>)
         \/ call[c].op # "reorder" /\ To(c, "failed", <<>>)
      /\ UNCHANGED <<list, on, lastId, rows, busy, drag, clashed, missed>>
  BY DEF ReadBack
<1>2. call[c].op # "none" /\ on' \subseteq ToSet(list) /\ missed' \in BOOLEAN
  <2>1. call[c].op # "none"
    BY <1>1, Asked
  <2> QED BY <1>1, <2>1 DEF Typed, TypeOK
<1>3. CASE call[c].op = "reorder" /\ To(c, "answered", Answer)
  <2>1. Answer \in Rows(lastId)
    BY AnswerRows
  <2>2. Sound(Reply(call[c], "answered", Answer))
    BY <1>2, <1>3, <2>1, ReplySound
  <2> QED BY <1>1, <1>2, <1>3, <2>1, <2>2, ToTyped
<1>4. CASE Contains(list, call[c].id) /\ To(c, "answered", <<Shown(call[c].id)>>)
  <2>1. call[c].id \in 1..lastId /\ lastId \in Nat
    BY <1>4, AnswerRows DEF Contains, Typed, TypeOK
  <2>2. Shown(call[c].id) \in Row(lastId)
    BY <2>1, ShownRow
  <2> DEFINE a == <<Shown(call[c].id)>>
  <2>3. a \in Rows(lastId) /\ Len(a) = 1
    BY <2>2 DEF Rows
  <2>4. To(c, "answered", a)
    BY <1>4
  <2> HIDE DEF a
  <2>5. Sound(Reply(call[c], "answered", a))
    BY <1>2, <2>3, ReplySound
  <2> QED BY <1>1, <1>2, <2>3, <2>4, <2>5, ToTyped
<1>5. CASE To(c, "failed", <<>>)
  <2>1. <<>> \in Rows(lastId)
    BY NoRows
  <2>2. Sound(Reply(call[c], "failed", <<>>))
    BY <1>2, <2>1, ReplySound
  <2> QED BY <1>1, <1>2, <1>5, <2>1, <2>2, ToTyped
<1> QED BY <1>1, <1>3, <1>4, <1>5

LEMMA BreakTyped ==
  ASSUME Typed, NEW c \in Calls, Break(c)
  PROVE  Typed'
<1>1. /\ call[c].at \in {"sent", "written", "answered"} /\ To(c, "failed", <<>>)
      /\ UNCHANGED <<list, on, lastId, rows, busy, drag, clashed>>
      /\ <<>> \in Rows(lastId)
  BY NoRows DEF Break
<1>2. call[c].op # "none"
  BY <1>1, Asked
<1>3. on' \subseteq ToSet(list)
  BY <1>1 DEF Typed, TypeOK
<1>4. missed' \in BOOLEAN
  BY DEF Break, Typed, TypeOK
<1>5. Sound(Reply(call[c], "failed", <<>>))
  BY <1>1, <1>2, ReplySound
<1> QED BY <1>1, <1>3, <1>4, <1>5, ToTyped

LEMMA NextTyped == Typed /\ [Next]_vars => Typed'
<1> SUFFICES ASSUME Typed, [Next]_vars PROVE Typed'
  OBVIOUS
<1>1. CASE UNCHANGED vars
  BY <1>1 DEF vars, Typed, TypeOK
<1>2. ASSUME NEW c \in Calls, Open(c) PROVE Typed'
  BY <1>2, OpenTyped
<1>3. ASSUME NEW c \in Calls, NEW k \in DOMAIN rows, NEW e \in BOOLEAN, Save(c, rows[k].id, e)
      PROVE  Typed'
  <2>1. rows[k].id \in Ids(lastId)
    BY RowsIds DEF Typed, TypeOK, Rows, Ids
  <2> QED BY <1>3, <2>1, SaveTyped
<1>4. ASSUME NEW c \in Calls, NEW e \in BOOLEAN, Save(c, 0, e) PROVE Typed'
  <2>1. 0 \in Ids(lastId)
    BY DEF Typed, TypeOK, Ids
  <2> QED BY <1>4, <2>1, SaveTyped
<1>5. ASSUME NEW c \in Calls, NEW k \in DOMAIN rows, Toggle(c, k) \/ RemoveLink(c, k)
      PROVE  Typed'
  BY <1>5, ToggleTyped, RemoveTyped
<1>6. ASSUME NEW c \in Calls, NEW k \in DOMAIN rows, NEW to \in DOMAIN rows, Move(c, k, to)
      PROVE  Typed'
  BY <1>6, MoveTyped
<1>7. ASSUME NEW c \in Calls, NEW to \in DOMAIN rows, Drop(c, to) PROVE Typed'
  BY <1>7, DropTyped
<1>8. ASSUME NEW c \in Calls, Receive(c) PROVE Typed'
  BY <1>8, ReceiveTyped
<1>9. ASSUME NEW c \in Calls, Handle(c) PROVE Typed'
  BY <1>9, ListTyped, CreateTyped, UpdateTyped, DeleteTyped, ReorderTyped DEF Handle
<1>10. ASSUME NEW c \in Calls, ReadBack(c) \/ Break(c) PROVE Typed'
  BY <1>10, ReadBackTyped, BreakTyped
<1>11. ASSUME NEW k \in DOMAIN rows, DragStart(k) PROVE Typed'
  <2>1. k \in Nat
    BY RowsIds DEF Typed, Rows
  <2> QED BY <1>11, <2>1, DragTyped DEF DragStart
<1>12. ASSUME NEW to \in DOMAIN rows, DropNothing(to) PROVE Typed'
  BY <1>12, DropNothingTyped
<1>13. CASE DragEnd
  BY <1>13, DragTyped DEF DragEnd
<1>14. Drafts \subseteq BOOLEAN
  BY LinkEditorAssumption
<1> QED BY <1>1, <1>2, <1>3, <1>4, <1>5, <1>6, <1>7, <1>8, <1>9, <1>10, <1>11, <1>12, <1>13,
          <1>14 DEF Next

-----------------------------------------------------------------------------
(* links.page.ts, links.go: types, and however calls overlap, fail and are   *)
(* answered, the server's list never names a link twice and the page never   *)
(* shows an id that was not handed out.                                      *)
THEOREM EditorTypes == Spec => []TypeOK
<1>1. Spec => []Typed
  BY InitTyped, NextTyped, PTL DEF Spec
<1>2. Typed => TypeOK
  BY DEF Typed
<1> QED BY <1>1, <1>2, PTL

-----------------------------------------------------------------------------
(* Calls that do not meet *)

Calm == Separate /\ (Patched \/ Whole)

LEMMA NewNext ==
  ASSUME NEW S, NEW calls \in [Calls -> S], NEW c \in Calls, NEW y
  PROVE  LET x == calls[c]
             next == [calls EXCEPT ![c] = y] IN
         /\ (Creates(x) <=> Creates(y)) /\ (Creates(y) => x.id = y.id) => New(next) = New(calls)
         /\ ~Creates(x) /\ Creates(y) => New(next) = New(calls) \cup {y.id}
<1> DEFINE x == calls[c]
           next == [calls EXCEPT ![c] = y]
<1>1. next[c] = y /\ \A d \in Calls \ {c} : next[d] = calls[d]
  OBVIOUS
<1> HIDE DEF next
<1>2. \A i : i \in New(calls) <=> \/ Creates(x) /\ x.id = i
                                  \/ \E d \in Calls \ {c} : Creates(calls[d]) /\ calls[d].id = i
  BY DEF New
<1>3. \A i : i \in New(next) <=> \/ Creates(y) /\ y.id = i
                                 \/ \E d \in Calls \ {c} : Creates(calls[d]) /\ calls[d].id = i
  BY <1>1 DEF New
<1> HIDE DEF x
<1>4. (Creates(x) <=> Creates(y)) /\ (Creates(y) => x.id = y.id) => New(next) = New(calls)
  BY <1>2, <1>3
<1>5. ~Creates(x) /\ Creates(y) => New(next) = New(calls) \cup {y.id}
  BY <1>2, <1>3
<1> QED BY <1>4, <1>5 DEF x, next

LEMMA GoneNext ==
  ASSUME NEW S, NEW calls \in [Calls -> S], NEW c \in Calls, NEW y
  PROVE  LET x == calls[c]
             next == [calls EXCEPT ![c] = y] IN
         /\ (Deletes(x) <=> Deletes(y)) /\ (Deletes(y) => x.id = y.id) => Gone(next) = Gone(calls)
         /\ ~Deletes(x) /\ Deletes(y) => Gone(next) = Gone(calls) \cup {y.id}
<1> DEFINE x == calls[c]
           next == [calls EXCEPT ![c] = y]
<1>1. next[c] = y /\ \A d \in Calls \ {c} : next[d] = calls[d]
  OBVIOUS
<1> HIDE DEF next
<1>2. \A i : i \in Gone(calls) <=> \/ Deletes(x) /\ x.id = i
                                   \/ \E d \in Calls \ {c} : Deletes(calls[d]) /\ calls[d].id = i
  BY DEF Gone
<1>3. \A i : i \in Gone(next) <=> \/ Deletes(y) /\ y.id = i
                                  \/ \E d \in Calls \ {c} : Deletes(calls[d]) /\ calls[d].id = i
  BY <1>1 DEF Gone
<1> HIDE DEF x
<1>4. (Deletes(x) <=> Deletes(y)) /\ (Deletes(y) => x.id = y.id) => Gone(next) = Gone(calls)
  BY <1>2, <1>3
<1>5. ~Deletes(x) /\ Deletes(y) => Gone(next) = Gone(calls) \cup {y.id}
  BY <1>2, <1>3
<1> QED BY <1>4, <1>5 DEF x, next

LEMMA ChangedNext ==
  ASSUME NEW S, NEW calls \in [Calls -> S], NEW c \in Calls, NEW y
  PROVE  LET x == calls[c]
             next == [calls EXCEPT ![c] = y] IN
         /\ (Changes(x) <=> Changes(y)) /\ (Changes(y) => x.id = y.id) => Changed(next) = Changed(calls)
         /\ ~Changes(x) /\ Changes(y) => Changed(next) = Changed(calls) \cup {y.id}
<1> DEFINE x == calls[c]
           next == [calls EXCEPT ![c] = y]
<1>1. next[c] = y /\ \A d \in Calls \ {c} : next[d] = calls[d]
  OBVIOUS
<1> HIDE DEF next
<1>2. \A i : i \in Changed(calls) <=> \/ Changes(x) /\ x.id = i
                                      \/ \E d \in Calls \ {c} : Changes(calls[d]) /\ calls[d].id = i
  BY DEF Changed
<1>3. \A i : i \in Changed(next) <=> \/ Changes(y) /\ y.id = i
                                     \/ \E d \in Calls \ {c} : Changes(calls[d]) /\ calls[d].id = i
  BY <1>1 DEF Changed
<1> HIDE DEF x
<1>4. (Changes(x) <=> Changes(y)) /\ (Changes(y) => x.id = y.id) => Changed(next) = Changed(calls)
  BY <1>2, <1>3
<1>5. ~Changes(x) /\ Changes(y) => Changed(next) = Changed(calls) \cup {y.id}
  BY <1>2, <1>3
<1> QED BY <1>4, <1>5 DEF x, next

(* Who is under way. *)
LEMMA UnderWay ==
  ASSUME Typed, NEW c \in Calls
  PROVE  /\ call[c] \in Calling(lastId) /\ Sound(call[c])
         /\ call[c] = Idle <=> call[c].op = "none"
         /\ call[c] = Idle <=> call[c].at = "idle"
         /\ c \in Flying <=> call[c] # Idle
<1>1. call[c] \in Calling(lastId) /\ Sound(call[c])
  BY DEF Typed
<1>2. Idle.op = "none" /\ Idle.at = "idle"
  BY DEF Idle
<1> QED BY <1>1, <1>2 DEF Sound, Flying

LEMMA Others ==
  ASSUME Typed, Separate, NEW c \in Calls, call[c] # Idle
  PROVE  /\ call[c].live
         /\ \A d \in Calls \ {c} : call[d] # Idle =>
              /\ call[d].id # call[c].id
              /\ call[d].op \notin WholeList /\ call[c].op \notin WholeList
              /\ call[c].op = "create" => call[d].op # "create"
<1>1. c \in Flying
  BY DEF Flying
<1>2. call[c].live
  BY <1>1 DEF Separate
<1>3. ASSUME NEW d \in Calls \ {c}, call[d] # Idle
      PROVE  /\ call[d].id # call[c].id
             /\ call[d].op \notin WholeList /\ call[c].op \notin WholeList
             /\ call[c].op = "create" => call[d].op # "create"
  <2>1. d \in Flying /\ c # d
    BY <1>3 DEF Flying
  <2>2. ~Conflict(call[c], call[d]) /\ {call[c].op, call[d].op} # {"create"}
    BY <1>1, <2>1 DEF Separate
  <2> QED BY <2>2 DEF Conflict
<1> QED BY <1>2, <1>3

(* A call that goes on or ends leaves the calls apart; so does one that      *)
(* meets none of the others.                                                 *)
LEMMA SeparateNext ==
  ASSUME Typed, Separate, NEW c \in Calls, NEW y, call' = [call EXCEPT ![c] = y],
         y = Idle \/ y.live,
         \A d \in Calls \ {c} : call[d] # Idle /\ y # Idle =>
           /\ ~Conflict(y, call[d]) /\ ~Conflict(call[d], y)
           /\ {y.op, call[d].op} # {"create"}
  PROVE  Separate'
<1>1. /\ call'[c] = y /\ \A d \in Calls \ {c} : call'[d] = call[d]
  BY DEF Typed
<1>2. \A d \in Calls : d \in Flying' <=> call'[d] # Idle
  BY DEF Flying
<1>3. \A d \in Calls : d \in Flying <=> call[d] # Idle
  BY DEF Flying
<1>4. Flying' \subseteq Calls
  BY DEF Flying
<1>5. ASSUME NEW d \in Flying' PROVE call'[d].live
  <2>1. d \in Calls
    BY <1>4
  <2>2. CASE d = c
    BY <1>1, <1>2, <2>1, <2>2
  <2>3. CASE d # c
    BY <1>1, <1>2, <1>3, <2>1, <2>3 DEF Separate
  <2> QED BY <2>2, <2>3
<1>6. ASSUME NEW d \in Flying', NEW e \in Flying', d # e
      PROVE  ~Conflict(call'[d], call'[e]) /\ {call'[d].op, call'[e].op} # {"create"}
  <2>1. d \in Calls /\ e \in Calls /\ call'[d] # Idle /\ call'[e] # Idle
    BY <1>2, <1>4
  <2>2. CASE d = c
    BY <1>1, <1>6, <2>1, <2>2
  <2>3. CASE e = c
    <3>1. ~Conflict(call'[d], call'[e]) /\ {call'[e].op, call'[d].op} # {"create"}
      BY <1>1, <1>6, <2>1, <2>3
    <3>2. {call'[e].op, call'[d].op} = {call'[d].op, call'[e].op}
      OBVIOUS
    <3> QED BY <3>1, <3>2
  <2>4. CASE d # c /\ e # c
    <3>1. d \in Flying /\ e \in Flying /\ call'[d] = call[d] /\ call'[e] = call[e]
      BY <1>1, <1>3, <2>1, <2>4
    <3> QED BY <1>6, <3>1 DEF Separate
  <2> QED BY <2>2, <2>3, <2>4
<1> QED BY <1>5, <1>6 DEF Separate

(* A reply, or the end of a call. *)
LEMMA ReplySeparate ==
  ASSUME Typed, Separate, NEW c \in Calls, call[c] # Idle, NEW y,
         call' = [call EXCEPT ![c] = y],
         y = Idle \/ (y.op = call[c].op /\ y.id = call[c].id /\ y.live = call[c].live)
  PROVE  Separate'
<1>1. call[c].live
  BY Others
<1>2. ASSUME NEW d \in Calls \ {c}, call[d] # Idle, y # Idle
      PROVE  /\ ~Conflict(y, call[d]) /\ ~Conflict(call[d], y)
             /\ {y.op, call[d].op} # {"create"}
  <2>1. /\ call[d].id # call[c].id
        /\ call[d].op \notin WholeList /\ call[c].op \notin WholeList
        /\ call[c].op = "create" => call[d].op # "create"
    BY <1>2, Others
  <2> QED BY <1>2, <2>1 DEF Conflict
<1>3. y = Idle \/ y.live
  BY <1>1
<1> QED BY <1>2, <1>3, SeparateNext

-----------------------------------------------------------------------------
(* The page up to date *)

LEMMA AnswerRow ==
  ASSUME Typed
  PROVE  \A k \in DOMAIN Answer : Answer[k] = RowOf(on, list[k]) /\ Answer[k].id = list[k]
<1>1. /\ DOMAIN Answer = DOMAIN list
      /\ \A k \in DOMAIN list : Answer[k] = Shown(list[k])
  BY AnswerRows
<1> QED BY <1>1 DEF Shown, RowOf

(* A page that shows the list is, without its rows of no link, the list. *)
LEMMA ShownAnswer ==
  ASSUME Typed, Shows(rows, list, on)
  PROVE  Without(rows, Undefined) = Answer
<1> DEFINE rs == Without(rows, Undefined)
           ids == IdsOf(rows)
           ks == {k \in DOMAIN ids : ids[k] # Undefined}
           ms == {k \in DOMAIN rows : rows[k].id # Undefined}
<1>1. /\ rows \in Rows(lastId) /\ list \in Seq(Int) /\ IsInjective(list)
  BY DEF Typed, TypeOK, Rows
<1>2. ids \in Seq(Int)
  BY <1>1, RowsIds
<1>3. rs \in Rows(lastId) /\ IdsOf(rs) = Kept(ids, ks)
  BY <1>1, WithoutRows
<1>4. /\ DOMAIN rs = 1..Cardinality(ms)
      /\ \A j \in 1..Cardinality(ms) : Nth(ms, j) \in ms /\ rs[j] = rows[Nth(ms, j)]
  <2>1. ms \in SUBSET (DOMAIN rows) /\ rows \in Seq(Row(lastId)) /\ rs = Kept(rows, ms)
    BY <1>1 DEF Rows, Without
  <2> HIDE DEF ms, rs
  <2> QED BY <2>1, Filtered
<1>5. \A k \in DOMAIN rs : \E m \in DOMAIN rows : rs[k] = rows[m]
  BY <1>4
<1>6. ToSet(Kept(ids, ks)) = {ids[k] : k \in ks} /\ Kept(ids, ks) \in Seq(Int)
  <2>1. ks \in SUBSET (DOMAIN ids)
    OBVIOUS
  <2> HIDE DEF ks, ids
  <2> QED BY <1>2, <2>1, Filtered
<1>7. Undefined \notin ToSet(Kept(ids, ks))
  BY <1>6
<1> HIDE DEF rs, ids, ms
<1>8. Lined(Kept(ids, ks), list, {}, {})
  <2>1. Lined(ids, list, {}, {})
    BY DEF Shows, ids
  <2>2. Lined(Kept(ids, ks), list, {}, {} \ {Undefined})
    BY <1>1, <1>2, <2>1, PageRemoves
  <2>3. {} \ {Undefined} = {}
    OBVIOUS
  <2> HIDE DEF ks
  <2> QED BY <2>2, <2>3
<1> HIDE DEF ks
<1>9. IdsOf(rs) = list
  <2>1. Kept(ids, ks) = list
    BY <1>1, <1>6, <1>7, <1>8, SameOrder
  <2> QED BY <1>3, <2>1
<1>10. DOMAIN rs = DOMAIN list /\ \A k \in DOMAIN rs : rs[k].id = list[k]
  <2>1. DOMAIN IdsOf(rs) = DOMAIN rs /\ \A k \in DOMAIN rs : IdsOf(rs)[k] = rs[k].id
    BY <1>3, RowsIds
  <2> QED BY <1>9, <2>1
<1>11. ASSUME NEW k \in DOMAIN rs PROVE rs[k] = RowOf(on, list[k])
  <2>1. PICK m \in DOMAIN rows : rs[k] = rows[m]
    BY <1>5
  <2>2. rows[m].id = list[k] /\ list[k] \in ToSet(list)
    BY <1>10, <2>1 DEF ToSet
  <2> QED BY <2>1, <2>2 DEF Shows
<1>12. /\ Answer \in Rows(lastId) /\ DOMAIN Answer = DOMAIN list
       /\ \A k \in DOMAIN Answer : Answer[k] = RowOf(on, list[k])
  BY AnswerRows, AnswerRow
<1>13. \A k \in DOMAIN rs : rs[k] = Answer[k]
  BY <1>10, <1>11, <1>12
<1>14. /\ rs = [k \in DOMAIN rs |-> rs[k]]
       /\ Answer = [k \in DOMAIN Answer |-> Answer[k]]
  <2>1. rs \in [1..Len(rs) -> Row(lastId)] /\ DOMAIN rs = 1..Len(rs)
    BY <1>3, LenProperties DEF Rows
  <2> QED BY <2>1 DEF Answer
<1> QED BY <1>10, <1>12, <1>13, <1>14 DEF rs

(* So does the list itself. *)
LEMMA AnswerShows == Typed => Shows(Answer, list, on)
<1> SUFFICES ASSUME Typed PROVE Shows(Answer, list, on)
  OBVIOUS
<1>1. IdsOf(Answer) = list /\ list \in Seq(Int) /\ IsInjective(list)
      /\ ToSet(list) \subseteq 1..lastId /\ lastId \in Nat
  BY AnswerRows DEF Typed, TypeOK
<1>2. Undefined \notin ToSet(list)
  BY <1>1 DEF Undefined
<1>3. Lined(IdsOf(Answer), list, {}, {})
  BY <1>1, <1>2, LinedItself
<1>4. \A k \in DOMAIN Answer : Answer[k] = RowOf(on, Answer[k].id)
  BY AnswerRow
<1> QED BY <1>3, <1>4 DEF Shows

LEMMA NoneUnderWay ==
  ASSUME \A c \in Calls : call[c] = Idle
  PROVE  New(call) = {} /\ Gone(call) = {} /\ Changed(call) = {}
<1>1. ~Creates(Idle) /\ ~Deletes(Idle) /\ ~Changes(Idle)
  BY DEF Creates, Deletes, Changes, Idle
<1> QED BY <1>1 DEF New, Gone, Changed

(* Nothing under way: the page is patched exactly if it shows the list. *)
LEMMA PatchedShows ==
  ASSUME Typed, Patched, \A c \in Calls : call[c] = Idle
  PROVE  Shows(rows, list, on)
BY NoneUnderWay DEF Patched, Shows

LEMMA ShowsPatched ==
  ASSUME \A c \in Calls : call[c] = Idle, Shows(rows, list, on)
  PROVE  Patched
<1>1. \A c \in Calls : call[c].op = "none"
  BY DEF Idle
<1>2. \A c \in Calls : call[c].op \notin WholeList /\ True(call[c], IdsOf(rows), on)
  BY <1>1 DEF WholeList, True, Changes
<1> QED BY <1>2, NoneUnderWay DEF Patched, Shows

UpToDate == (\A c \in Calls : call[c] = Idle) /\ Shows(rows, list, on)

LEMMA ShowsPatchedNext == UpToDate' => Patched'
<1>1. UpToDate => Patched
  BY ShowsPatched DEF UpToDate
<1> QED BY <1>1, PTL

(* A patched page that a step of a call leaves as it is. *)
LEMMA PatchedKeeps ==
  ASSUME Typed, Patched, UNCHANGED <<list, on, rows>>,
         NEW c \in Calls, NEW y, call' = [call EXCEPT ![c] = y],
         y.op \notin WholeList, True(y, IdsOf(rows), on),
         Creates(call[c]) <=> Creates(y), Deletes(call[c]) <=> Deletes(y),
         Changes(call[c]) <=> Changes(y),
         Creates(y) \/ Deletes(y) \/ Changes(y) => y.id = call[c].id
  PROVE  Patched'
<1>1. call \in [Calls -> Calling(lastId)]
  BY DEF Typed
<1>2. New(call') = New(call) /\ Gone(call') = Gone(call) /\ Changed(call') = Changed(call)
  <2>1. New(call') = New(call)
    BY <1>1, NewNext
  <2>2. Gone(call') = Gone(call)
    BY <1>1, GoneNext
  <2>3. Changed(call') = Changed(call)
    BY <1>1, ChangedNext
  <2> QED BY <2>1, <2>2, <2>3
<1>3. \A d \in Calls : call'[d] = IF d = c THEN y ELSE call[d]
  BY <1>1
<1>4. \A d \in Calls : call'[d].op \notin WholeList /\ True(call'[d], IdsOf(rows), on)
  BY <1>3 DEF Patched
<1>5. IdsOf(rows') = IdsOf(rows) /\ list' = list /\ on' = on /\ rows' = rows
  OBVIOUS
<1> QED BY <1>2, <1>4, <1>5 DEF Patched

-----------------------------------------------------------------------------
(* A call about the whole list *)

(* It is alone, so that nothing else can be asked for without a clash. *)
LEMMA WholeAlone ==
  ASSUME Typed, Whole, NEW c \in Calls, call[c] # Idle
  PROVE  /\ call[c].op \in WholeList
         /\ \A d \in Calls \ {c} : call[d] = Idle
         /\ call[c].op = "load" => call[c].at # "failed"
         /\ call[c].at = "answered" => call[c].answer = Answer
         /\ call[c].op = "reorder" /\ call[c].at \in {"sent", "failed"} => Shows(call[c].previous, list, on)
BY DEF Whole

LEMMA WholeClash ==
  ASSUME Typed, Whole, NEW c \in Calls, NEW x, Send(c, x)
  PROVE  clashed'
<1>1. PICK d \in Calls : call[d].op \in WholeList
  BY DEF Whole
<1>2. d \in Flying /\ Conflict(call[d], x)
  <2>1. call[d] # Idle
    BY <1>1 DEF Idle, WholeList
  <2> QED BY <1>1, <2>1 DEF Flying, Conflict
<1> QED BY <1>2 DEF Send

(* With the answer the page shows the list. *)
LEMMA WholeReceived ==
  ASSUME Typed, Typed', Separate, Whole, NEW c \in Calls, Receive(c)
  PROVE  Patched'
<1>1. call[c] # Idle /\ call[c].at \in {"answered", "failed"} /\ call[c].live
  <2>1. call[c].at \in {"answered", "failed"}
    BY DEF Receive
  <2>2. call[c] # Idle
    BY <2>1, UnderWay
  <2> QED BY <2>1, <2>2, Others
<1>2. Shows(rows', list, on)
  <2>1. /\ call[c].at = "failed" =>
             rows' = IF call[c].op = "reorder" THEN call[c].previous ELSE rows
        /\ call[c].at = "answered" /\ call[c].op \in WholeList => rows' = call[c].answer
    BY <1>1, Received
  <2>2. /\ call[c].op = "load" \/ call[c].op = "reorder"
        /\ call[c].op = "load" => call[c].at # "failed"
        /\ call[c].at = "answered" => call[c].answer = Answer
        /\ call[c].op = "reorder" /\ call[c].at = "failed" => Shows(call[c].previous, list, on)
    BY <1>1, WholeAlone DEF WholeList
  <2>3. rows' = Answer \/ Shows(rows', list, on)
    BY <1>1, <2>1, <2>2 DEF WholeList
  <2> QED BY <2>3, AnswerShows
<1>3. call' = [call EXCEPT ![c] = Idle] /\ UNCHANGED <<list, on>>
  BY DEF Receive
<1>4. Shows(rows', list', on')
  BY <1>2, <1>3
<1>5. \A d \in Calls : call'[d] = Idle
  BY <1>1, <1>3, WholeAlone DEF Typed
<1>6. UpToDate'
  BY <1>4, <1>5 DEF UpToDate
<1> QED BY <1>6, ShowsPatchedNext

(* On the way there. *)
LEMMA WholeReplied ==
  ASSUME Typed, Whole, NEW c \in Calls, call[c] # Idle,
         NEW at \in {"sent", "written", "answered", "failed"}, NEW answer \in Rows(lastId),
         To(c, at, answer),
         call[c].op = "load" => at # "failed",
         at = "answered" => answer = Answer',
         call[c].op = "reorder" /\ at \in {"sent", "failed"} => Shows(call[c].previous, list', on')
  PROVE  Whole'
<1> DEFINE y == Reply(call[c], at, answer)
<1>1. call[c] \in Calling(lastId) /\ call \in [Calls -> Calling(lastId)]
  BY DEF Typed
<1>2. y.op = call[c].op /\ y.at = at /\ y.answer = answer /\ y.previous = call[c].previous
  BY <1>1 DEF Reply, Calling
<1>3. call' = [call EXCEPT ![c] = y]
  BY Replied
<1> HIDE DEF y
<1>4. call'[c] = y /\ \A d \in Calls \ {c} : call'[d] = call[d]
  BY <1>1, <1>3
<1>5. /\ call[c].op \in WholeList
      /\ \A d \in Calls \ {c} : call[d] = Idle
  BY WholeAlone
<1> QED BY <1>2, <1>4, <1>5 DEF Whole

LEMMA WholeHandled ==
  ASSUME Typed, Whole, NEW c \in Calls, Handle(c) \/ ReadBack(c) \/ Break(c), ~missed'
  PROVE  Whole'
<1>1. call[c] # Idle /\ <<>> \in Rows(lastId) /\ Answer \in Rows(lastId)
  <2>1. call[c].at # "idle"
    BY DEF Handle, ReadBack, Break
  <2> QED BY <2>1, UnderWay, NoRows, AnswerRows
<1>2. /\ call[c].op \in {"load", "reorder"}
      /\ call[c].op = "reorder" /\ call[c].at \in {"sent", "failed"} => Shows(call[c].previous, list, on)
      /\ Sound(call[c])
  BY <1>1, WholeAlone, UnderWay DEF WholeList
<1>3. UNCHANGED <<list, on>> => Answer' = Answer
  BY DEF Answer, Shown
<1>4. CASE Handle(c)
  <2>1. call[c].at = "sent"
    BY <1>4 DEF Handle
  <2>2. CASE List(c)
    <3>1. call[c].op = "load" /\ To(c, "answered", Answer) /\ Answer' = Answer
      BY <1>3, <2>2 DEF List
    <3> QED BY <1>1, <3>1, WholeReplied
  <2>3. CASE Reorder(c)
    <3>1. CASE To(c, "written", <<>>)
      <4>1. call[c].op = "reorder"
        BY <2>3 DEF Reorder
      <4> QED BY <1>1, <3>1, <4>1, WholeReplied
    <3>2. CASE list' = list /\ To(c, "failed", <<>>)
      <4>1. call[c].op = "reorder" /\ list' = list /\ on' = on
        BY <2>3, <3>2 DEF Reorder
      <4> QED BY <1>1, <1>2, <2>1, <3>2, <4>1, WholeReplied
    <3> QED BY <2>3, <3>1, <3>2 DEF Reorder
  <2> QED BY <1>2, <1>4, <2>2, <2>3 DEF Handle, Create, Update, Delete
<1>5. CASE ReadBack(c)
  <2>1. call[c].op = "reorder"
    BY <1>2, <1>5 DEF ReadBack, Sound
  <2>2. To(c, "answered", Answer) /\ Answer' = Answer
    BY <1>3, <1>5, <2>1 DEF ReadBack
  <2> QED BY <1>1, <2>1, <2>2, WholeReplied
<1>6. CASE Break(c)
  <2>1. call[c].op # "load" /\ call[c].at = "sent" /\ To(c, "failed", <<>>)
        /\ list' = list /\ on' = on
    BY <1>6 DEF Break
  <2> QED BY <1>1, <1>2, <2>1, WholeReplied
<1> QED BY <1>4, <1>5, <1>6

-----------------------------------------------------------------------------
(* What the page asks for *)

(* Without a clash a request meets no call that is under way. *)
LEMMA SentSeparate ==
  ASSUME Typed, Separate, NEW c \in Calls, NEW x, Send(c, x), ~clashed', x.live,
         x.op = "create" => \A d \in Flying : call[d].op # "create"
  PROVE  Separate'
<1>1. call' = [call EXCEPT ![c] = x]
  BY DEF Send
<1>2. ASSUME NEW d \in Calls \ {c}, call[d] # Idle
      PROVE  /\ ~Conflict(x, call[d]) /\ ~Conflict(call[d], x)
             /\ {x.op, call[d].op} # {"create"}
  <2>1. d \in Flying
    BY <1>2 DEF Flying
  <2>2. ~Conflict(call[d], x)
    BY <2>1 DEF Send
  <2>3. ~Conflict(x, call[d])
    BY <2>2 DEF Conflict
  <2>4. {x.op, call[d].op} # {"create"}
    BY <2>1
  <2> QED BY <2>2, <2>3, <2>4
<1> QED BY <1>1, <1>2, SeparateNext

(* A request has no effect yet. *)
LEMMA SentPatched ==
  ASSUME Typed, Patched, NEW c \in Calls, NEW x, Send(c, x), UNCHANGED <<list, on, rows>>,
         x.at = "sent", x.op \notin WholeList,
         x.op \in {"save", "toggle", "delete"} => x.id \in ToSet(IdsOf(rows))
  PROVE  Patched'
<1>1. call' = [call EXCEPT ![c] = x] /\ call[c] = Idle
  BY DEF Send
<1>2. ~Creates(Idle) /\ ~Deletes(Idle) /\ ~Changes(Idle)
  BY DEF Creates, Deletes, Changes, Idle
<1>3. ~Creates(x) /\ ~Deletes(x) /\ ~Changes(x)
  BY DEF Creates, Deletes, Changes
<1>4. True(x, IdsOf(rows), on)
  BY DEF True, Changes
<1> QED BY <1>1, <1>2, <1>3, <1>4, PatchedKeeps

LEMMA SentCalm ==
  ASSUME Typed, Calm, NEW c \in Calls, NEW x, Send(c, x), ~clashed',
         UNCHANGED <<list, on, rows>>, x.live, x.at = "sent", x.op \notin WholeList,
         x.op = "create" => \A d \in Flying : call[d].op # "create",
         x.op \in {"save", "toggle", "delete"} => x.id \in ToSet(IdsOf(rows))
  PROVE  Calm'
<1>1. Separate'
  BY SentSeparate DEF Calm
<1>2. Patched
  BY WholeClash DEF Calm
<1>3. Patched'
  BY <1>2, SentPatched
<1> QED BY <1>1, <1>3 DEF Calm

(* The rows on the page are links it can ask about. *)
LEMMA OnThePage ==
  ASSUME Typed, NEW k \in DOMAIN rows
  PROVE  rows[k].id \in ToSet(IdsOf(rows)) /\ rows[k].id # 0
<1>1. rows \in Rows(lastId)
  BY DEF Typed, Rows
<1>2. /\ DOMAIN IdsOf(rows) = DOMAIN rows /\ IdsOf(rows)[k] = rows[k].id
      /\ rows[k].id \in (1..lastId) \cup {Undefined} /\ lastId \in Nat
  BY <1>1, RowsIds, LinkEditorAssumption DEF Typed, TypeOK
<1> QED BY <1>2 DEF ToSet, Undefined

LEMMA SaveCalm ==
  ASSUME Typed, Calm, NEW c \in Calls, NEW i, i = 0 \/ i \in ToSet(IdsOf(rows)),
         NEW e \in BOOLEAN, Save(c, i, e), ~clashed'
  PROVE  Calm'
<1>1. UNCHANGED <<list, on, rows>>
  BY DEF Save
<1>2. \A d \in Flying : call[d].op # "create"
  BY DEF Save, Calm, Separate
<1>3. CASE i = 0
  <2> DEFINE x == [Request("create") EXCEPT !.on = e]
  <2>1. Send(c, x)
    BY <1>3 DEF Save
  <2>2. x.op = "create" /\ x.at = "sent" /\ x.live
    BY RequestFields
  <2> HIDE DEF x
  <2> QED BY <1>1, <1>2, <2>1, <2>2, SentCalm DEF WholeList
<1>4. CASE i # 0 /\ i \in ToSet(IdsOf(rows))
  <2> DEFINE x == [Request("save") EXCEPT !.id = i, !.on = e]
  <2>1. Send(c, x)
    BY <1>4 DEF Save
  <2>2. x.op = "save" /\ x.at = "sent" /\ x.live /\ x.id = i
    BY RequestFields
  <2> HIDE DEF x
  <2> QED BY <1>1, <1>4, <2>1, <2>2, SentCalm DEF WholeList
<1> QED BY <1>3, <1>4

LEMMA ToggleCalm ==
  ASSUME Typed, Calm, NEW c \in Calls, NEW k \in DOMAIN rows, Toggle(c, k), ~clashed'
  PROVE  Calm'
<1> DEFINE x == [Request("toggle") EXCEPT !.id = rows[k].id, !.on = ~rows[k].on]
<1>1. Send(c, x) /\ UNCHANGED <<list, on, rows>>
  BY DEF Toggle
<1>2. x.op = "toggle" /\ x.at = "sent" /\ x.live /\ x.id = rows[k].id
  BY RequestFields
<1> HIDE DEF x
<1>3. x.id \in ToSet(IdsOf(rows))
  BY <1>2, OnThePage
<1> QED BY <1>1, <1>2, <1>3, SentCalm DEF WholeList

LEMMA RemoveCalm ==
  ASSUME Typed, Calm, NEW c \in Calls, NEW k \in DOMAIN rows, RemoveLink(c, k), ~clashed'
  PROVE  Calm'
<1> DEFINE x == [Request("delete") EXCEPT !.id = rows[k].id]
<1>1. Send(c, x) /\ UNCHANGED <<list, on, rows>>
  BY DEF RemoveLink
<1>2. x.op = "delete" /\ x.at = "sent" /\ x.live /\ x.id = rows[k].id
  BY RequestFields
<1> HIDE DEF x
<1>3. x.id \in ToSet(IdsOf(rows))
  BY <1>2, OnThePage
<1> QED BY <1>1, <1>2, <1>3, SentCalm DEF WholeList

(* A move that meets nothing: the page was up to date. *)
LEMMA OrderCalm ==
  ASSUME Typed, Calm, NEW c \in Calls, NEW next, ApplyOrder(c, next), ~clashed'
  PROVE  Calm'
<1> DEFINE x == [Request("reorder") EXCEPT
                   !.ids = IdsOf(next), !.previous = rows]
<1>1. Send(c, x) /\ UNCHANGED <<list, on>>
  BY DEF ApplyOrder
<1>2. x.op = "reorder" /\ x.at = "sent" /\ x.live /\ x.previous = rows
  BY RequestFields
<1> HIDE DEF x
<1>3. Separate'
  BY <1>1, <1>2, SentSeparate DEF Calm
<1>4. \A d \in Calls : call[d] = Idle
  <2>1. ASSUME NEW d \in Flying PROVE FALSE
    BY <1>1, <1>2 DEF Send, Conflict, WholeList
  <2> QED BY <2>1 DEF Flying
<1>5. Patched
  BY <1>1, WholeClash DEF Calm
<1>6. Shows(x.previous, list', on')
  BY <1>1, <1>2, <1>4, <1>5, PatchedShows
<1>7. call'[c] = x /\ \A d \in Calls \ {c} : call'[d] = Idle
  BY <1>1, <1>4 DEF Send, Typed
<1>8. Whole'
  BY <1>2, <1>6, <1>7 DEF Whole, WholeList
<1> QED BY <1>3, <1>8 DEF Calm

(* A page opened while no call goes on has the list to come. *)
LEMMA OpenCalm ==
  ASSUME Typed, NEW c \in Calls, Open(c), ~clashed'
  PROVE  Calm'
<1>1. \A d \in Calls : Left(call[d]) = Idle
  BY DEF Open
<1>2. call'[c] = Request("load") /\ \A d \in Calls \ {c} : call'[d] = Idle
  BY <1>1 DEF Open
<1>3. /\ Request("load").op = "load" /\ Request("load").at = "sent"
      /\ Request("load").live
  BY RequestFields
<1>4. Flying' \subseteq {c}
  BY <1>2 DEF Flying
<1>5. Separate'
  BY <1>2, <1>3, <1>4 DEF Separate
<1>6. Whole'
  BY <1>2, <1>3 DEF Whole, WholeList
<1> QED BY <1>5, <1>6 DEF Calm

-----------------------------------------------------------------------------
(* What the page is told *)

LEMMA NothingAsked ==
  ASSUME NEW ids, NEW enabled
  PROVE  /\ ~Creates(Idle) /\ ~Deletes(Idle) /\ ~Changes(Idle)
         /\ True(Idle, ids, enabled) /\ Idle.op \notin WholeList
BY DEF Creates, Deletes, Changes, True, Idle, WholeList

(* With a call its link leaves the set it was in. *)
LEMMA Ended ==
  ASSUME Typed, Separate, NEW c \in Calls, call[c] # Idle, call' = [call EXCEPT ![c] = Idle]
  PROVE  /\ Creates(call[c]) => New(call) = {call[c].id} /\ New(call') = {}
         /\ ~Creates(call[c]) => New(call') = New(call)
         /\ Deletes(call[c]) => /\ call[c].id \in Gone(call)
                                /\ Gone(call') = Gone(call) \ {call[c].id}
         /\ ~Deletes(call[c]) => Gone(call') = Gone(call)
         /\ Changes(call[c]) => Changed(call') = Changed(call) \ {call[c].id}
         /\ ~Changes(call[c]) => Changed(call') = Changed(call)
<1>1. ~Creates(Idle) /\ ~Deletes(Idle) /\ ~Changes(Idle)
  BY NothingAsked
<1>2. call \in [Calls -> Calling(lastId)]
  BY DEF Typed
<1>3. \A d \in Calls \ {c} : call[d] # Idle => call[d].id # call[c].id
  BY Others
<1>4. /\ \A d \in Calls \ {c} : Creates(call[d]) => call[d].id # call[c].id
      /\ \A d \in Calls \ {c} : Deletes(call[d]) => call[d].id # call[c].id
      /\ \A d \in Calls \ {c} : Changes(call[d]) => call[d].id # call[c].id
  BY <1>1, <1>3
<1>3a. call'[c] = Idle /\ \A d \in Calls \ {c} : call'[d] = call[d]
  BY <1>2
<1>5. Creates(call[c]) => New(call) = {call[c].id} /\ New(call') = {}
  <2>1. ASSUME Creates(call[c]), NEW d \in Calls, Creates(call[d]) PROVE d = c
    <3>1. call[c].op = "create" /\ call[d].op = "create" /\ call[d] # Idle
      BY <1>1, <2>1 DEF Creates
    <3> QED BY <3>1, Others
  <2>2. Creates(call[c]) => New(call) = {call[c].id}
    BY <2>1 DEF New
  <2>3. ASSUME Creates(call[c]) PROVE New(call') = New(call) \ {call[c].id}
    BY <1>1, <1>4, <1>3a, <2>3 DEF New
  <2> QED BY <2>2, <2>3
<1>6. ~Creates(call[c]) => New(call') = New(call)
  BY <1>1, <1>2, NewNext
<1>7. Deletes(call[c]) => call[c].id \in Gone(call) /\ Gone(call') = Gone(call) \ {call[c].id}
  <2>1. Deletes(call[c]) => call[c].id \in Gone(call)
    BY DEF Gone
  <2>2. ASSUME Deletes(call[c]) PROVE Gone(call') = Gone(call) \ {call[c].id}
    BY <1>1, <1>4, <1>3a, <2>2 DEF Gone
  <2> QED BY <2>1, <2>2
<1>8. ~Deletes(call[c]) => Gone(call') = Gone(call)
  BY <1>1, <1>2, GoneNext
<1>9. ASSUME Changes(call[c]) PROVE Changed(call') = Changed(call) \ {call[c].id}
  BY <1>1, <1>4, <1>3a, <1>9 DEF Changed
<1>10. ~Changes(call[c]) => Changed(call') = Changed(call)
  BY <1>1, <1>2, ChangedNext
<1> QED BY <1>5, <1>6, <1>7, <1>8, <1>9, <1>10

(* What the other calls ask about is still on the page. *)
LEMMA StillTrue ==
  ASSUME Typed, Separate, Patched, NEW c \in Calls, call[c] # Idle,
         call' = [call EXCEPT ![c] = Idle], NEW ids,
         ToSet(IdsOf(rows)) \ {call[c].id} \subseteq ToSet(ids)
  PROVE  \A d \in Calls : call'[d].op \notin WholeList /\ True(call'[d], ids, on)
<1> SUFFICES ASSUME NEW d \in Calls
             PROVE  call'[d].op \notin WholeList /\ True(call'[d], ids, on)
  OBVIOUS
<1>1. call'[c] = Idle /\ (d # c => call'[d] = call[d])
  BY DEF Typed
<1>2. CASE call'[d] = Idle
  BY <1>2, NothingAsked
<1>3. CASE d # c /\ call[d] # Idle
  <2>1. call'[d] = call[d] /\ call[d].id # call[c].id
    BY <1>1, <1>3, Others
  <2>2. call[d].op \notin WholeList /\ True(call[d], IdsOf(rows), on)
    BY DEF Patched
  <2> QED BY <2>1, <2>2 DEF True
<1> QED BY <1>1, <1>2, <1>3

(* The link that was created comes last. *)
LEMMA CreateReceived ==
  ASSUME Typed, Separate, Patched, NEW c \in Calls, Receive(c),
         call[c].op = "create", call[c].at = "answered"
  PROVE  Patched'
<1> DEFINE i == call[c].id
           r == RowOf(on, i)
<1>1. /\ call[c] # Idle /\ call[c].live
      /\ call' = [call EXCEPT ![c] = Idle] /\ UNCHANGED <<list, on>>
      /\ rows' = rows \o call[c].answer
  <2>1. call[c] # Idle
    BY UnderWay
  <2>2. call[c].live
    BY <2>1, Others
  <2> QED BY <2>1, <2>2, Received
<1>2. call[c].answer = <<r>>
  BY DEF Patched, True
<1>3. /\ New(call) = {i} /\ New(call') = {}
      /\ Gone(call') = Gone(call) /\ Changed(call') = Changed(call)
  BY <1>1, Ended DEF Creates, Deletes, Changes
<1>4. /\ rows \in Rows(lastId) /\ list \in Seq(Int)
      /\ call[c] \in Calling(lastId) /\ i \in Int
  BY LinkEditorAssumption DEF Typed, TypeOK, Rows, Calling, Ids, Undefined
<1>4a. i # Undefined
  <2>1. i \in ToSet(list) /\ ToSet(list) \subseteq 1..lastId /\ lastId \in Nat
    BY <1>3 DEF Patched, Lined, Typed, TypeOK
  <2> HIDE DEF i
  <2> QED BY <2>1 DEF Undefined
<1>5. /\ IdsOf(rows) \in Seq(Int) /\ DOMAIN IdsOf(rows) = DOMAIN rows
      /\ DOMAIN rows = 1..Len(rows) /\ Len(rows) \in Nat
      /\ \A k \in DOMAIN rows : IdsOf(rows)[k] = rows[k].id
  BY <1>4, RowsIds
<1>6. r.id = i
  BY DEF RowOf
<1> HIDE DEF r, i
<1>7. /\ DOMAIN rows' = 1..(Len(rows) + 1)
      /\ \A k \in 1..Len(rows) : rows'[k] = rows[k]
      /\ rows'[Len(rows) + 1] = r
  BY <1>1, <1>2, <1>5
<1>8. IdsOf(rows') = Append(IdsOf(rows), i)
  <2>1. Len(IdsOf(rows)) = Len(rows)
    BY <1>5, LenProperties
  <2>2. Append(IdsOf(rows), i) = [k \in 1..(Len(rows) + 1) |->
                                    IF k \in 1..Len(rows) THEN IdsOf(rows)[k] ELSE i]
    <3> DEFINE t == Append(IdsOf(rows), i)
    <3>1. /\ t \in Seq(Int) /\ Len(t) = Len(rows) + 1
          /\ \A k \in 1..Len(rows) : t[k] = IdsOf(rows)[k]
          /\ t[Len(rows) + 1] = i
      BY <1>4, <1>5, <2>1, AppendProperties
    <3> HIDE DEF t
    <3>2. t = [k \in 1..(Len(rows) + 1) |-> t[k]]
      BY <3>1, LenProperties
    <3>3. \A k \in 1..(Len(rows) + 1) : t[k] = IF k \in 1..Len(rows) THEN IdsOf(rows)[k] ELSE i
      BY <1>5, <3>1
    <3>4. t = [k \in 1..(Len(rows) + 1) |-> IF k \in 1..Len(rows) THEN IdsOf(rows)[k] ELSE i]
      BY <3>2, <3>3
    <3> QED BY <3>4 DEF t
  <2>3. IdsOf(rows') = [k \in 1..(Len(rows) + 1) |-> rows'[k].id]
    BY <1>7 DEF IdsOf
  <2>4. \A k \in 1..(Len(rows) + 1) :
          rows'[k].id = IF k \in 1..Len(rows) THEN IdsOf(rows)[k] ELSE i
    BY <1>5, <1>6, <1>7
  <2> QED BY <2>2, <2>3, <2>4
<1>9. Lined(IdsOf(rows'), list', New(call'), Gone(call'))
  <2>1. Lined(IdsOf(rows), list, {i}, Gone(call))
    BY <1>3 DEF Patched
  <2>2. Lined(Append(IdsOf(rows), i), list, {}, Gone(call))
    BY <1>4, <1>4a, <1>5, <2>1, PageAppends
  <2> QED BY <1>1, <1>3, <1>8, <2>2
<1>10. ASSUME NEW k \in DOMAIN rows', rows'[k].id \in ToSet(list') \ Changed(call')
       PROVE  rows'[k] = RowOf(on', rows'[k].id)
  <2>1. k \in 1..Len(rows) \/ k = Len(rows) + 1
    BY <1>5, <1>7
  <2>2. CASE k \in 1..Len(rows)
    BY <1>1, <1>3, <1>5, <1>7, <1>10, <2>2 DEF Patched
  <2>3. CASE k = Len(rows) + 1
    BY <1>1, <1>6, <1>7, <2>3 DEF r
  <2> QED BY <2>1, <2>2, <2>3
<1>11. \A d \in Calls : call'[d].op \notin WholeList /\ True(call'[d], IdsOf(rows'), on)
  <2>1. ToSet(IdsOf(rows)) \ {call[c].id} \subseteq ToSet(IdsOf(rows'))
    <3>1. \A k \in DOMAIN rows : IdsOf(rows')[k] = IdsOf(rows)[k] /\ k \in DOMAIN IdsOf(rows')
      <4>1. DOMAIN IdsOf(rows') = DOMAIN rows'
        BY DEF IdsOf
      <4>2. \A k \in DOMAIN rows' : IdsOf(rows')[k] = rows'[k].id
        BY DEF IdsOf
      <4> QED BY <1>5, <1>7, <4>1, <4>2
    <3> QED BY <1>5, <3>1 DEF ToSet
  <2> QED BY <1>1, <2>1, StillTrue
<1> QED BY <1>1, <1>9, <1>10, <1>11 DEF Patched

(* The row of a changed link is exchanged. *)
LEMMA ChangeReceived ==
  ASSUME Typed, Separate, Patched, NEW c \in Calls, Receive(c),
         call[c].op \in {"save", "toggle"}, call[c].at = "answered"
  PROVE  Patched'
<1> DEFINE i == call[c].id
           r == RowOf(on, i)
<1>1. /\ call[c] # Idle
      /\ call' = [call EXCEPT ![c] = Idle] /\ UNCHANGED <<list, on>>
      /\ rows' = [k \in DOMAIN rows |-> IF rows[k].id = i THEN call[c].answer[1] ELSE rows[k]]
  <2>1. call[c] # Idle
    BY UnderWay
  <2>2. call[c].live
    BY <2>1, Others
  <2> QED BY <2>1, <2>2, Received
<1>2. call[c].answer[1] = r
  BY DEF Patched, True
<1>3. /\ New(call') = New(call) /\ Gone(call') = Gone(call)
      /\ Changed(call') = Changed(call) \ {i}
  BY <1>1, Ended DEF Creates, Deletes, Changes
<1>4. r.id = i
  BY DEF RowOf
<1> HIDE DEF r, i
<1>5. /\ DOMAIN rows' = DOMAIN rows
      /\ \A k \in DOMAIN rows : rows'[k] = IF rows[k].id = i THEN r ELSE rows[k]
  BY <1>1, <1>2
<1>6. \A k \in DOMAIN rows : rows'[k].id = rows[k].id
  BY <1>4, <1>5
<1>7. IdsOf(rows') = IdsOf(rows)
  BY <1>5, <1>6 DEF IdsOf
<1>8. Lined(IdsOf(rows'), list', New(call'), Gone(call'))
  BY <1>1, <1>3, <1>7 DEF Patched
<1>9. ASSUME NEW k \in DOMAIN rows', rows'[k].id \in ToSet(list') \ Changed(call')
      PROVE  rows'[k] = RowOf(on', rows'[k].id)
  <2>1. CASE rows[k].id = i
    BY <1>1, <1>4, <1>5, <2>1 DEF r
  <2>2. CASE rows[k].id # i
    <3>1. rows[k].id \in ToSet(list) \ Changed(call) /\ rows'[k] = rows[k]
      BY <1>1, <1>3, <1>5, <1>9, <2>2
    <3> QED BY <1>1, <1>5, <3>1 DEF Patched
  <2> QED BY <2>1, <2>2
<1>10. \A d \in Calls : call'[d].op \notin WholeList /\ True(call'[d], IdsOf(rows'), on)
  BY <1>1, <1>7, StillTrue
<1> QED BY <1>1, <1>8, <1>9, <1>10 DEF Patched

(* The row of a deleted link goes. *)
LEMMA DeleteReceived ==
  ASSUME Typed, Separate, Patched, NEW c \in Calls, Receive(c),
         call[c].op = "delete", call[c].at = "answered"
  PROVE  Patched'
<1> DEFINE i == call[c].id
           ids == IdsOf(rows)
           ks == {k \in DOMAIN ids : ids[k] # i}
<1>1. /\ call[c] # Idle
      /\ call' = [call EXCEPT ![c] = Idle] /\ UNCHANGED <<list, on>>
      /\ rows' = Without(rows, i)
  <2>1. call[c] # Idle
    BY UnderWay
  <2>2. call[c].live
    BY <2>1, Others
  <2> QED BY <2>1, <2>2, Received
<1>2. /\ New(call') = New(call) /\ Changed(call') = Changed(call)
      /\ i \in Gone(call) /\ Gone(call') = Gone(call) \ {i}
  BY <1>1, Ended DEF Creates, Deletes, Changes
<1>3. rows \in Rows(lastId) /\ list \in Seq(Int)
  BY DEF Typed, Rows
<1>4. /\ ids \in Seq(Int) /\ DOMAIN ids = DOMAIN rows
      /\ \A k \in DOMAIN rows : ids[k] = rows[k].id
  BY <1>3, RowsIds
<1>5. rows' \in Rows(lastId) /\ IdsOf(rows') = Kept(ids, ks)
  BY <1>1, <1>3, WithoutRows
<1> HIDE DEF i, ids
<1>6. Lined(IdsOf(rows'), list', New(call'), Gone(call'))
  <2>1. Lined(ids, list, New(call), Gone(call))
    BY DEF Patched, ids
  <2>2. Lined(Kept(ids, ks), list, New(call), Gone(call) \ {i})
    BY <1>2, <1>3, <1>4, <2>1, PageRemoves
  <2> QED BY <1>1, <1>2, <1>5, <2>2
<1>7. \A k \in DOMAIN rows' : \E m \in DOMAIN rows : rows'[k] = rows[m]
  <2> DEFINE ms == {k \in DOMAIN rows : rows[k].id # i}
  <2>1. ms \in SUBSET (DOMAIN rows) /\ rows \in Seq(Row(lastId)) /\ rows' = Kept(rows, ms)
    BY <1>1, <1>3 DEF Rows, Without
  <2> HIDE DEF ms
  <2>2. /\ DOMAIN rows' = 1..Cardinality(ms)
        /\ \A j \in 1..Cardinality(ms) : Nth(ms, j) \in ms /\ rows'[j] = rows[Nth(ms, j)]
    BY <2>1, Filtered
  <2> QED BY <2>1, <2>2
<1>8. ASSUME NEW k \in DOMAIN rows', rows'[k].id \in ToSet(list') \ Changed(call')
      PROVE  rows'[k] = RowOf(on', rows'[k].id)
  <2>1. PICK m \in DOMAIN rows : rows'[k] = rows[m]
    BY <1>7
  <2>2. rows[m].id \in ToSet(list) \ Changed(call)
    BY <1>1, <1>2, <1>8, <2>1
  <2> QED BY <1>1, <2>1, <2>2 DEF Patched
<1>9. \A d \in Calls : call'[d].op \notin WholeList /\ True(call'[d], IdsOf(rows'), on)
  <2>1. ToSet(ids) \ {i} \subseteq ToSet(IdsOf(rows'))
    <3>1. ks \in SUBSET (DOMAIN ids)
      OBVIOUS
    <3> SUFFICES ASSUME NEW e \in ToSet(ids) \ {i} PROVE e \in ToSet(Kept(ids, ks))
      BY <1>5
    <3>2. PICK k \in DOMAIN ids : ids[k] = e
      BY DEF ToSet
    <3>3. k \in ks
      BY <3>2
    <3> HIDE DEF ks
    <3>4. ToSet(Kept(ids, ks)) = {ids[m] : m \in ks}
      BY <1>4, <3>1, Filtered
    <3> QED BY <3>2, <3>3, <3>4
  <2> QED BY <1>1, <2>1, StillTrue DEF i, ids
<1> QED BY <1>1, <1>6, <1>8, <1>9 DEF Patched

LEMMA ReceiveCalm ==
  ASSUME Typed, Typed', Calm, NEW c \in Calls, Receive(c)
  PROVE  Calm'
<1>1. /\ call[c].op # "none" /\ call[c].at \in {"answered", "failed"} /\ call[c] # Idle
      /\ call' = [call EXCEPT ![c] = Idle] /\ UNCHANGED <<list, on>>
  BY Received, UnderWay
<1>2. Separate'
  BY <1>1, ReplySeparate DEF Calm
<1>3. CASE Whole
  BY <1>2, <1>3, WholeReceived DEF Calm
<1>4. CASE Patched
  <2>1. call[c].op \in {"create", "save", "toggle", "delete"}
    <3>1. call[c] \in Calling(lastId) /\ call[c].op \notin WholeList
      BY <1>4, UnderWay DEF Patched
    <3> QED BY <1>1, <3>1 DEF Calling, WholeList
  <2>2. ASSUME call[c].at = "answered" PROVE Patched'
    BY <1>4, <2>1, <2>2, CreateReceived, ChangeReceived, DeleteReceived DEF Calm
  <2>3. ASSUME call[c].at = "failed" PROVE Patched'
    <3>1. call[c].live
      BY <1>1, Others DEF Calm
    <3>2. rows' = rows
      BY <2>1, <2>3, <3>1, Received
    <3>3. ~Creates(call[c]) /\ ~Deletes(call[c]) /\ ~Changes(call[c])
      BY <2>3 DEF Creates, Deletes, Changes
    <3> QED BY <1>1, <1>4, <3>2, <3>3, NothingAsked, PatchedKeeps
  <2>4. Patched'
    BY <1>1, <2>2, <2>3
  <2> QED BY <1>2, <2>4 DEF Calm
<1> QED BY <1>3, <1>4 DEF Calm

-----------------------------------------------------------------------------
(* What the server does *)

LEMMA SameRow ==
  ASSUME NEW a, NEW b, NEW i, i \in a <=> i \in b
  PROVE  RowOf(a, i) = RowOf(b, i)
<1>1. (i \in a) = (i \in b)
  OBVIOUS
<1> QED BY <1>1 DEF RowOf

(* A call that was only sent is in none of the sets. *)
LEMMA Begun ==
  ASSUME Typed, NEW c \in Calls, call[c].at = "sent", NEW y, call' = [call EXCEPT ![c] = y]
  PROVE  /\ ~Creates(y) => New(call') = New(call)
         /\ Creates(y) => New(call') = New(call) \cup {y.id}
         /\ ~Deletes(y) => Gone(call') = Gone(call)
         /\ Deletes(y) => Gone(call') = Gone(call) \cup {y.id}
         /\ ~Changes(y) => Changed(call') = Changed(call)
         /\ Changes(y) => Changed(call') = Changed(call) \cup {y.id}
<1>1. call \in [Calls -> Calling(lastId)]
  BY DEF Typed
<1>2. ~Creates(call[c]) /\ ~Deletes(call[c]) /\ ~Changes(call[c])
  BY DEF Creates, Deletes, Changes
<1>3. /\ ~Creates(y) => New(call') = New(call)
      /\ Creates(y) => New(call') = New(call) \cup {y.id}
  BY <1>1, <1>2, NewNext
<1>4. /\ ~Deletes(y) => Gone(call') = Gone(call)
      /\ Deletes(y) => Gone(call') = Gone(call) \cup {y.id}
  BY <1>1, <1>2, GoneNext
<1>5. /\ ~Changes(y) => Changed(call') = Changed(call)
      /\ Changes(y) => Changed(call') = Changed(call) \cup {y.id}
  BY <1>1, <1>2, ChangedNext
<1> QED BY <1>3, <1>4, <1>5

(* A link that a call asks about is still the server's: who deleted it would *)
(* have met this call.                                                       *)
LEMMA ServerHas ==
  ASSUME Typed, Separate, Patched, NEW c \in Calls,
         call[c].op \in {"save", "toggle", "delete"}, ~Deletes(call[c]),
         call[c].id # Undefined
  PROVE  call[c].id \in ToSet(list) \ New(call)
<1>1. call[c] # Idle
  BY DEF Idle
<1>2. ASSUME NEW d \in Calls, Creates(call[d]) \/ Deletes(call[d]) PROVE call[d].id # call[c].id
  <2>1. d # c
    BY <1>2 DEF Creates
  <2>2. call[d] # Idle
    BY <1>2, NothingAsked
  <2> QED BY <1>1, <2>1, <2>2, Others
<1>3. call[c].id \notin New(call) /\ call[c].id \notin Gone(call)
  BY <1>2 DEF New, Gone
<1>4. call[c].id \in ToSet(IdsOf(rows))
  BY DEF Patched, True
<1>5. ToSet(IdsOf(rows)) \ {Undefined} = (ToSet(list) \ New(call)) \cup Gone(call)
  BY DEF Patched, Lined
<1> QED BY <1>3, <1>4, <1>5

(* A write that touches one link, of which no other call knows. *)
LEMMA Written ==
  ASSUME Typed, Patched, NEW c \in Calls, NEW y, call' = [call EXCEPT ![c] = y], rows' = rows,
         \A d \in Calls \ {c} : call[d] # Idle => call[d].id # y.id,
         y.op \notin WholeList, True(y, IdsOf(rows), on'),
         \A i : i # y.id => (i \in on' <=> i \in on),
         Lined(IdsOf(rows), list', New(call'), Gone(call')),
         \A k \in DOMAIN rows : rows[k].id \in ToSet(list') \ Changed(call') =>
           rows[k].id # y.id /\ rows[k].id \in ToSet(list) \ Changed(call)
  PROVE  Patched'
<1>1. call'[c] = y /\ \A d \in Calls \ {c} : call'[d] = call[d]
  BY DEF Typed
<1>2. \A k \in DOMAIN rows' :
        rows'[k].id \in ToSet(list') \ Changed(call') => rows'[k] = RowOf(on', rows'[k].id)
  <2>1. ASSUME NEW k \in DOMAIN rows, rows[k].id \in ToSet(list') \ Changed(call')
        PROVE  rows[k] = RowOf(on', rows[k].id)
    <3>1. rows[k].id # y.id /\ rows[k] = RowOf(on, rows[k].id)
      BY <2>1 DEF Patched
    <3>2. RowOf(on', rows[k].id) = RowOf(on, rows[k].id)
      BY <3>1, SameRow
    <3> QED BY <3>1, <3>2
  <2> QED BY <2>1
<1>3. ASSUME NEW d \in Calls
      PROVE  call'[d].op \notin WholeList /\ True(call'[d], IdsOf(rows'), on')
  <2>1. CASE d = c
    BY <1>1, <2>1
  <2>2. CASE d # c /\ call[d] = Idle
    BY <1>1, <2>2, NothingAsked
  <2>3. CASE d # c /\ call[d] # Idle
    <3>1. call'[d] = call[d] /\ call[d].id # y.id
      BY <1>1, <2>3
    <3>2. RowOf(on', call[d].id) = RowOf(on, call[d].id)
      BY <3>1, SameRow
    <3>3. call[d].op \notin WholeList /\ True(call[d], IdsOf(rows), on)
      BY DEF Patched
    <3> QED BY <3>1, <3>2, <3>3 DEF True
  <2> QED BY <2>1, <2>2, <2>3
<1> QED BY <1>2, <1>3 DEF Patched

(* The new link has an id that no call and no row has. *)
LEMMA CreateCalm ==
  ASSUME Typed, Separate, Patched, NEW c \in Calls, call[c].at = "sent", Create(c),
         UNCHANGED rows
  PROVE  Separate' /\ Patched'
<1> DEFINE i == lastId + 1
           y == [call[c] EXCEPT !.at = "written", !.id = i]
<1>1. /\ lastId \in Nat /\ list' = Append(list, i) /\ call[c].op = "create"
      /\ on' = IF call[c].on THEN on \cup {i} ELSE on
      /\ list \in Seq(Int) /\ rows \in Rows(lastId) /\ ToSet(list) \subseteq 1..lastId
      /\ call[c] \in Calling(lastId) /\ call[c] # Idle
  BY LinkEditorAssumption, UnderWay DEF Create, Typed, TypeOK, Rows
<1>2. i \in Int /\ i \notin Ids(lastId) /\ i \notin 1..lastId /\ i # Undefined
  BY <1>1 DEF Ids, Undefined
<1>3. call' = [call EXCEPT ![c] = y]
  BY DEF Create, Typed, Calling
<1>4. y.op = "create" /\ y.at = "written" /\ y.id = i /\ y.live = call[c].live
  BY <1>1 DEF Calling
<1> HIDE DEF i, y
<1>5. \A d \in Calls : call[d].id # i
  BY <1>2 DEF Typed, Calling
<1>6. call[c].live /\ \A d \in Calls \ {c} : call[d] # Idle =>
        call[d].op # "create" /\ call[d].op \notin WholeList
  BY <1>1, Others
<1>7. Separate'
  <2>1. ASSUME NEW d \in Calls \ {c}, call[d] # Idle
        PROVE  /\ ~Conflict(y, call[d]) /\ ~Conflict(call[d], y)
               /\ {y.op, call[d].op} # {"create"}
    <3>1. call[d].op # "create" /\ call[d].op \notin WholeList /\ call[d].id # i
      BY <1>5, <1>6, <2>1
    <3> QED BY <1>4, <3>1 DEF Conflict, WholeList
  <2>2. y.live
    BY <1>4, <1>6
  <2> QED BY <1>3, <2>1, <2>2, SeparateNext
<1>8. New(call) = {}
  <2>1. \A d \in Calls : ~Creates(call[d])
    <3>1. ~Creates(Idle)
      BY NothingAsked
    <3> QED BY <1>6, <3>1 DEF Creates
  <2> QED BY <2>1 DEF New
<1>9. New(call') = {i} /\ Gone(call') = Gone(call) /\ Changed(call') = Changed(call)
  <2>1. Creates(y) /\ ~Deletes(y) /\ ~Changes(y)
    BY <1>4 DEF Creates, Deletes, Changes
  <2> QED BY <1>3, <1>4, <1>8, <2>1, Begun
<1>10. /\ IdsOf(rows) \in Seq(Int) /\ DOMAIN IdsOf(rows) = DOMAIN rows
       /\ \A k \in DOMAIN rows : IdsOf(rows)[k] = rows[k].id
                                /\ rows[k].id \in (1..lastId) \cup {Undefined}
  BY <1>1, RowsIds
<1>11. Lined(IdsOf(rows), list', New(call'), Gone(call'))
  <2>1. Lined(IdsOf(rows), list, {}, Gone(call))
    BY <1>8 DEF Patched
  <2>2. i \notin ToSet(list) /\ i \notin ToSet(IdsOf(rows))
    BY <1>1, <1>2, <1>10 DEF ToSet
  <2>3. Lined(IdsOf(rows), Append(list, i), {i}, Gone(call))
    BY <1>1, <1>2, <1>10, <2>1, <2>2, ServerAppends
  <2> QED BY <1>1, <1>9, <2>3
<1>12. ASSUME NEW k \in DOMAIN rows, rows[k].id \in ToSet(list') \ Changed(call')
       PROVE  rows[k].id # i /\ rows[k].id \in ToSet(list) \ Changed(call)
  <2>1. rows[k].id # i
    BY <1>2, <1>10
  <2>2. ToSet(list') = ToSet(list) \cup {i}
    <3>1. /\ Append(list, i) \in Seq(Int) /\ Len(Append(list, i)) = Len(list) + 1
          /\ \A m \in 1..Len(list) : Append(list, i)[m] = list[m]
          /\ Append(list, i)[Len(list) + 1] = i
      BY <1>1, <1>2, AppendProperties
    <3>2. /\ DOMAIN Append(list, i) = 1..(Len(list) + 1) /\ DOMAIN list = 1..Len(list)
          /\ Len(list) \in Nat
      BY <1>1, <3>1, LenProperties
    <3>3. ASSUME NEW e \in ToSet(list') PROVE e \in ToSet(list) \cup {i}
      <4>1. PICK m \in 1..(Len(list) + 1) : Append(list, i)[m] = e
        BY <1>1, <3>2 DEF ToSet
      <4>2. m \in 1..Len(list) \/ m = Len(list) + 1
        BY <3>2
      <4> QED BY <3>1, <3>2, <4>1, <4>2 DEF ToSet
    <3>4. ASSUME NEW e \in ToSet(list) \cup {i} PROVE e \in ToSet(list')
      <4>1. \E m \in 1..(Len(list) + 1) : Append(list, i)[m] = e
        <5>1. CASE e = i
          <6>1. Len(list) + 1 \in 1..(Len(list) + 1)
            BY <3>2
          <6> QED BY <3>1, <5>1, <6>1
        <5>2. CASE e \in ToSet(list)
          <6>1. PICK m \in 1..Len(list) : list[m] = e
            BY <3>2, <5>2 DEF ToSet
          <6>2. m \in 1..(Len(list) + 1)
            BY <3>2
          <6> QED BY <3>1, <6>1, <6>2
        <5> QED BY <3>4, <5>1, <5>2
      <4> QED BY <1>1, <3>2, <4>1 DEF ToSet
    <3> QED BY <3>3, <3>4
  <2> QED BY <1>9, <1>12, <2>1, <2>2
<1>13. Patched'
  <2>1. y.op \notin WholeList
    BY <1>4 DEF WholeList
  <2>2. True(y, IdsOf(rows), on')
    BY <1>4 DEF True, Changes
  <2>3. \A j : j # y.id => (j \in on' <=> j \in on)
    BY <1>1, <1>4
  <2>4. \A d \in Calls \ {c} : call[d] # Idle => call[d].id # y.id
    BY <1>4, <1>5
  <2> QED BY <1>3, <1>4, <1>11, <1>12, <2>1, <2>2, <2>3, <2>4, Written
<1> QED BY <1>7, <1>13

LEMMA UpdateCalm ==
  ASSUME Typed, Separate, Patched, NEW c \in Calls, call[c].at = "sent", Update(c),
         UNCHANGED rows, call[c].id # Undefined
  PROVE  Separate' /\ Patched'
<1> DEFINE i == call[c].id
           y == Reply(call[c], "written", <<>>)
<1>1. call[c].op \in {"save", "toggle"} /\ call[c] # Idle /\ call[c] \in Calling(lastId)
  BY UnderWay DEF Update
<1>2. i \in ToSet(list) \ New(call)
  BY <1>1, ServerHas DEF Deletes
<1>3. /\ on' = IF call[c].on THEN on \cup {i} ELSE on \ {i}
      /\ To(c, "written", <<>>) /\ list' = list
  <2>1. Contains(list, i)
    BY <1>2, AnswerRows DEF Contains, ToSet
  <2> QED BY <2>1 DEF Update
<1>4. call' = [call EXCEPT ![c] = y]
  BY <1>3, Replied
<1>5. y.op = call[c].op /\ y.id = i /\ y.live = call[c].live /\ y.at = "written"
  BY <1>1 DEF Reply, Calling
<1> HIDE DEF i, y
<1>6. Separate'
  BY <1>1, <1>4, <1>5, ReplySeparate DEF i
<1>7. /\ New(call') = New(call) /\ Gone(call') = Gone(call)
      /\ Changed(call') = Changed(call) \cup {i}
  <2>1. ~Creates(y) /\ ~Deletes(y) /\ Changes(y)
    BY <1>1, <1>5 DEF Creates, Deletes, Changes
  <2> QED BY <1>4, <1>5, <2>1, Begun
<1>8. Patched'
  <2>1. y.op \notin WholeList
    BY <1>1, <1>5 DEF WholeList
  <2>2. True(y, IdsOf(rows), on')
    <3>1. i \in ToSet(IdsOf(rows)) /\ i # Undefined
      BY <1>1 DEF Patched, True, i
    <3> QED BY <1>5, <3>1 DEF True
  <2>3. \A j : j # y.id => (j \in on' <=> j \in on)
    BY <1>3, <1>5
  <2>4. \A d \in Calls \ {c} : call[d] # Idle => call[d].id # y.id
    BY <1>1, <1>5, Others DEF i
  <2>5. Lined(IdsOf(rows), list', New(call'), Gone(call'))
    BY <1>3, <1>7 DEF Patched
  <2>6. \A k \in DOMAIN rows : rows[k].id \in ToSet(list') \ Changed(call') =>
          rows[k].id # y.id /\ rows[k].id \in ToSet(list) \ Changed(call)
    BY <1>3, <1>5, <1>7
  <2> QED BY <1>4, <2>1, <2>2, <2>3, <2>4, <2>5, <2>6, Written
<1> QED BY <1>6, <1>8

LEMMA DeleteCalm ==
  ASSUME Typed, Separate, Patched, NEW c \in Calls, call[c].at = "sent", Delete(c),
         UNCHANGED rows, call[c].id # Undefined
  PROVE  Separate' /\ Patched'
<1> DEFINE i == call[c].id
           y == Reply(call[c], "answered", <<>>)
           ks == {k \in DOMAIN list : list[k] # i}
<1>1. call[c].op = "delete" /\ call[c] # Idle /\ call[c] \in Calling(lastId)
  BY UnderWay DEF Delete
<1>2. i \in ToSet(list) \ New(call)
  BY <1>1, ServerHas DEF Deletes
<1>3. on' = on \ {i} /\ To(c, "answered", <<>>) /\ list' = Kept(list, ks)
  <2>1. Contains(list, i)
    BY <1>2, AnswerRows DEF Contains, ToSet
  <2> QED BY <2>1 DEF Delete
<1>4. call' = [call EXCEPT ![c] = y]
  BY <1>3, Replied
<1>5. y.op = "delete" /\ y.id = i /\ y.live = call[c].live /\ y.at = "answered"
  BY <1>1 DEF Reply, Calling
<1>6. IdsOf(rows) \in Seq(Int) /\ list \in Seq(Int) /\ IsInjective(list)
  BY RowsIds DEF Typed, TypeOK, Rows
<1> HIDE DEF i, y
<1>7. Separate'
  BY <1>1, <1>4, <1>5, ReplySeparate DEF i
<1>8. /\ New(call') = New(call) /\ Gone(call') = Gone(call) \cup {i}
      /\ Changed(call') = Changed(call)
  <2>1. ~Creates(y) /\ Deletes(y) /\ ~Changes(y)
    BY <1>5 DEF Creates, Deletes, Changes
  <2> QED BY <1>4, <1>5, <2>1, Begun
<1>9. Lined(IdsOf(rows), list', New(call'), Gone(call'))
  <2>1. Lined(IdsOf(rows), list, New(call), Gone(call))
    BY DEF Patched
  <2>2. Lined(IdsOf(rows), Kept(list, ks), New(call), Gone(call) \cup {i})
    BY <1>2, <1>6, <2>1, ServerRemoves
  <2> QED BY <1>3, <1>8, <2>2
<1>10. ToSet(list') = ToSet(list) \ {i}
  BY <1>3, <1>6, ServerKeeps
<1>11. Patched'
  <2>1. y.op \notin WholeList
    BY <1>5 DEF WholeList
  <2>2. True(y, IdsOf(rows), on')
    <3>1. i \in ToSet(IdsOf(rows)) /\ i # Undefined
      BY <1>1 DEF Patched, True, i
    <3> QED BY <1>5, <3>1 DEF True
  <2>3. \A j : j # y.id => (j \in on' <=> j \in on)
    BY <1>3, <1>5
  <2>4. \A d \in Calls \ {c} : call[d] # Idle => call[d].id # y.id
    BY <1>1, <1>5, Others DEF i
  <2>5. \A k \in DOMAIN rows : rows[k].id \in ToSet(list') \ Changed(call') =>
          rows[k].id # y.id /\ rows[k].id \in ToSet(list) \ Changed(call)
    BY <1>5, <1>8, <1>10
  <2> QED BY <1>4, <1>9, <2>1, <2>2, <2>3, <2>4, <2>5, Written
<1> QED BY <1>7, <1>11

(* A call that goes on stays apart. *)
LEMMA ToSeparate ==
  ASSUME Typed, Separate, NEW c \in Calls, call[c] # Idle, NEW at, NEW answer, To(c, at, answer)
  PROVE  Separate'
<1>1. call' = [call EXCEPT ![c] = Reply(call[c], at, answer)]
  BY Replied
<1>2. LET y == Reply(call[c], at, answer) IN
      y.op = call[c].op /\ y.id = call[c].id /\ y.live = call[c].live
  BY UnderWay DEF Reply, Calling
<1> QED BY <1>1, <1>2, ReplySeparate

(* A call that has failed and had no effect. *)
LEMMA FailedCalm ==
  ASSUME Typed, Separate, Patched, NEW c \in Calls, call[c].at = "sent",
         UNCHANGED <<list, on, rows>>, To(c, "failed", <<>>)
  PROVE  Separate' /\ Patched'
<1> DEFINE y == Reply(call[c], "failed", <<>>)
<1>1. call' = [call EXCEPT ![c] = y]
  BY Replied
<1>2. y.op = call[c].op /\ y.id = call[c].id /\ y.at = "failed"
  BY UnderWay DEF Reply, Calling
<1> HIDE DEF y
<1>3. y.op \notin WholeList /\ True(y, IdsOf(rows), on)
  BY <1>2 DEF Patched, True, Changes
<1>4. /\ Creates(call[c]) <=> Creates(y)
      /\ Deletes(call[c]) <=> Deletes(y)
      /\ Changes(call[c]) <=> Changes(y)
  BY <1>2 DEF Creates, Deletes, Changes
<1>5. Patched'
  BY <1>1, <1>2, <1>3, <1>4, PatchedKeeps
<1>6. call[c] # Idle
  BY UnderWay
<1>7. Separate'
  BY <1>6, ToSeparate
<1> QED BY <1>5, <1>7

(* The server has no link for a row of none. *)
LEMMA UndefinedCalm ==
  ASSUME Typed, Separate, Patched, NEW c \in Calls, call[c].at = "sent",
         Update(c) \/ Delete(c), call[c].id = Undefined, UNCHANGED rows
  PROVE  Separate' /\ Patched'
<1>1. /\ list \in Seq(Int) /\ IsInjective(list) /\ on \subseteq ToSet(list)
      /\ Undefined \notin ToSet(list)
  <2>1. ToSet(list) \subseteq 1..lastId /\ lastId \in Nat
    BY DEF Typed, TypeOK
  <2>2. Undefined \notin ToSet(list)
    BY <2>1 DEF Undefined
  <2> QED BY <2>2 DEF Typed, TypeOK
<1>2. ~Contains(list, Undefined)
  BY <1>1, LenProperties DEF Contains, ToSet
<1>3. CASE Update(c)
  BY <1>2, <1>3, FailedCalm DEF Update
<1>4. CASE Delete(c)
  <2> DEFINE ks == {k \in DOMAIN list : list[k] # Undefined}
  <2>1. list' = Kept(list, ks) /\ on' = on \ {Undefined} /\ To(c, "failed", <<>>)
    BY <1>2, <1>4 DEF Delete
  <2>2. on' = on
    BY <1>1, <2>1
  <2>3. Kept(list, ks) = list
    <3>1. Lined(list, list, {}, {})
      BY <1>1, LinedItself
    <3>2. Lined(Kept(list, ks), list, {}, {} \ {Undefined})
      BY <1>1, <3>1, PageRemoves
    <3>3. Kept(list, ks) \in Seq(Int) /\ Undefined \notin ToSet(Kept(list, ks))
      <4>1. ks \in SUBSET (DOMAIN list) /\ \A k \in ks : list[k] # Undefined
        OBVIOUS
      <4> HIDE DEF ks
      <4>2. Kept(list, ks) \in Seq(Int) /\ ToSet(Kept(list, ks)) = {list[k] : k \in ks}
        BY <1>1, <4>1, Filtered
      <4> QED BY <4>1, <4>2
    <3> HIDE DEF ks
    <3>4. {} \ {Undefined} = {}
      OBVIOUS
    <3>5. Lined(Kept(list, ks), list, {}, {})
      BY <3>2, <3>4
    <3> QED BY <1>1, <3>3, <3>5, SameOrder
  <2>4. list' = list
    BY <2>1, <2>3
  <2> QED BY <2>1, <2>2, <2>4, FailedCalm
<1> QED BY <1>3, <1>4

LEMMA HandleCalm ==
  ASSUME Typed, Calm, NEW c \in Calls, Handle(c), ~missed'
  PROVE  Calm'
<1>1. call[c].at = "sent" /\ call[c] # Idle /\ UNCHANGED <<rows, busy, drag, clashed, missed>>
  BY UnderWay DEF Handle
<1>2. CASE Patched
  <2>1. ~List(c) /\ ~Reorder(c)
    BY <1>2 DEF Patched, List, Reorder, WholeList
  <2>2. Create(c) \/ Update(c) \/ Delete(c)
    BY <2>1 DEF Handle
  <2>3. Separate' /\ Patched'
    BY <1>1, <1>2, <2>2, CreateCalm, UpdateCalm, DeleteCalm, UndefinedCalm DEF Calm
  <2> QED BY <2>3 DEF Calm
<1>3. CASE Whole
  <2>1. Whole'
    BY <1>3, WholeHandled
  <2>2. call[c].op \in {"load", "reorder"}
    BY <1>1, <1>3, WholeAlone DEF WholeList
  <2>3. List(c) \/ Reorder(c)
    BY <2>2 DEF Handle, Create, Update, Delete
  <2>4. \/ To(c, "answered", Answer)
        \/ To(c, "written", <<>>)
        \/ To(c, "failed", <<>>)
    BY <2>3 DEF List, Reorder
  <2>5. Separate'
    BY <1>1, <2>4, ToSeparate DEF Calm
  <2> QED BY <2>1, <2>5 DEF Calm
<1> QED BY <1>2, <1>3 DEF Calm

(* Between a write and its answer nobody else touches the link. *)
LEMMA ReadBackCalm ==
  ASSUME Typed, Calm, NEW c \in Calls, ReadBack(c), ~missed'
  PROVE  Calm'
<1>1. call[c].at = "written" /\ call[c] # Idle /\ UNCHANGED <<list, on, rows>>
  BY UnderWay DEF ReadBack
<1>2. Separate'
  <2>1. \/ To(c, "answered", Answer)
        \/ To(c, "answered", <<Shown(call[c].id)>>)
        \/ To(c, "failed", <<>>)
    BY DEF ReadBack
  <2> QED BY <1>1, <2>1, ToSeparate DEF Calm
<1>3. CASE Whole
  BY <1>2, <1>3, WholeHandled DEF Calm
<1>4. CASE Patched
  <2> DEFINE i == call[c].id
             y == Reply(call[c], "answered", <<Shown(i)>>)
  <2>1. call[c].op \in {"create", "save", "toggle"} /\ call[c] \in Calling(lastId)
    <3>1. Sound(call[c]) /\ call[c].op \notin WholeList /\ call[c] \in Calling(lastId)
      BY <1>4, UnderWay DEF Patched
    <3> QED BY <1>1, <3>1 DEF Sound, WholeList
  <2>2. i \in ToSet(list)
    <3>1. CASE call[c].op = "create"
      <4>1. i \in New(call)
        BY <1>1, <3>1 DEF New, Creates
      <4>2. New(call) \subseteq ToSet(list)
        BY <1>4 DEF Patched, Lined
      <4> QED BY <4>1, <4>2
    <3>2. CASE call[c].op \in {"save", "toggle"}
      <4>1. i # Undefined
        BY <1>1, <1>4, <3>2 DEF Patched, True, Changes
      <4> QED BY <1>1, <1>4, <3>2, <4>1, ServerHas DEF Deletes, Calm
    <3> QED BY <2>1, <3>1, <3>2
  <2>3. To(c, "answered", <<Shown(i)>>)
    <3>1. Contains(list, i)
      BY <2>2, AnswerRows DEF Contains, ToSet
    <3> QED BY <2>1, <3>1 DEF ReadBack
  <2>4. call' = [call EXCEPT ![c] = y]
    BY <2>3, Replied
  <2>5. /\ y.op = call[c].op /\ y.id = i /\ y.at = "answered"
        /\ y.answer = <<RowOf(on, i)>>
    BY <2>1 DEF Reply, Calling, Shown, RowOf
  <2> HIDE DEF y, i
  <2>6. y.op \notin WholeList
    BY <2>1, <2>5 DEF WholeList
  <2>7. True(y, IdsOf(rows), on)
    <3>1. y.op \in {"save", "toggle", "delete"} => i \in ToSet(IdsOf(rows))
      BY <1>4, <2>5 DEF Patched, True, i
    <3>2. Changes(y) => i # Undefined
      BY <1>1, <1>4, <2>5 DEF Patched, True, Changes, i
    <3> QED BY <2>5, <3>1, <3>2 DEF True
  <2>8. /\ Creates(call[c]) <=> Creates(y)
        /\ Deletes(call[c]) <=> Deletes(y)
        /\ Changes(call[c]) <=> Changes(y)
    BY <1>1, <2>1, <2>5 DEF Creates, Deletes, Changes
  <2>9. Patched'
    BY <1>1, <1>4, <2>4, <2>5, <2>6, <2>7, <2>8, PatchedKeeps DEF i
  <2> QED BY <1>2, <2>9 DEF Calm
<1> QED BY <1>3, <1>4 DEF Calm

(* A call that breaks before it has had any effect. *)
LEMMA BreakCalm ==
  ASSUME Typed, Calm, NEW c \in Calls, Break(c), ~missed'
  PROVE  Calm'
<1>1. call[c].at = "sent" /\ To(c, "failed", <<>>) /\ UNCHANGED <<list, on, rows>>
  BY DEF Break
<1>2. call[c] # Idle
  BY <1>1, UnderWay
<1>3. Separate'
  BY <1>1, <1>2, ToSeparate DEF Calm
<1>4. CASE Whole
  BY <1>3, <1>4, WholeHandled DEF Calm
<1>5. CASE Patched
  BY <1>1, <1>5, FailedCalm DEF Calm
<1> QED BY <1>4, <1>5 DEF Calm

-----------------------------------------------------------------------------
(* The invariant *)

(* A row of no link among the others. *)
LEMMA LinedInserted ==
  ASSUME NEW s \in Seq(Int), NEW l, NEW new, NEW gone, Lined(s, l, new, gone),
         NEW to \in DOMAIN s, NEW t, DOMAIN t = 1..(Len(s) + 1),
         \A k \in 1..(Len(s) + 1) :
           t[k] = IF k < to THEN s[k] ELSE IF k = to THEN Undefined ELSE s[k - 1],
         Undefined \notin ToSet(l)
  PROVE  Lined(t, l, new, gone) /\ ToSet(s) \subseteq ToSet(t)
<1> DEFINE N == Len(s) + 1
           back(k) == IF k < to THEN k ELSE k - 1
<1>1. Len(s) \in Nat /\ DOMAIN s = 1..Len(s) /\ to \in 1..Len(s) /\ to \in Int /\ N \in Nat
  BY LenProperties
<1>2. ASSUME NEW k \in 1..N, k # to PROVE back(k) \in DOMAIN s /\ t[k] = s[back(k)]
  BY <1>1, <1>2
<1>3. \A k, m \in 1..N : k < m /\ k # to /\ m # to => back(k) < back(m)
  BY <1>1
<1>4. t[to] = Undefined
  BY <1>1
<1>5. ASSUME NEW j \in DOMAIN s PROVE \E k \in 1..N : k # to /\ back(k) = j
  <2>1. CASE j < to
    BY <1>1, <2>1
  <2>2. CASE j >= to
    <3>1. j + 1 \in 1..N /\ j + 1 # to /\ back(j + 1) = j
      BY <1>1, <2>2
    <3> HIDE DEF back, N
    <3> QED BY <3>1
  <2> QED BY <1>1, <2>1, <2>2
<1> HIDE DEF back
<1>6. DOMAIN t = 1..N
  OBVIOUS
<1> HIDE DEF N
<1>7. ToSet(t) \ {Undefined} = ToSet(s) \ {Undefined} /\ ToSet(s) \subseteq ToSet(t)
  <2>1. ASSUME NEW e \in ToSet(s) PROVE e \in ToSet(t)
    <3>1. PICK j \in DOMAIN s : s[j] = e
      BY DEF ToSet
    <3>2. PICK k \in 1..N : k # to /\ back(k) = j
      BY <1>5
    <3>3. t[k] = e
      BY <1>2, <3>1, <3>2
    <3> QED BY <1>6, <3>3 DEF ToSet
  <2>2. ASSUME NEW e \in ToSet(t), e # Undefined PROVE e \in ToSet(s)
    <3>1. PICK k \in 1..N : t[k] = e
      BY <1>6 DEF ToSet
    <3>2. k # to
      BY <1>4, <2>2, <3>1
    <3> QED BY <1>2, <3>1, <3>2 DEF ToSet
  <2> QED BY <2>1, <2>2
<1>8. ASSUME NEW k \in DOMAIN t, NEW m \in DOMAIN t, t[k] = t[m], t[k] # Undefined PROVE k = m
  <2>1. k # to /\ m # to /\ k \in 1..N /\ m \in 1..N
    BY <1>4, <1>6, <1>8
  <2>2. back(k) \in DOMAIN s /\ back(m) \in DOMAIN s /\ s[back(k)] = t[k] /\ s[back(m)] = t[m]
    BY <1>2, <2>1
  <2>3. back(k) = back(m)
    BY <1>8, <2>2 DEF Lined
  <2>4. ~(k < m) /\ ~(m < k)
    <3>1. back(k) \in Int
      BY <1>1, <2>2
    <3> QED BY <1>3, <2>1, <2>3, <3>1
  <2> QED BY <1>1, <2>1, <2>4
<1>9. ASSUME NEW k \in DOMAIN t, NEW m \in DOMAIN t, NEW p \in DOMAIN l, NEW q \in DOMAIN l,
             t[k] = l[p], t[m] = l[q], k < m
      PROVE  p < q
  <2>1. l[p] # Undefined /\ l[q] # Undefined
    BY DEF ToSet
  <2>2. k # to /\ m # to /\ k \in 1..N /\ m \in 1..N
    BY <1>4, <1>6, <1>9, <2>1
  <2>3. back(k) \in DOMAIN s /\ back(m) \in DOMAIN s /\ s[back(k)] = l[p] /\ s[back(m)] = l[q]
    BY <1>2, <1>9, <2>2
  <2>4. back(k) < back(m)
    BY <1>3, <1>9, <2>2
  <2> QED BY <2>3, <2>4 DEF Lined
<1> QED BY <1>7, <1>8, <1>9 DEF Lined

(* A drag that ends past the end of the list changes what the page shows by  *)
(* a row of no link, and nothing else.                                       *)
LEMMA DropNothingCalm ==
  ASSUME Typed, Calm, NEW to \in DOMAIN rows, DropNothing(to)
  PROVE  Calm'
<1>1. UNCHANGED <<list, on, call>> /\ rows' = InsertAt(rows, to, NoLink)
  BY DEF DropNothing
<1>2. Separate'
  BY <1>1 DEF Calm, Separate, Flying
<1>3. CASE Whole
  <2>1. Whole'
    BY <1>1, <1>3 DEF Whole, Answer, Shown
  <2> QED BY <1>2, <2>1 DEF Calm
<1>4. CASE Patched
  <2>1. /\ rows \in Rows(lastId) /\ rows \in Seq(Row(lastId)) /\ NoLink \in Row(lastId)
        /\ ToSet(list) \subseteq 1..lastId /\ lastId \in Nat
    BY DEF Typed, TypeOK, Rows, NoLink, Row
  <2>2. Undefined \notin ToSet(list)
    BY <2>1 DEF Undefined
  <2>3. /\ DOMAIN rows' = 1..(Len(rows) + 1)
        /\ \A k \in 1..(Len(rows) + 1) :
             rows'[k] = IF k < to THEN rows[k] ELSE IF k = to THEN NoLink ELSE rows[k - 1]
    <3>1. /\ DOMAIN InsertAt(rows, to, NoLink) = 1..(Len(rows) + 1)
          /\ \A k \in 1..(Len(rows) + 1) :
               InsertAt(rows, to, NoLink)[k] =
                 IF k < to THEN rows[k] ELSE IF k = to THEN NoLink ELSE rows[k - 1]
      <4> DEFINE T == Row(lastId)
      <4>1. NoLink \in T /\ rows \in Seq(T) /\ to \in DOMAIN rows
        BY <2>1
      <4> HIDE DEF T
      <4>2. /\ InsertAt(rows, to, NoLink) \in Seq(T)
            /\ DOMAIN InsertAt(rows, to, NoLink) = 1..(Len(rows) + 1)
            /\ \A k \in 1..(Len(rows) + 1) :
                 InsertAt(rows, to, NoLink)[k] =
                   IF k < to THEN rows[k] ELSE IF k = to THEN NoLink ELSE rows[k - 1]
        BY ONLY <4>1, Inserted
      <4> QED BY <4>2
    <3> QED BY <1>1, <3>1
  <2>4. /\ IdsOf(rows) \in Seq(Int) /\ DOMAIN IdsOf(rows) = DOMAIN rows
        /\ DOMAIN rows = 1..Len(rows) /\ Len(rows) \in Nat
        /\ \A k \in DOMAIN rows : IdsOf(rows)[k] = rows[k].id
    BY <2>1, RowsIds
  <2>5. Len(IdsOf(rows)) = Len(rows) /\ to \in Int
    BY <2>4, LenProperties
  <2>6. DOMAIN IdsOf(rows') = DOMAIN rows' /\ \A k \in DOMAIN rows' : IdsOf(rows')[k] = rows'[k].id
    BY DEF IdsOf
  <2>7. \A k \in 1..(Len(rows) + 1) :
          /\ k < to => k \in DOMAIN rows
          /\ ~(k < to) /\ k # to => k - 1 \in DOMAIN rows
    BY <2>4, <2>5
  <2>8. NoLink.id = Undefined
    BY DEF NoLink
  <2>9. \A k \in 1..(Len(rows) + 1) :
          IdsOf(rows')[k] = IF k < to THEN IdsOf(rows)[k]
                            ELSE IF k = to THEN Undefined ELSE IdsOf(rows)[k - 1]
    BY <2>3, <2>4, <2>6, <2>7, <2>8
  <2>10. /\ Lined(IdsOf(rows'), list, New(call), Gone(call))
         /\ ToSet(IdsOf(rows)) \subseteq ToSet(IdsOf(rows'))
    <3>1. Lined(IdsOf(rows), list, New(call), Gone(call)) /\ to \in DOMAIN IdsOf(rows)
      BY <1>4, <2>4 DEF Patched
    <3>2. DOMAIN IdsOf(rows') = 1..(Len(IdsOf(rows)) + 1)
      BY <2>3, <2>5, <2>6
    <3> DEFINE t == IdsOf(rows')
               s == IdsOf(rows)
    <3>3. \A k \in 1..(Len(s) + 1) :
            t[k] = IF k < to THEN s[k] ELSE IF k = to THEN Undefined ELSE s[k - 1]
      BY <2>5, <2>9
    <3> HIDE DEF t
    <3> HIDE DEF s
    <3> QED BY <2>2, <2>4, <3>1, <3>2, <3>3, LinedInserted DEF s, t
  <2>11. ASSUME NEW k \in DOMAIN rows', rows'[k].id \in ToSet(list) \ Changed(call)
         PROVE  rows'[k] = RowOf(on, rows'[k].id)
    <3>1. k \in 1..(Len(rows) + 1) /\ k # to
      BY <2>2, <2>3, <2>8, <2>11
    <3>2. PICK m \in DOMAIN rows : rows'[k] = rows[m]
      BY <2>3, <2>7, <3>1
    <3> QED BY <1>4, <2>11, <3>2 DEF Patched
  <2>12. \A d \in Calls : call[d].op \notin WholeList /\ True(call[d], IdsOf(rows'), on)
    BY <1>4, <2>10 DEF Patched, True
  <2>13. Patched'
    BY <1>1, <2>10, <2>11, <2>12 DEF Patched
  <2> QED BY <1>2, <2>13 DEF Calm
<1> QED BY <1>3, <1>4 DEF Calm

(* Nothing that was said about changes. *)
LEMMA SameCalm ==
  ASSUME Calm, UNCHANGED <<list, on, rows, call>>
  PROVE  Calm'
BY DEF Calm, Separate, Flying, Patched, Whole, Answer, Shown

LEMMA NextCalm ==
  ASSUME Typed, Typed', Next, ~clashed', ~missed',
         ~clashed /\ ~missed => Calm
  PROVE  Calm'
<1>0. Drafts \subseteq BOOLEAN
  BY LinkEditorAssumption
<1>1. \/ \E c \in Calls :
           \/ Open(c)
           \/ \E k \in DOMAIN rows, e \in BOOLEAN : Save(c, rows[k].id, e)
           \/ \E e \in BOOLEAN : Save(c, 0, e)
           \/ \E k \in DOMAIN rows : Toggle(c, k) \/ RemoveLink(c, k)
           \/ \E k, to \in DOMAIN rows : Move(c, k, to)
           \/ \E to \in DOMAIN rows : Drop(c, to)
           \/ Receive(c) \/ Handle(c) \/ ReadBack(c) \/ Break(c)
      \/ \E k \in DOMAIN rows : DragStart(k)
      \/ \E to \in DOMAIN rows : DropNothing(to)
      \/ DragEnd
  BY <1>0 DEF Next
<1>2. ASSUME NEW c \in Calls, Open(c) PROVE Calm'
  BY <1>2, OpenCalm
<1>3. ASSUME NEW c \in Calls, NEW k \in DOMAIN rows, NEW e \in BOOLEAN, Save(c, rows[k].id, e)
      PROVE  Calm'
  <2>1. ~clashed /\ ~missed
    BY <1>3 DEF Save, Send
  <2>2. rows[k].id \in ToSet(IdsOf(rows))
    BY OnThePage
  <2> QED BY <1>3, <2>1, <2>2, SaveCalm
<1>4. ASSUME NEW c \in Calls, NEW e \in BOOLEAN, Save(c, 0, e) PROVE Calm'
  <2>1. ~clashed /\ ~missed
    BY <1>4 DEF Save, Send
  <2> QED BY <1>4, <2>1, SaveCalm
<1>5. ASSUME NEW c \in Calls, NEW k \in DOMAIN rows, Toggle(c, k) PROVE Calm'
  <2>1. ~clashed /\ ~missed
    BY <1>5 DEF Toggle, Send
  <2> QED BY <1>5, <2>1, ToggleCalm
<1>6. ASSUME NEW c \in Calls, NEW k \in DOMAIN rows, RemoveLink(c, k) PROVE Calm'
  <2>1. ~clashed /\ ~missed
    BY <1>6 DEF RemoveLink, Send
  <2> QED BY <1>6, <2>1, RemoveCalm
<1>7. ASSUME NEW c \in Calls, NEW next, ApplyOrder(c, next) PROVE Calm'
  <2>1. ~clashed /\ ~missed
    BY <1>7 DEF ApplyOrder, Send
  <2> QED BY <1>7, <2>1, OrderCalm
<1>8. ASSUME NEW c \in Calls, NEW k \in DOMAIN rows, NEW to \in DOMAIN rows, Move(c, k, to)
      PROVE  Calm'
  BY <1>7, <1>8 DEF Move
<1>9. ASSUME NEW c \in Calls, NEW to \in DOMAIN rows, Drop(c, to) PROVE Calm'
  BY <1>7, <1>9 DEF Drop
<1>10. ASSUME NEW c \in Calls, Receive(c) PROVE Calm'
  <2>1. ~clashed /\ ~missed
    BY <1>10 DEF Receive
  <2> QED BY <1>10, <2>1, ReceiveCalm
<1>11. ASSUME NEW c \in Calls, Handle(c) PROVE Calm'
  <2>1. ~clashed /\ ~missed
    BY <1>11 DEF Handle
  <2> QED BY <1>11, <2>1, HandleCalm
<1>12. ASSUME NEW c \in Calls, ReadBack(c) PROVE Calm'
  <2>1. ~clashed /\ ~missed
    BY <1>12 DEF ReadBack
  <2> QED BY <1>12, <2>1, ReadBackCalm
<1>13. ASSUME NEW c \in Calls, Break(c) PROVE Calm'
  <2>1. ~clashed /\ ~missed
    BY <1>13 DEF Break
  <2> QED BY <1>13, <2>1, BreakCalm
<1>14. ASSUME NEW k \in DOMAIN rows, DragStart(k) PROVE Calm'
  BY <1>14, SameCalm DEF DragStart
<1>15. ASSUME NEW to \in DOMAIN rows, DropNothing(to) PROVE Calm'
  <2>1. ~clashed /\ ~missed
    BY <1>15 DEF DropNothing
  <2> QED BY <1>15, <2>1, DropNothingCalm
<1>16. CASE DragEnd
  BY <1>16, SameCalm DEF DragEnd
<1> QED BY <1>1, <1>2, <1>3, <1>4, <1>5, <1>6, <1>8, <1>9, <1>10, <1>11, <1>12, <1>13, <1>14,
          <1>15, <1>16

LEMMA NextEdit == EditIInv /\ [Next]_vars => EditIInv'
<1> SUFFICES ASSUME EditIInv, [Next]_vars PROVE EditIInv'
  OBVIOUS
<1>1. Typed /\ Typed' /\ (~clashed /\ ~missed => Calm)
  BY NextTyped DEF EditIInv, Calm
<1>2. ~clashed' /\ ~missed' => Calm'
  <2>1. CASE Next
    BY <1>1, <2>1, NextCalm
  <2>2. CASE UNCHANGED vars
    BY <1>1, <2>2, SameCalm DEF vars
  <2> QED BY <2>1, <2>2
<1> QED BY <1>1, <1>2 DEF EditIInv, Calm

(* links.page.ts load, save, toggleEnabled, remove, applyOrder, onDrop:      *)
(* whatever the order in which calls about different links are handled and   *)
(* answered, whichever of them fail before they take effect, and wherever a  *)
(* drag began, a page that has had an answer to each call, and to every one  *)
(* that took effect, shows what the server has: the same links, in its       *)
(* order, with its fields, and beside them at most rows of no link.          *)
THEOREM PageFollows == Spec => []PageAgrees
<1>1. Init => EditIInv
  BY InitTyped DEF Init, EditIInv
<1>2. EditIInv => PageAgrees
  <2> SUFFICES ASSUME EditIInv, Flying = {}, ~clashed, ~missed
                PROVE  Without(rows, Undefined) = Answer
    BY DEF PageAgrees
  <2>1. \A c \in Calls : call[c] = Idle
    BY DEF Flying
  <2>2. ~Whole
    BY <2>1 DEF Whole, WholeList, Idle
  <2> QED BY <2>1, <2>2, PatchedShows, ShownAnswer DEF EditIInv
<1>3. Spec => []EditIInv
  BY <1>1, NextEdit, PTL DEF Spec
<1> QED BY <1>2, <1>3, PTL

-----------------------------------------------------------------------------
(* The server's list as an order *)

LEMMA AbovePairs ==
  ASSUME NEW l
  PROVE  /\ Above(l) \subseteq ToSet(l) \X ToSet(l)
         /\ \A a, b : <<a, b>> \in Above(l) <=>
              \E p, q \in DOMAIN l : p < q /\ l[p] = a /\ l[q] = b
<1>1. Above(l) \subseteq ToSet(l) \X ToSet(l)
  BY DEF Above
<1>2. ASSUME NEW a, NEW b, <<a, b>> \in Above(l)
      PROVE  \E p, q \in DOMAIN l : p < q /\ l[p] = a /\ l[q] = b
  BY <1>2 DEF Above
<1>3. ASSUME NEW a, NEW b, NEW p \in DOMAIN l, NEW q \in DOMAIN l,
             p < q, l[p] = a, l[q] = b
      PROVE  <<a, b>> \in Above(l)
  <2>1. a \in ToSet(l) /\ b \in ToSet(l)
    BY <1>3 DEF ToSet
  <2> QED BY <1>3, <2>1 DEF Above
<1> QED BY <1>1, <1>2, <1>3

(* A list that names each link once orders its links. *)
LEMMA AboveOrder ==
  ASSUME NEW l \in Seq(Int), IsInjective(l)
  PROVE  LO!TotalOrder(Above(l), ToSet(l))
<1>1. DOMAIN l = 1..Len(l) /\ Len(l) \in Nat
  BY LenProperties
<1>2. \A a, b : <<a, b>> \in Above(l) <=>
        \E p, q \in DOMAIN l : p < q /\ l[p] = a /\ l[q] = b
  BY AbovePairs
<1>3. \A p, q \in DOMAIN l : l[p] = l[q] => p = q
  BY DEF IsInjective
<1>4. \A a : a \in ToSet(l) <=> \E p \in DOMAIN l : l[p] = a
  BY DEF ToSet
<1>5. ASSUME NEW a, <<a, a>> \in Above(l) PROVE FALSE
  <2>1. PICK p, q \in DOMAIN l : p < q /\ l[p] = a /\ l[q] = a
    BY <1>2, <1>5
  <2> QED BY <1>1, <1>3, <2>1
<1>6. ASSUME NEW a \in ToSet(l), NEW b \in ToSet(l), a # b
      PROVE  <<a, b>> \in Above(l) \/ <<b, a>> \in Above(l)
  <2>1. PICK p, q \in DOMAIN l : l[p] = a /\ l[q] = b
    BY <1>4
  <2>2. p < q \/ q < p
    BY <1>1, <1>6, <2>1
  <2> QED BY <1>2, <2>1, <2>2
<1>7. ASSUME NEW a, NEW b, NEW d, <<a, b>> \in Above(l), <<b, d>> \in Above(l)
      PROVE  <<a, d>> \in Above(l)
  <2>1. PICK p, q \in DOMAIN l : p < q /\ l[p] = a /\ l[q] = b
    BY <1>2, <1>7
  <2>2. PICK r, s \in DOMAIN l : r < s /\ l[r] = b /\ l[s] = d
    BY <1>2, <1>7
  <2>3. q = r
    BY <1>3, <2>1, <2>2
  <2>4. p < s
    BY <1>1, <2>1, <2>2, <2>3
  <2> QED BY <1>2, <2>1, <2>2, <2>4
<1> QED BY <1>5, <1>6, <1>7, AbovePairs DEF LO!TotalOrder

(* A link that is appended passes none. *)
LEMMA AppendedAbove ==
  ASSUME NEW l \in Seq(Int), NEW i \in Int, i \notin ToSet(l)
  PROVE  /\ ToSet(Append(l, i)) = ToSet(l) \cup {i}
         /\ Above(Append(l, i)) \cap (ToSet(l) \X ToSet(l)) = Above(l)
<1> DEFINE t == Append(l, i)
           n == Len(l)
<1>1. /\ n \in Nat /\ DOMAIN l = 1..n /\ DOMAIN t = 1..(n + 1)
      /\ \A k \in 1..n : t[k] = l[k]
      /\ t[n + 1] = i
  <2>1. t \in Seq(Int) /\ Len(t) = n + 1 /\ t[n + 1] = i /\ \A k \in 1..n : t[k] = l[k]
    BY AppendProperties
  <2> HIDE DEF t
  <2> QED BY <2>1, LenProperties
<1> HIDE DEF t, n
<1>2. DOMAIN l \subseteq DOMAIN t /\ n + 1 \in DOMAIN t
      /\ \A k \in DOMAIN t : k \in DOMAIN l \/ k = n + 1
  BY <1>1
<1>3. ToSet(t) = ToSet(l) \cup {i}
  <2>1. ASSUME NEW e PROVE e \in ToSet(t) <=> e \in ToSet(l) \/ e = i
    <3>1. e \in ToSet(t) <=> \E k \in DOMAIN t : t[k] = e
      BY DEF ToSet
    <3>2. e \in ToSet(l) <=> \E k \in DOMAIN l : l[k] = e
      BY DEF ToSet
    <3> QED BY <1>1, <1>2, <3>1, <3>2
  <2> QED BY <2>1
<1>4. \A k \in DOMAIN t : t[k] \in ToSet(l) => k \in DOMAIN l
  BY <1>1, <1>2
<1>5. ASSUME NEW a \in ToSet(l), NEW b \in ToSet(l)
      PROVE  <<a, b>> \in Above(t) <=> <<a, b>> \in Above(l)
  <2>1. <<a, b>> \in Above(t) <=> \E p, q \in DOMAIN t : p < q /\ t[p] = a /\ t[q] = b
    BY AbovePairs
  <2>2. <<a, b>> \in Above(l) <=> \E p, q \in DOMAIN l : p < q /\ l[p] = a /\ l[q] = b
    BY AbovePairs
  <2>3. ASSUME NEW p \in DOMAIN t, NEW q \in DOMAIN t, p < q, t[p] = a, t[q] = b
        PROVE  p \in DOMAIN l /\ q \in DOMAIN l /\ l[p] = a /\ l[q] = b
    BY <1>1, <1>4, <2>3
  <2>4. ASSUME NEW p \in DOMAIN l, NEW q \in DOMAIN l, p < q, l[p] = a, l[q] = b
        PROVE  p \in DOMAIN t /\ q \in DOMAIN t /\ t[p] = a /\ t[q] = b
    BY <1>1, <1>2, <2>4
  <2> QED BY <2>1, <2>2, <2>3, <2>4
<1>6. Above(l) \subseteq ToSet(l) \X ToSet(l)
  BY AbovePairs
<1>7. Above(t) \cap (ToSet(l) \X ToSet(l)) = Above(l)
  BY <1>5, <1>6
<1> QED BY <1>3, <1>7 DEF t

(* Nor do those pass each other that stay when a link is taken out. *)
LEMMA KeptAbove ==
  ASSUME NEW l \in Seq(Int), IsInjective(l), NEW ks \in SUBSET (DOMAIN l)
  PROVE  LET t == Kept(l, ks) IN Above(t) = Above(l) \cap (ToSet(t) \X ToSet(t))
<1> DEFINE t == Kept(l, ks)
           N == Cardinality(ks)
<1>0. DOMAIN l = 1..Len(l) /\ Len(l) \in Nat
  BY LenProperties
<1>1. /\ DOMAIN t = 1..N
      /\ \A j \in 1..N : Nth(ks, j) \in DOMAIN l /\ t[j] = l[Nth(ks, j)]
      /\ \A i, j \in 1..N : i < j => Nth(ks, i) < Nth(ks, j)
  BY Filtered
<1>1a. N \in Nat
  BY <1>0, Places
<1> HIDE DEF t, N
<1>2. ASSUME NEW a \in ToSet(t), NEW b \in ToSet(t)
      PROVE  <<a, b>> \in Above(t) <=> <<a, b>> \in Above(l)
  <2>1. <<a, b>> \in Above(t) <=> \E p, q \in DOMAIN t : p < q /\ t[p] = a /\ t[q] = b
    BY AbovePairs
  <2>2. <<a, b>> \in Above(l) <=> \E p, q \in DOMAIN l : p < q /\ l[p] = a /\ l[q] = b
    BY AbovePairs
  <2>3. ASSUME <<a, b>> \in Above(t) PROVE <<a, b>> \in Above(l)
    <3>1. PICK p, q \in 1..N : p < q /\ t[p] = a /\ t[q] = b
      BY <1>1, <2>1, <2>3
    <3> QED BY <1>1, <2>2, <3>1
  <2>4. ASSUME <<a, b>> \in Above(l) PROVE <<a, b>> \in Above(t)
    <3>1. PICK p, q \in DOMAIN l : p < q /\ l[p] = a /\ l[q] = b
      BY <2>2, <2>4
    <3>2. PICK i, j \in 1..N : t[i] = a /\ t[j] = b
      BY <1>1 DEF ToSet
    <3>3. Nth(ks, i) = p /\ Nth(ks, j) = q
      BY <1>1, <3>1, <3>2 DEF IsInjective
    <3>4. i # j /\ ~(j < i)
      <4>1. ~(q < p) /\ p # q
        BY <1>0, <3>1
      <4> QED BY <1>1, <3>3, <4>1
    <3>5. i < j
      BY <1>1a, <3>4
    <3> QED BY <1>1, <2>1, <3>2, <3>5
  <2> QED BY <2>3, <2>4
<1>3. Above(t) \subseteq ToSet(t) \X ToSet(t)
  BY AbovePairs
<1>4. Above(t) = Above(l) \cap (ToSet(t) \X ToSet(t))
  BY <1>2, <1>3
<1> QED BY <1>4 DEF t

(* The steps of LinkOrder, for the one account. *)
LEMMA OrderSteps ==
  /\ \A x \in 1..MaxId :
       /\ x \notin ToSet(list) /\ ToSet(list)' = ToSet(list) \cup {x}
       /\ LO!TotalOrder(Above(list)', ToSet(list)')
       /\ Above(list)' \cap (ToSet(list) \X ToSet(list)) = Above(list)
       => LO!Next
  /\ \A x \in 1..MaxId :
       /\ x \in ToSet(list) /\ ToSet(list)' = ToSet(list) \ {x}
       /\ Above(list)' = Above(list) \cap (ToSet(list)' \X ToSet(list)')
       => LO!Next
  /\ ToSet(list)' = ToSet(list) /\ LO!TotalOrder(Above(list)', ToSet(list)) => LO!Next
BY DEF LO!Next, LO!Insert, LO!Remove, LO!Reorder, LO!OthersKeep

LEMMA CreateOrder ==
  ASSUME Typed, Typed', NEW c \in Calls, Create(c)
  PROVE  LO!Next
<1> DEFINE x == lastId + 1
<1>1. /\ list \in Seq(Int) /\ list' = Append(list, x) /\ ToSet(list) \subseteq 1..lastId
      /\ list' \in Seq(Int) /\ IsInjective(list')
      /\ x \in 1..MaxId /\ x \in Int /\ x \notin 1..lastId
  <2>1. lastId \in 0..MaxId /\ lastId < MaxId /\ MaxId \in Nat
    BY LinkEditorAssumption DEF Typed, TypeOK, Create
  <2> QED BY <2>1 DEF Typed, TypeOK, Create
<1> HIDE DEF x
<1>2. /\ ToSet(list') = ToSet(list) \cup {x}
      /\ Above(list') \cap (ToSet(list) \X ToSet(list)) = Above(list)
  BY <1>1, AppendedAbove
<1>3. LO!TotalOrder(Above(list'), ToSet(list'))
  BY <1>1, AboveOrder
<1> QED BY <1>1, <1>2, <1>3, OrderSteps

(* A list of the same links is a rearrangement. *)
LEMMA SameLinks ==
  ASSUME Typed', ToSet(list') = ToSet(list)
  PROVE  LO!Next
<1>1. list' \in Seq(Int) /\ IsInjective(list')
  BY DEF Typed, TypeOK
<1>2. LO!TotalOrder(Above(list'), ToSet(list'))
  BY <1>1, AboveOrder
<1> QED BY <1>2, OrderSteps

LEMMA DeleteOrder ==
  ASSUME Typed, Typed', NEW c \in Calls, Delete(c)
  PROVE  LO!Next
<1> DEFINE x == call[c].id
           ks == {k \in DOMAIN list : list[k] # x}
<1>1. /\ list \in Seq(Int) /\ IsInjective(list) /\ list' = Kept(list, ks)
      /\ ToSet(list) \subseteq 1..MaxId /\ ks \in SUBSET (DOMAIN list)
  <2>1. lastId \in 0..MaxId /\ MaxId \in Nat
    BY LinkEditorAssumption DEF Typed, TypeOK
  <2> QED BY <2>1 DEF Typed, TypeOK, Delete
<1>2. ToSet(list') = ToSet(list) \ {x}
  <2> HIDE DEF x
  <2> QED BY <1>1, ServerKeeps
<1>3. Above(list') = Above(list) \cap (ToSet(list') \X ToSet(list'))
  <2> HIDE DEF ks
  <2> QED BY <1>1, KeptAbove
<1>4. CASE x \in ToSet(list)
  <2> HIDE DEF x
  <2> QED BY <1>1, <1>2, <1>3, <1>4, OrderSteps
<1>5. CASE x \notin ToSet(list)
  BY <1>2, <1>5, SameLinks
<1> QED BY <1>4, <1>5

(* links.go CreateLink, DeleteLink, ReorderLinks as this page calls them:    *)
(* whatever is sent, and however late it is handled, the server's list takes *)
(* only the steps that Links is proved to take.                              *)
THEOREM ServerFollowsOrder == Spec => ServerKeepsOrder
<1>1. ASSUME Typed, Typed', [Next]_vars PROVE [list' # list => LO!Next]_vars
  <2>1. ASSUME list' # list PROVE LO!Next
    <3>1. PICK c \in Calls : Create(c) \/ Delete(c) \/ Reorder(c)
      BY <1>1, <2>1 DEF Next, vars, Open, Save, Toggle, RemoveLink, Move, ApplyOrder,
                        DragStart, DragEnd, Drop, DropNothing, Receive, Handle, List, Update,
                        ReadBack, Break
    <3>2. CASE Reorder(c)
      <4>1. ToSet(list') = ToSet(list)
        BY <2>1, <3>2 DEF Reorder, Acceptable
      <4> QED BY <1>1, <4>1, SameLinks
    <3> QED BY <1>1, <3>1, <3>2, CreateOrder, DeleteOrder
  <2> QED BY <2>1
<1>2. Spec => []Typed
  BY InitTyped, NextTyped, PTL DEF Spec
<1> QED BY <1>1, <1>2, PTL DEF Spec, ServerKeepsOrder
=============================================================================
