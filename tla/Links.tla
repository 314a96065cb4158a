------------------------------- MODULE Links --------------------------------
(***************************************************************************)
(* The links table: positions, and the operations that maintain them.      *)
(* Creating a link is two statements (SELECT MAX(position) + 1, INSERT);   *)
(* deleting and reordering are transactions; so only a creation can be     *)
(* overtaken by other operations on the same list.                         *)
(***************************************************************************)
EXTENDS Integers, FiniteSets

CONSTANTS
  Users,    \* accounts
  Procs,    \* concurrent requests
  NoUser,   \* user_id of a row that does not exist
  MaxId     \* bound: link ids handed out (AUTOINCREMENT)

ASSUME LinksAssumption == NoUser \notin Users /\ MaxId \in Nat

VARIABLES
  alive,     \* accounts that exist
  owner,     \* owner[i]: user_id of link i, NoUser if there is no row
  pos,       \* pos[i]: its position, 0 if there is no row
  enabled,   \* the links shown on the public page
  lastId,    \* sqlite_sequence of links
  job,       \* what each request is doing
  crowded    \* history: accounts where an overtaken creation was inserted
             \* since the positions were last rewritten

vars == <<alive, owner, pos, enabled, lastId, job, crowded>>

Ids == 1..MaxId
Own(u) == {i \in Ids : owner[i] = u}

(* ORDER BY position ASC, id ASC *)
Before(a, b) == pos[a] < pos[b] \/ (pos[a] = pos[b] /\ a < b)

(* A creation between its two statements; `overtaken` (history) says that    *)
(* the list has changed since it was measured.                               *)
Job == [at : {"idle", "measured"}, user : Users \cup {NoUser}, next : Nat,
        overtaken : BOOLEAN]
Idle == [at |-> "idle", user |-> NoUser, next |-> 0, overtaken |-> FALSE]

Init ==
  /\ alive = Users
  /\ owner = [i \in Ids |-> NoUser]
  /\ pos = [i \in Ids |-> 0]
  /\ enabled = {}
  /\ lastId = 0
  /\ job = [p \in Procs |-> Idle]
  /\ crowded = {}

(* The list of u changed: creations of u that have measured it are overtaken. *)
Overtake(u, done) ==
  job' = [q \in Procs |->
            IF q \in done THEN Idle
            ELSE IF job[q].at = "measured" /\ job[q].user = u
                 THEN [job[q] EXCEPT !.overtaken = TRUE] ELSE job[q]]

-----------------------------------------------------------------------------
(* Creation *)

(* Mutant: COUNT instead of MAX + 1. *)
MeasureCount(p, u) ==
  /\ job[p] = Idle
  /\ u \in alive
  /\ job' = [job EXCEPT ![p] = [at |-> "measured", user |-> u,
                                next |-> Cardinality(Own(u)), overtaken |-> FALSE]]
  /\ UNCHANGED <<alive, owner, pos, enabled, lastId, crowded>>

(* SELECT COALESCE(MAX(position), -1) + 1, for an authenticated account. *)
Measure(p, u) ==
  /\ job[p] = Idle
  /\ u \in alive
  /\ \E n \in {0} \cup {pos[i] + 1 : i \in Own(u)} :
       /\ \A i \in Own(u) : pos[i] < n
       /\ \A m \in {0} \cup {pos[i] + 1 : i \in Own(u)} :
            (\A i \in Own(u) : pos[i] < m) => n <= m
       /\ job' = [job EXCEPT ![p] = [at |-> "measured", user |-> u, next |-> n,
                                     overtaken |-> FALSE]]
  /\ UNCHANGED <<alive, owner, pos, enabled, lastId, crowded>>

(* INSERT; the foreign key refuses an account deleted meanwhile. *)
CreateLink(p, on) ==
  LET j == job[p] IN
  /\ j.at = "measured"
  /\ IF j.user \in alive
     THEN /\ lastId < MaxId
          /\ lastId' = lastId + 1
          /\ owner' = [owner EXCEPT ![lastId + 1] = j.user]
          /\ pos' = [pos EXCEPT ![lastId + 1] = j.next]
          /\ enabled' = IF on THEN enabled \cup {lastId + 1} ELSE enabled
          /\ crowded' = IF j.overtaken THEN crowded \cup {j.user} ELSE crowded
          /\ Overtake(j.user, {p})
     ELSE /\ job' = [job EXCEPT ![p] = Idle]
          /\ UNCHANGED <<owner, pos, enabled, lastId, crowded>>
  /\ UNCHANGED alive

Cancel(p) ==
  /\ job[p] # Idle
  /\ job' = [job EXCEPT ![p] = Idle]
  /\ UNCHANGED <<alive, owner, pos, enabled, lastId, crowded>>

-----------------------------------------------------------------------------
(* The other operations, one statement or transaction each *)

(* UPDATE ... WHERE id AND user_id; of the fields only `enabled` is kept. *)
UpdateLink(u, i, on) ==
  /\ i \in Own(u)
  /\ enabled' = IF on THEN enabled \cup {i} ELSE enabled \ {i}
  /\ UNCHANGED <<alive, owner, pos, lastId, job, crowded>>

(* Mutant: the last link takes the place of the deleted one. *)
SwapIn(u, i) ==
  [k \in Ids |->
     IF k = i THEN 0
     ELSE IF owner[k] # u THEN pos[k]
     ELSE IF \A m \in Own(u) : m = k \/ Before(m, k) THEN pos[i] ELSE pos[k]]

(* resequence: the remaining links of u numbered 0..n-1 in their order. *)
Resequenced(u, i) ==
  [k \in Ids |-> IF owner[k] = u /\ k # i
                 THEN Cardinality({m \in Own(u) \ {i} : Before(m, k)})
                 ELSE IF k = i THEN 0 ELSE pos[k]]

DeleteLink(u, i) ==
  /\ i \in Own(u)
  /\ owner' = [owner EXCEPT ![i] = NoUser]
  /\ pos' = Resequenced(u, i)
  /\ enabled' = enabled \ {i}
  /\ crowded' = crowded \ {u}
  /\ Overtake(u, {})
  /\ UNCHANGED <<alive, lastId>>

(* Mutant: a list that names some of the links is accepted. *)
AcceptableSome(u, ids) == \A k \in DOMAIN ids : ids[k] \in Own(u)

(* The ids must be exactly the existing ones, each once.  A list that is out *)
(* of date is refused and changes nothing.                                   *)
Acceptable(u, ids) ==
  /\ DOMAIN ids = 1..Cardinality(Own(u))
  /\ \A k \in DOMAIN ids : ids[k] \in Own(u)
  /\ \A k, m \in DOMAIN ids : ids[k] = ids[m] => k = m

ReorderLinks(u, ids) ==
  /\ Acceptable(u, ids)
  /\ pos' = [i \in Ids |-> IF \E k \in DOMAIN ids : ids[k] = i
                           THEN (CHOOSE k \in DOMAIN ids : ids[k] = i) - 1 ELSE pos[i]]
  /\ crowded' = crowded \ {u}
  /\ Overtake(u, {})
  /\ UNCHANGED <<alive, owner, enabled, lastId>>

(* Mutant: the rows stay behind. *)
DeleteUserOnly(u) ==
  /\ u \in alive
  /\ alive' = alive \ {u}
  /\ crowded' = crowded \ {u}
  /\ UNCHANGED <<owner, pos, enabled, lastId, job>>

(* ON DELETE CASCADE. *)
DeleteUser(u) ==
  /\ u \in alive
  /\ alive' = alive \ {u}
  /\ owner' = [i \in Ids |-> IF owner[i] = u THEN NoUser ELSE owner[i]]
  /\ pos' = [i \in Ids |-> IF owner[i] = u THEN 0 ELSE pos[i]]
  /\ enabled' = enabled \ Own(u)
  /\ crowded' = crowded \ {u}
  /\ UNCHANGED <<lastId, job>>

Next ==
  \/ \E p \in Procs, u \in Users : Measure(p, u)
  \/ \E p \in Procs, on \in BOOLEAN : CreateLink(p, on)
  \/ \E p \in Procs : Cancel(p)
  \/ \E u \in Users, i \in Ids, on \in BOOLEAN : UpdateLink(u, i, on)
  \/ \E u \in Users, i \in Ids : DeleteLink(u, i)
  \/ \E u \in Users, n \in 1..MaxId : \E ids \in [1..n -> Ids] : ReorderLinks(u, ids)
  \/ \E u \in Users : DeleteUser(u)

Spec == Init /\ [][Next]_vars

-----------------------------------------------------------------------------
(* Properties *)

(* Types; rows belong to accounts that exist, unused ids have no row, and    *)
(* only existing links are shown.                                            *)
TypeOK ==
  /\ alive \subseteq Users
  /\ owner \in [Ids -> alive \cup {NoUser}]
  /\ pos \in [Ids -> Nat]
  /\ lastId \in 0..MaxId
  /\ \A i \in Ids : i > lastId => owner[i] = NoUser
  /\ enabled \subseteq {i \in Ids : owner[i] # NoUser}
  /\ job \in [Procs -> Job]
  /\ crowded \subseteq alive

(* "CreateLink appends a link to the end of the list": the position that a   *)
(* creation has measured is behind every link of the account, as long as     *)
(* nothing has changed the list in between.                                  *)
MeasuredIsEnd ==
  \A p \in Procs :
    job[p].at = "measured" /\ ~job[p].overtaken =>
      \A i \in Own(job[p].user) : pos[i] < job[p].next

(* Two links of an account share a position only if an overtaken creation    *)
(* was inserted since the last deletion or reorder.                          *)
PositionsDistinct ==
  \A u \in alive \ crowded : \A i, k \in Own(u) : pos[i] = pos[k] => i = k

(* links.go: a created link is appended to the end of the list.              *)
AppendedLast ==
  [][\A i \in Ids : owner[i] = NoUser /\ owner'[i] # NoUser =>
       \A k \in Own(owner'[i]) : Before(k, i)']_vars

LO == INSTANCE LinkOrder
        WITH members <- [u \in Users |-> Own(u)],
             before <- [u \in Users |-> {r \in Own(u) \X Own(u) : Before(r[1], r[2])}]

(* The rows implement an ordered list: whatever positions concurrent         *)
(* creations leave behind, gaps and ties included, the links keep their      *)
(* order until someone reorders them.                                        *)
KeepsOrder == LO!Spec
=============================================================================
