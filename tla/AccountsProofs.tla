--------------------------- MODULE AccountsProofs ---------------------------
(***************************************************************************)
(* The safety of Accounts for any number of processes, names and ids.      *)
(* The invariant is inductive once it also says what every unfinished job  *)
(* remembers and may still rely on (JobOK), and whose page a starting      *)
(* server claims (ClaimOK).                                                *)
(***************************************************************************)
EXTENDS Accounts, TLAPS

(* What process p has established: while nothing it looked at has changed,  *)
(* the role it was admitted with is the actor's role, the account its name  *)
(* refers to is one the actor outranks, and the row it is about to write is *)
(* that account, no owner if it is to be deleted or given a role.           *)
JobOK(p) ==
  LET j == job[p] IN
  /\ j.at # "idle" => j.target \in Names
  /\ j.at # "idle" /\ j.cmd = "role" => j.arg \in {"admin", "member"}
  /\ j.cmd = "set-owner" => p \in Clis
  /\ j.at = "writing" /\ j.cmd = "create" => j.arg \in {"admin", "member"}
  /\ j.at = "writing" /\ j.cmd # "create" => j.uid \in Ids
  /\ j.at # "idle" /\ j.actor # 0 /\ ~j.stale =>
       role[j.actor] = j.arole /\ Gate(j.arole, j.cmd, j.arg)
  /\ j.at \in {"reading", "writing"} /\ j.actor # 0 /\ j.cmd # "create" /\ ~j.stale =>
       \A t \in Ids : role[t] # "none" /\ name[t] = j.target => Outranks(j.actor, t)
  /\ j.at = "writing" /\ j.cmd # "create" /\ ~j.stale =>
       /\ role[j.uid] # "none" /\ name[j.uid] = j.target
       /\ j.cmd \in {"delete", "role"} => role[j.uid] # "owner"

(* The account a server has inserted exists or existed, and as long as no    *)
(* start has crossed another account, an owner who does not hold the page is *)
(* the one it is being claimed for.                                          *)
ClaimOK ==
  \A s \in Servers :
    start[s].at = "page" =>
      /\ start[s].uid \in 1..seq
      /\ "crossed" \notin mishaps /\ start[s].uid \in Live =>
           \A i \in Owners : i = start[s].uid \/ page = i

IInv ==
  /\ TypeOK
  /\ Integrity
  /\ OwnerHoldsPage
  /\ OwnerUnlessRaced
  /\ ClaimOK
  /\ \A p \in Procs : JobOK(p)

USE ProcAssumption, NameAssumption, IdAssumption

LEMMA IdleJob == Idle \in Job
  BY DEF Idle, Job, Args

LEMMA InitIInv == Init => IInv
<1> SUFFICES ASSUME Init PROVE IInv
  OBVIOUS
<1>1. Live = {} /\ Owners = {}
  BY DEF Init, Ids, Live, Owners
<1>2. TypeOK
  <2>1. job \in [Procs -> Job]
    BY IdleJob DEF Init
  <2>2. role \in [Ids -> Roles \cup {"none"}] /\ name \in [Ids -> Names \cup {NoName}]
    BY DEF Init, Roles
  <2>3. seq \in 0..MaxId /\ page \in 0..MaxId /\ verified \subseteq Ids
    BY DEF Init
  <2>4. raced \in BOOLEAN /\ mishaps \subseteq {"crossed", "torn", "headless"}
    BY DEF Init
  <2>5. start \in [Servers -> Process]
    BY DEF Init, Process, Stages
  <2> QED
    BY <2>1, <2>2, <2>3, <2>4, <2>5 DEF TypeOK
<1>3. Integrity /\ OwnerHoldsPage /\ OwnerUnlessRaced
  BY <1>1 DEF Init, Integrity, OwnerHoldsPage, OwnerUnlessRaced, Ids
<1>4. \A p \in Procs : JobOK(p)
  BY DEF Init, JobOK, Idle
<1>5. ClaimOK
  BY DEF Init, ClaimOK
<1> QED
  BY <1>2, <1>3, <1>4, <1>5 DEF IInv

(* A step that leaves the rows alone and moves only job p.                   *)
LEMMA OwnStep ==
  ASSUME IInv, NEW p \in Procs, NEW v \in Job, job' = [job EXCEPT ![p] = v],
         UNCHANGED <<seq, role, name, page, start, raced, mishaps>>,
         verified' \subseteq Live, JobOK(p)'
  PROVE  IInv'
<1>1. TypeOK'
  BY DEF IInv, TypeOK, Live
<1>2. Integrity' /\ OwnerHoldsPage' /\ OwnerUnlessRaced' /\ ClaimOK'
  BY DEF IInv, Integrity, OwnerHoldsPage, OwnerUnlessRaced, ClaimOK, Live, Owners
<1>3. ASSUME NEW q \in Procs PROVE JobOK(q)'
  <2>1. CASE q = p
    BY <2>1
  <2>2. CASE q # p
    <3>1. job'[q] = job[q]
      BY <2>2 DEF IInv, TypeOK
    <3>2. JobOK(q)
      BY DEF IInv
    <3> QED
      BY <3>1, <3>2 DEF JobOK, Outranks
  <2> QED
    BY <2>1, <2>2
<1> QED
  BY <1>1, <1>2, <1>3 DEF IInv

LEMMA IdleOK ==
  ASSUME NEW p \in Procs, job'[p] = Idle PROVE JobOK(p)'
  BY DEF JobOK, Idle

(* A write by one process leaves every other job with what it may rely on:  *)
(* either the job is marked stale, or nothing it refers to has changed.     *)
LEMMA SettleOK ==
  ASSUME IInv, NEW done \in SUBSET Procs, Settle(done),
         role' \in [Ids -> Roles \cup {"none"}], name' \in [Ids -> Names \cup {NoName}]
  PROVE  job' \in [Procs -> Job] /\ \A q \in Procs : JobOK(q)'
<1>1. ASSUME NEW q \in Procs PROVE job'[q] \in Job /\ JobOK(q)'
  <2>1. CASE q \in done \/ job[q].at = "idle"
    BY <2>1, IdleJob, IdleOK DEF Settle
  <2>2. CASE ~(q \in done \/ job[q].at = "idle")
    <3> DEFINE j == job[q]
    <3>1. j \in Job /\ JobOK(q)
      BY DEF IInv, TypeOK
    <3>2. CASE Touched(j)
      <4>1. job'[q] = [j EXCEPT !.stale = TRUE]
        BY <2>2, <3>2 DEF Settle
      <4> QED
        BY <3>1, <4>1 DEF Job, JobOK
    <3>3. CASE ~Touched(j)
      <4>1. job'[q] = j
        BY <2>2, <3>3 DEF Settle
      <4>2. \A i \in Ids : j.actor = i \/ j.target \in {name[i], name'[i]} =>
                              role'[i] = role[i] /\ name'[i] = name[i]
        BY <3>3 DEF Touched, Changed
      <4>3. j.actor # 0 => role'[j.actor] = role[j.actor]
        BY <3>1, <4>2 DEF Job, Ids
      <4> QED
        BY <3>1, <4>1, <4>2, <4>3 DEF JobOK, Outranks
    <3> QED
      BY <3>2, <3>3
  <2> QED
    BY <2>1, <2>2
<1>2. job' = [q \in Procs |-> job'[q]]
  BY DEF Settle
<1> QED
  BY <1>1, <1>2
-----------------------------------------------------------------------------
(* Steps that change no row *)

LEMMA AdmitStep ==
  ASSUME IInv, NEW w \in Workers, NEW a \in Live, NEW cmd \in Commands,
         NEW n \in Names, NEW arg \in ArgsOf(cmd), Admit(w, a, cmd, n, arg)
  PROVE  IInv'
<1> DEFINE v == Begin(IF cmd = "create" THEN "reading" ELSE "admitted",
                      cmd, a, role[a], n, arg)
<1>1. w \in Procs /\ a \in Ids /\ a # 0 /\ role[a] \in Roles /\ arg \in Args
  BY DEF Procs, Live, Ids, IInv, TypeOK, ArgsOf, Args, Roles
<1>2. v = [at |-> IF cmd = "create" THEN "reading" ELSE "admitted", cmd |-> cmd,
           actor |-> a, arole |-> role[a], target |-> n, arg |-> arg, uid |-> 0,
           stale |-> FALSE]
  BY DEF Begin
<1>3. v \in Job
  <2>1. (IF cmd = "create" THEN "reading" ELSE "admitted") \in {"admitted", "reading"}
    OBVIOUS
  <2> HIDE DEF v
  <2> QED
    BY <1>1, <1>2, <2>1 DEF Job, Ids
<1>4. job' = [job EXCEPT ![w] = v] /\ Gate(role[a], cmd, arg)
  BY DEF Admit
<1>5. job'[w] = v
  BY <1>1, <1>4 DEF IInv, TypeOK
<1>6. JobOK(w)'
  <2>1. UNCHANGED <<role, name>>
    BY DEF Admit, rows
  <2>2. cmd # "set-owner" /\ (cmd = "role" => arg \in {"admin", "member"})
    BY <1>4 DEF Gate
  <2> HIDE DEF v
  <2> QED
    BY <1>1, <1>2, <1>4, <1>5, <2>1, <2>2 DEF JobOK
<1> QED
  BY <1>1, <1>3, <1>4, <1>6, OwnStep DEF Admit, IInv, Integrity, Live, rows

LEMMA BeginStep ==
  ASSUME IInv, NEW p \in Procs, NEW cmd \in Commands, NEW n \in Names,
         NEW arg \in Args, cmd = "set-owner" => p \in Clis,
         cmd = "role" => arg \in {"admin", "member"},
         job' = [job EXCEPT ![p] = Begin("reading", cmd, 0, "none", n, arg)],
         UNCHANGED <<rows, start, raced, mishaps>>
  PROVE  IInv'
<1>1. Begin("reading", cmd, 0, "none", n, arg) \in Job
  BY DEF Begin, Job
<1>2. job'[p] = Begin("reading", cmd, 0, "none", n, arg)
  BY DEF IInv, TypeOK
<1>3. JobOK(p)'
  BY <1>2 DEF JobOK, Begin
<1>4. verified' \subseteq Live
  BY DEF IInv, Integrity, rows
<1> QED
  BY <1>1, <1>3, <1>4, OwnStep DEF rows

LEMMA DropStep ==
  ASSUME IInv, NEW p \in Procs, job' = [job EXCEPT ![p] = Idle],
         verified' \subseteq Live, UNCHANGED <<seq, role, name, page, start, raced, mishaps>>
  PROVE  IInv'
<1>1. job'[p] = Idle
  BY DEF IInv, TypeOK
<1> QED
  BY <1>1, IdleJob, IdleOK, OwnStep

LEMMA ResolveStep ==
  ASSUME IInv, NEW w \in Workers, Resolve(w)
  PROVE  IInv'
<1> DEFINE j == job[w]
<1>1. w \in Procs /\ j \in Job /\ JobOK(w) /\ j.at = "admitted"
  BY DEF Procs, IInv, TypeOK, Resolve
<1>2. /\ UNCHANGED <<seq, role, name, page, verified, start, raced, mishaps>>
      /\ verified' \subseteq Live
  BY DEF Resolve, IInv, Integrity, rows
<1>3. CASE \E t \in Named(j.target) :
             /\ MayManage(j.actor, j.arole, t, role[t])
             /\ j.cmd \in {"delete", "role"} => role[t] # "owner"
  <2>1. job' = [job EXCEPT ![w] = [j EXCEPT !.at = "reading"]]
    BY <1>3 DEF Resolve
  <2>2. [j EXCEPT !.at = "reading"] \in Job
    BY <1>1 DEF Job
  <2>3. job'[w] = [j EXCEPT !.at = "reading"]
    BY <1>1, <2>1 DEF IInv, TypeOK
  <2>4. ASSUME ~j.stale, j.actor # 0, NEW t \in Ids, role[t] # "none", name[t] = j.target
        PROVE  Outranks(j.actor, t)
    <3>1. t \in Named(j.target) /\ Named(j.target) \subseteq Live
      BY <2>4 DEF Named, Live
    <3>2. \A k \in Named(j.target) : k = t
      BY <3>1 DEF Named, IInv, Integrity
    <3>3. MayManage(j.actor, j.arole, t, role[t])
      BY <1>3, <3>2
    <3>4. role[j.actor] = j.arole
      BY <1>1, <2>4 DEF JobOK
    <3> QED
      BY <3>3, <3>4 DEF MayManage, Outranks
  <2>5. JobOK(w)'
    BY <1>1, <1>2, <2>3, <2>4 DEF JobOK, Job, Outranks
  <2> QED
    BY <1>1, <1>2, <2>1, <2>2, <2>5, OwnStep
<1>4. CASE ~ \E t \in Named(j.target) :
             /\ MayManage(j.actor, j.arole, t, role[t])
             /\ j.cmd \in {"delete", "role"} => role[t] # "owner"
  <2>1. job' = [job EXCEPT ![w] = Idle]
    BY <1>4 DEF Resolve
  <2> QED
    BY <1>1, <1>2, <2>1, DropStep
<1> QED
  BY <1>3, <1>4

LEMMA ReadStep ==
  ASSUME IInv, NEW p \in Procs, Read(p)
  PROVE  IInv'
<1> DEFINE j == job[p]
<1>1. j \in Job /\ JobOK(p) /\ j.at = "reading"
  BY DEF IInv, TypeOK, Read
<1>2. /\ UNCHANGED <<seq, role, name, page, verified, start, raced, mishaps>>
      /\ verified' \subseteq Live
  BY DEF Read, IInv, Integrity, rows
<1>3. CASE job' = [job EXCEPT ![p] = Idle]
  BY <1>2, <1>3, DropStep
<1>4. CASE /\ j.cmd = "create" /\ j.arg \in {"admin", "member"}
           /\ job' = [job EXCEPT ![p] = [j EXCEPT !.at = "writing"]]
  <2>1. [j EXCEPT !.at = "writing"] \in Job
    BY <1>1 DEF Job
  <2>2. job'[p] = [j EXCEPT !.at = "writing"]
    BY <1>4 DEF IInv, TypeOK
  <2>3. JobOK(p)'
    BY <1>1, <1>2, <1>4, <2>2 DEF JobOK, Job
  <2> QED
    BY <1>2, <1>4, <2>1, <2>3, OwnStep
<1>5. ASSUME NEW t \in Named(j.target), j.cmd # "create",
             j.cmd \in {"delete", "role"} => role[t] # "owner",
             job' = [job EXCEPT ![p] = [j EXCEPT !.at = "writing", !.uid = t]]
      PROVE  IInv'
  <2>1. t \in Ids /\ role[t] # "none" /\ name[t] = j.target
    BY DEF Named, Live
  <2>2. [j EXCEPT !.at = "writing", !.uid = t] \in Job
    <3>1. t \in 0..MaxId
      BY <2>1 DEF Ids
    <3> HIDE DEF j
    <3> QED
      BY <1>1, <3>1 DEF Job
  <2>3. job'[p] = [j EXCEPT !.at = "writing", !.uid = t]
    BY <1>5 DEF IInv, TypeOK
  <2>4. JobOK(p)'
    BY <1>1, <1>2, <1>5, <2>1, <2>3 DEF JobOK, Job, Outranks
  <2> QED
    BY <1>2, <1>5, <2>2, <2>4, OwnStep
<1> QED
  BY <1>3, <1>4, <1>5 DEF Read
-----------------------------------------------------------------------------
(* Steps that write *)

(* A step that touches no row. *)
LEMMA SameRows ==
  ASSUME IInv, UNCHANGED <<seq, role, name, page, verified, start, raced, mishaps>>,
         job' \in [Procs -> Job], \A q \in Procs : JobOK(q)'
  PROVE  IInv'
  BY DEF IInv, TypeOK, Integrity, OwnerHoldsPage, OwnerUnlessRaced, ClaimOK, Live, Owners

LEMMA CreateStep ==
  ASSUME IInv, NEW p \in Procs, CreateTx(p)
  PROVE  IInv'
<1> DEFINE j == job[p]
<1>1. j \in Job /\ j.arg \in {"admin", "member"} /\ JobOK(p)
  BY DEF IInv, TypeOK, CreateTx, Writing, JobOK
<1>2. CASE Named(j.target) # {}
  <2>1. UNCHANGED <<seq, role, name, page, verified, start, raced, mishaps>>
    BY <1>2 DEF CreateTx
  <2>2. job' \in [Procs -> Job] /\ \A q \in Procs : JobOK(q)'
    BY <2>1, SettleOK DEF CreateTx, IInv, TypeOK
  <2> QED
    BY <2>1, <2>2, SameRows
<1>3. CASE Named(j.target) = {}
  <2> DEFINE k == seq + 1
  <2>1. /\ seq < MaxId /\ seq' = k
        /\ role' = [role EXCEPT ![k] = j.arg] /\ name' = [name EXCEPT ![k] = j.target]
        /\ mishaps' = IF Live = {} THEN mishaps \cup {"headless"} ELSE mishaps
        /\ UNCHANGED <<page, verified, start, raced>> /\ Settle({p})
    BY <1>3 DEF CreateTx
  <2>2. k \in Ids /\ k \notin Live /\ seq \in Nat /\ k \in 1..MaxId
    BY <2>1 DEF Ids, IInv, TypeOK, Integrity, Live
  <2>3. j.target \in Names
    BY <1>1 DEF CreateTx, JobOK, Writing
  <2>4. role' \in [Ids -> Roles \cup {"none"}] /\ name' \in [Ids -> Names \cup {NoName}]
    BY <1>1, <2>1, <2>2, <2>3 DEF IInv, TypeOK, Roles
  <2>5. job' \in [Procs -> Job] /\ \A q \in Procs : JobOK(q)'
    BY <2>1, <2>4, SettleOK
  <2>6. Live' = Live \cup {k} /\ Owners' = Owners
    BY <1>1, <2>1, <2>2 DEF Live, Owners, IInv, TypeOK
  <2>7. TypeOK'
    BY <2>1, <2>2, <2>4, <2>5 DEF IInv, TypeOK
  <2>8. Integrity'
    <3>1. \A i \in Live : name[i] # j.target
      BY <1>3 DEF Named
    <3> QED
      BY <2>1, <2>2, <2>3, <2>6, <3>1 DEF IInv, TypeOK, Integrity, Live
  <2>9. OwnerHoldsPage'
    BY <2>1, <2>6 DEF IInv, OwnerHoldsPage
  <2>10. OwnerUnlessRaced'
    BY <2>1, <2>6 DEF IInv, OwnerUnlessRaced
  <2>11. ClaimOK'
    <3> SUFFICES ASSUME NEW s \in Servers, start[s].at = "page"
                 PROVE  /\ start[s].uid \in 1..seq'
                        /\ "crossed" \notin mishaps /\ start[s].uid \in Live' =>
                             \A i \in Owners : i = start[s].uid \/ page = i
      BY <2>1, <2>6 DEF ClaimOK
    <3>1. start[s].uid \in 1..seq
      BY DEF IInv, ClaimOK
    <3>2. start[s].uid # k
      BY <2>2, <3>1
    <3> QED
      BY <2>1, <2>2, <2>6, <3>1, <3>2 DEF IInv, ClaimOK
  <2> QED
    BY <2>5, <2>7, <2>8, <2>9, <2>10, <2>11 DEF IInv
<1> QED
  BY <1>2, <1>3

LEMMA DeleteStep ==
  ASSUME IInv, NEW p \in Procs, DeleteTx(p)
  PROVE  IInv'
<1> DEFINE u == job[p].uid
<1>1. /\ u \in Ids /\ job[p] \in Job
      /\ ~job[p].stale => role[u] # "owner"
  BY DEF IInv, TypeOK, DeleteTx, Writing, JobOK
<1>2. /\ role' = [role EXCEPT ![u] = "none"] /\ name' = [name EXCEPT ![u] = NoName]
      /\ page' = IF page = u THEN 0 ELSE page
      /\ verified' = verified \ {u}
      /\ raced' = (raced \/ job[p].stale) /\ Settle({p})
      /\ UNCHANGED <<seq, start, mishaps>>
  BY DEF DeleteTx
<1>3. role' \in [Ids -> Roles \cup {"none"}] /\ name' \in [Ids -> Names \cup {NoName}]
  BY <1>1, <1>2 DEF IInv, TypeOK
<1>4. job' \in [Procs -> Job] /\ \A q \in Procs : JobOK(q)'
  BY <1>2, <1>3, SettleOK
<1>5. Live' = Live \ {u} /\ Owners' = Owners \ {u}
  BY <1>1, <1>2 DEF Live, Owners, IInv, TypeOK
<1>6. TypeOK'
  <2>1. raced' \in BOOLEAN
    BY <1>2
  <2> QED
    BY <1>1, <1>2, <1>3, <1>4, <2>1 DEF IInv, TypeOK
<1>7. Integrity'
  BY <1>1, <1>2, <1>5 DEF IInv, TypeOK, Integrity, Live
<1>8. OwnerHoldsPage'
  <2> SUFFICES ASSUME "crossed" \notin mishaps, NEW i \in Owners \ {u}
               PROVE  /\ \A k \in Owners \ {u} : i = k
                      /\ \/ page' = i
                         \/ page' = 0 /\ ("torn" \in mishaps \/ \E s \in Servers :
                                            start[s].at = "page" /\ start[s].uid = i)
    BY <1>2, <1>5 DEF OwnerHoldsPage
  <2>1. /\ \A k \in Owners : i = k
        /\ \/ page = i
           \/ page = 0 /\ ("torn" \in mishaps \/ \E s \in Servers :
                              start[s].at = "page" /\ start[s].uid = i)
    BY DEF IInv, OwnerHoldsPage
  <2> QED
    BY <1>1, <1>2, <2>1 DEF Ids
<1>9. OwnerUnlessRaced'
  <2>1. CASE raced \/ job[p].stale
    BY <1>2, <2>1 DEF OwnerUnlessRaced
  <2>2. CASE ~raced /\ ~job[p].stale
    BY <1>1, <1>2, <1>5, <2>2 DEF IInv, OwnerUnlessRaced, Owners
  <2> QED
    BY <2>1, <2>2
<1>10. ClaimOK'
  <2> SUFFICES ASSUME NEW s \in Servers, start[s].at = "page"
               PROVE  /\ start[s].uid \in 1..seq
                      /\ "crossed" \notin mishaps /\ start[s].uid \in Live \ {u} =>
                           \A i \in Owners \ {u} : i = start[s].uid \/ page' = i
    BY <1>2, <1>5 DEF ClaimOK
  <2> QED
    BY <1>2 DEF IInv, ClaimOK
<1> QED
  BY <1>4, <1>6, <1>7, <1>8, <1>9, <1>10 DEF IInv

LEMMA SetRoleStep ==
  ASSUME IInv, NEW p \in Procs, SetRoleTx(p)
  PROVE  IInv'
<1> DEFINE u == job[p].uid
<1>1. /\ u \in Ids /\ job[p].arg \in {"admin", "member"}
      /\ ~job[p].stale => role[u] # "owner"
  BY DEF IInv, TypeOK, SetRoleTx, Writing, JobOK
<1>2. /\ role' = IF u \in Live THEN [role EXCEPT ![u] = job[p].arg] ELSE role
      /\ raced' = (raced \/ job[p].stale)
      /\ UNCHANGED <<seq, page, verified, name, start, mishaps>> /\ Settle({p})
  BY DEF SetRoleTx
<1>3. role' \in [Ids -> Roles \cup {"none"}] /\ name' \in [Ids -> Names \cup {NoName}]
  BY <1>1, <1>2 DEF IInv, TypeOK, Roles
<1>4. job' \in [Procs -> Job] /\ \A q \in Procs : JobOK(q)'
  BY <1>2, <1>3, SettleOK
<1>5. Live' = Live /\ (Owners' = Owners \/ Owners' = Owners \ {u})
  BY <1>1, <1>2 DEF Live, Owners, IInv, TypeOK
<1>6. TypeOK'
  <2>1. raced' \in BOOLEAN
    BY <1>2
  <2> QED
    BY <1>2, <1>3, <1>4, <2>1 DEF IInv, TypeOK
<1>7. Integrity'
  BY <1>2, <1>5 DEF IInv, Integrity
<1>8. OwnerHoldsPage' /\ ClaimOK'
  <2>1. Owners' \subseteq Owners
    BY <1>5
  <2> QED
    BY <1>2, <1>5, <2>1 DEF IInv, OwnerHoldsPage, ClaimOK
<1>9. OwnerUnlessRaced'
  <2>1. CASE raced \/ job[p].stale
    BY <1>2, <2>1 DEF OwnerUnlessRaced
  <2>2. CASE ~raced /\ ~job[p].stale
    BY <1>1, <1>2, <1>5, <2>2 DEF IInv, OwnerUnlessRaced, Owners
  <2> QED
    BY <2>1, <2>2
<1> QED
  BY <1>4, <1>6, <1>7, <1>8, <1>9 DEF IInv

LEMMA SetVerifiedStep ==
  ASSUME IInv, NEW p \in Procs, SetVerifiedTx(p)
  PROVE  IInv'
<1>1. verified' \subseteq Live
  BY DEF SetVerifiedTx, IInv, Integrity
<1> QED
  BY <1>1, DropStep DEF SetVerifiedTx

LEMMA SetPasswordStep ==
  ASSUME IInv, NEW p \in Procs, SetPasswordTx(p)
  PROVE  IInv'
  BY DropStep DEF SetPasswordTx, IInv, Integrity, rows

LEMMA SetOwnerStep ==
  ASSUME IInv, NEW p \in Procs, SetOwnerTx(p)
  PROVE  IInv'
<1> DEFINE u == job[p].uid
<1>1. u \in Ids
  BY DEF IInv, SetOwnerTx, Writing, JobOK
<1>2. CASE u \in Live
  <2>1. /\ role' = [i \in Ids |-> IF i = u THEN "owner"
                                   ELSE IF role[i] = "owner" THEN "admin" ELSE role[i]]
        /\ page' = u /\ mishaps' = {}
        /\ UNCHANGED <<seq, verified, name, start, raced>> /\ Settle({p})
    BY <1>2 DEF SetOwnerTx
  <2>2. role' \in [Ids -> Roles \cup {"none"}] /\ name' \in [Ids -> Names \cup {NoName}]
    BY <2>1 DEF IInv, TypeOK, Roles
  <2>3. job' \in [Procs -> Job] /\ \A q \in Procs : JobOK(q)'
    BY <2>1, <2>2, SettleOK
  <2>4. Live' = Live /\ Owners' = {u}
    BY <1>2, <2>1 DEF Live, Owners, IInv, TypeOK
  <2>5. TypeOK'
    BY <1>1, <2>1, <2>2, <2>3 DEF IInv, TypeOK, Ids
  <2>6. Integrity' /\ OwnerHoldsPage' /\ OwnerUnlessRaced'
    BY <1>2, <2>1, <2>4 DEF IInv, Integrity, OwnerHoldsPage, OwnerUnlessRaced
  <2>7. ClaimOK'
    BY <2>1, <2>4 DEF IInv, ClaimOK
  <2> QED
    BY <2>3, <2>5, <2>6, <2>7 DEF IInv
<1>3. CASE u \notin Live
  <2>1. UNCHANGED <<seq, role, name, page, verified, start, raced, mishaps>> /\ Settle({p})
    BY <1>3 DEF SetOwnerTx
  <2>2. job' \in [Procs -> Job] /\ \A q \in Procs : JobOK(q)'
    BY <2>1, SettleOK DEF IInv, TypeOK
  <2> QED
    BY <2>1, <2>2, SameRows
<1> QED
  BY <1>2, <1>3
-----------------------------------------------------------------------------
(* The start and the end of a server *)

LEMMA ToType ==
  ASSUME TypeOK, NEW s \in Servers, NEW stage \in Stages, To(s, stage)
  PROVE  start' \in [Servers -> Process]
<1>1. [at |-> stage, uid |-> 0] \in Process
  BY DEF Process
<1> QED
  BY <1>1 DEF To, TypeOK

(* A step of a server that changes no row, from a stage that is no claim.    *)
LEMMA StageStep ==
  ASSUME IInv, NEW s \in Servers, NEW stage \in Stages \ {"page"}, To(s, stage),
         start[s].at # "page",
         UNCHANGED <<rows, raced, mishaps>>,
         job' \in [Procs -> Job], \A q \in Procs : JobOK(q)'
  PROVE  IInv'
<1>1. UNCHANGED <<seq, role, name, page, verified, raced, mishaps>>
      /\ Live' = Live /\ Owners' = Owners
  BY DEF rows, Live, Owners
<1>2. \A q \in Servers : start'[q].at = "page" => q # s /\ start'[q] = start[q]
  BY DEF To, IInv, TypeOK
<1>3. \A q \in Servers : start[q].at = "page" => start'[q] = start[q]
  BY DEF To, IInv, TypeOK
<1>4. TypeOK'
  BY <1>1, ToType DEF IInv, TypeOK
<1>5. Integrity' /\ OwnerUnlessRaced'
  BY <1>1 DEF IInv, Integrity, OwnerUnlessRaced
<1>6. OwnerHoldsPage'
  BY <1>1, <1>3 DEF IInv, OwnerHoldsPage
<1>7. ClaimOK'
  BY <1>1, <1>2 DEF IInv, ClaimOK
<1> QED
  BY <1>4, <1>5, <1>6, <1>7 DEF IInv

(* Without a change of a row nothing becomes stale. *)
LEMMA CalmJobs ==
  ASSUME IInv, UNCHANGED <<role, name>>,
         job' = job \/ \E done \in SUBSET Procs : Settle(done)
  PROVE  job' \in [Procs -> Job] /\ \A q \in Procs : JobOK(q)'
<1>1. CASE job' = job
  BY <1>1 DEF IInv, TypeOK, JobOK, Outranks
<1>2. ASSUME NEW done \in SUBSET Procs, Settle(done)
      PROVE  job' \in [Procs -> Job] /\ \A q \in Procs : JobOK(q)'
  BY <1>2, SettleOK DEF IInv, TypeOK
<1> QED
  BY <1>1, <1>2

LEMMA InsertStep ==
  ASSUME IInv, NEW s \in Servers, InsertOwner(s)
  PROVE  IInv'
<1>1. CASE Named(Root) # {} /\ To(s, "off") /\ UNCHANGED <<seq, role, name, mishaps>>
  <2>1. UNCHANGED <<rows, raced, mishaps>> /\ start[s].at # "page"
    BY <1>1 DEF InsertOwner, rows
  <2>2. job' \in [Procs -> Job] /\ \A q \in Procs : JobOK(q)'
    BY <1>1, SettleOK DEF IInv, TypeOK, InsertOwner
  <2> QED
    BY <1>1, <2>1, <2>2, StageStep DEF Stages
<1>2. CASE /\ Named(Root) = {} /\ seq < MaxId /\ seq' = seq + 1
           /\ role' = [role EXCEPT ![seq + 1] = "owner"]
           /\ name' = [name EXCEPT ![seq + 1] = Root]
           /\ start' = [start EXCEPT ![s] = [at |-> "page", uid |-> seq + 1]]
           /\ mishaps' = (mishaps \ {"headless"}) \cup (IF Live = {} THEN {} ELSE {"crossed"})
  <2> DEFINE k == seq + 1
  <2>1. k \in Ids /\ k \in 1..MaxId /\ seq \in Nat /\ k \notin Live /\ Live \subseteq 1..seq
    BY <1>2 DEF Ids, IInv, TypeOK, Integrity
  <2>2. role' \in [Ids -> Roles \cup {"none"}] /\ name' \in [Ids -> Names \cup {NoName}]
    BY <1>2, <2>1 DEF IInv, TypeOK, Roles
  <2>3. job' \in [Procs -> Job] /\ \A q \in Procs : JobOK(q)'
    BY <2>2, SettleOK DEF InsertOwner
  <2>4. Live' = Live \cup {k} /\ Owners' = Owners \cup {k}
    BY <1>2, <2>1 DEF Live, Owners, IInv, TypeOK
  <2>5. UNCHANGED <<page, verified, raced>>
    BY DEF InsertOwner
  <2>6. start' \in [Servers -> Process]
    <3>1. [at |-> "page", uid |-> seq + 1] \in Process
      BY <2>1 DEF Process, Stages
    <3> QED
      BY <1>2, <3>1 DEF IInv, TypeOK
  <2>7. TypeOK'
    BY <1>2, <2>1, <2>2, <2>3, <2>5, <2>6 DEF IInv, TypeOK
  <2>8. Integrity'
    <3>1. \A i \in Live : name[i] # Root
      BY <1>2 DEF Named
    <3> QED
      BY <1>2, <2>1, <2>4, <2>5, <3>1 DEF IInv, TypeOK, Integrity, Live
  <2>9. OwnerUnlessRaced'
    BY <2>4 DEF OwnerUnlessRaced
  <2>10. "crossed" \notin mishaps' => Live = {} /\ Owners = {} /\ page = 0
    BY <1>2 DEF Live, Owners, IInv, Integrity
  <2>11. start'[s].at = "page" /\ start'[s].uid = k
    BY <1>2 DEF IInv, TypeOK
  <2>12. OwnerHoldsPage'
    BY <2>4, <2>5, <2>10, <2>11 DEF OwnerHoldsPage
  <2>13. ClaimOK'
    <3> SUFFICES ASSUME NEW q \in Servers, start'[q].at = "page"
                 PROVE  /\ start'[q].uid \in 1..seq'
                        /\ "crossed" \notin mishaps' /\ start'[q].uid \in Live' =>
                             \A i \in Owners' : i = start'[q].uid \/ page' = i
      BY DEF ClaimOK
    <3>1. CASE q = s
      BY <1>2, <2>1, <2>4, <2>10, <2>11, <3>1
    <3>2. CASE q # s
      <4>1. start'[q] = start[q]
        BY <1>2, <3>2 DEF IInv, TypeOK
      <4>2. start[q].uid \in 1..seq
        BY <4>1 DEF IInv, ClaimOK
      <4> QED
        BY <1>2, <2>1, <2>4, <2>10, <4>1, <4>2
    <3> QED
      BY <3>1, <3>2
  <2> QED
    BY <2>3, <2>7, <2>8, <2>9, <2>12, <2>13 DEF IInv
<1> QED
  BY <1>1, <1>2 DEF InsertOwner

LEMMA ClaimStep ==
  ASSUME IInv, NEW s \in Servers, ClaimPage(s)
  PROVE  IInv'
<1> DEFINE u == start[s].uid
<1>1. /\ start[s].at = "page" /\ u \in 1..seq /\ u \in Ids /\ u # 0
      /\ UNCHANGED <<seq, role, name, verified, job, raced, mishaps>>
      /\ Live' = Live /\ Owners' = Owners
  BY DEF ClaimPage, IInv, ClaimOK, TypeOK, Ids, Live, Owners
<1>2. job' \in [Procs -> Job] /\ \A q \in Procs : JobOK(q)'
  BY <1>1, CalmJobs
<1>3. /\ page' = IF u \in Live /\ page = 0 THEN u ELSE page
      /\ \E stage \in {"serving", "off"} : To(s, stage)
  BY DEF ClaimPage
<1>4. start' \in [Servers -> Process]
  BY <1>3, ToType DEF IInv, Stages
<1>5. \A q \in Servers : start'[q].at = "page" => start'[q] = start[q]
  BY <1>3 DEF To, IInv, TypeOK
<1>6. \A q \in Servers : q # s => start'[q] = start[q]
  BY <1>3 DEF To, IInv, TypeOK
<1>7. TypeOK'
  BY <1>1, <1>2, <1>3, <1>4 DEF IInv, TypeOK, Ids
<1>8. Integrity' /\ OwnerUnlessRaced'
  BY <1>1, <1>3 DEF IInv, Integrity, OwnerUnlessRaced
<1>9. \A i \in Owners : i \in Live /\ i # 0
  BY DEF Owners, Live, Ids
<1>10. OwnerHoldsPage'
  <2> SUFFICES ASSUME "crossed" \notin mishaps, NEW i \in Owners
               PROVE  /\ \A k \in Owners : i = k
                      /\ \/ page' = i
                         \/ page' = 0 /\ ("torn" \in mishaps \/ \E q \in Servers :
                                            start'[q].at = "page" /\ start'[q].uid = i)
    BY <1>1 DEF OwnerHoldsPage
  <2>1. /\ \A k \in Owners : i = k
        /\ \/ page = i
           \/ page = 0 /\ ("torn" \in mishaps \/ \E q \in Servers :
                              start[q].at = "page" /\ start[q].uid = i)
    BY DEF IInv, OwnerHoldsPage
  <2>2. u \in Live /\ page = 0 => i = u
    BY <1>1, <1>9 DEF IInv, ClaimOK
  <2>3. u \notin Live => i # u
    BY <1>9
  <2> QED
    BY <1>3, <1>6, <1>9, <2>1, <2>2, <2>3
<1>11. ClaimOK'
  <2> SUFFICES ASSUME NEW q \in Servers, start'[q].at = "page"
               PROVE  /\ start'[q].uid \in 1..seq
                      /\ "crossed" \notin mishaps /\ start'[q].uid \in Live =>
                           \A i \in Owners : i = start'[q].uid \/ page' = i
    BY <1>1 DEF ClaimOK
  <2>1. start'[q] = start[q]
    BY <1>5
  <2> QED
    BY <1>3, <1>9, <2>1 DEF IInv, ClaimOK
<1> QED
  BY <1>2, <1>7, <1>8, <1>10, <1>11 DEF IInv

LEMMA ResetStep ==
  ASSUME IInv, NEW s \in Servers, ResetOwner(s)
  PROVE  IInv'
<1>1. start[s].at # "page" /\ Settle({}) /\ UNCHANGED <<seq, role, page, verified, raced, mishaps>>
  BY DEF ResetOwner
<1>2. ASSUME name' = name, NEW stage \in {"serving", "off"}, To(s, stage)
      PROVE  IInv'
  <2>1. UNCHANGED <<rows, raced, mishaps>>
    BY <1>1, <1>2 DEF rows
  <2>2. job' \in [Procs -> Job] /\ \A q \in Procs : JobOK(q)'
    BY <1>1, <1>2, SettleOK DEF IInv, TypeOK
  <2> QED
    BY <1>1, <1>2, <2>1, <2>2, StageStep DEF Stages
<1>3. ASSUME NEW i \in Owners, Named(Root) \subseteq {i}, To(s, "serving"),
             name' = [name EXCEPT ![i] = Root]
      PROVE  IInv'
  <2>1. i \in Ids /\ i \in Live /\ Live' = Live /\ Owners' = Owners
    BY <1>1 DEF Owners, Live
  <2>2. role' \in [Ids -> Roles \cup {"none"}] /\ name' \in [Ids -> Names \cup {NoName}]
    BY <1>1, <1>3, <2>1 DEF IInv, TypeOK
  <2>3. job' \in [Procs -> Job] /\ \A q \in Procs : JobOK(q)'
    BY <1>1, <2>2, SettleOK
  <2>4. start' \in [Servers -> Process]
    BY <1>3, ToType DEF IInv, Stages
  <2>5. TypeOK'
    BY <1>1, <1>3, <2>2, <2>3, <2>4 DEF IInv, TypeOK
  <2>6. Integrity'
    <3>1. \A k \in Live : name[k] = Root => k = i
      BY <1>3 DEF Named
    <3> QED
      BY <1>1, <1>3, <2>1, <3>1 DEF IInv, TypeOK, Integrity
  <2>7. OwnerUnlessRaced'
    BY <1>1, <2>1 DEF IInv, OwnerUnlessRaced
  <2>8. \A q \in Servers : start'[q].at = "page" \/ start[q].at = "page" => start'[q] = start[q]
    BY <1>1, <1>3 DEF To, IInv, TypeOK
  <2>9. OwnerHoldsPage'
    BY <1>1, <2>1, <2>8 DEF IInv, OwnerHoldsPage
  <2>10. ClaimOK'
    BY <1>1, <2>1, <2>8 DEF IInv, ClaimOK
  <2> QED
    BY <2>3, <2>5, <2>6, <2>7, <2>9, <2>10 DEF IInv
<1> QED
  BY <1>2, <1>3 DEF ResetOwner, LeastOwner

LEMMA ExitStep ==
  ASSUME IInv, NEW s \in Servers, Exit(s)
  PROVE  IInv'
<1>1. /\ To(s, "off") /\ UNCHANGED <<seq, role, name, page, verified, raced>>
      /\ mishaps' = IF start[s].at = "page" THEN mishaps \cup {"torn"} ELSE mishaps
      /\ \E done \in SUBSET Procs : Settle(done)
  BY DEF Exit, rows, Procs
<1>2. job' \in [Procs -> Job] /\ \A q \in Procs : JobOK(q)'
  BY <1>1, CalmJobs
<1>3. CASE start[s].at # "page"
  BY <1>1, <1>2, <1>3, StageStep DEF Stages, rows
<1>4. CASE start[s].at = "page"
  <2>1. Live' = Live /\ Owners' = Owners
    BY <1>1 DEF Live, Owners
  <2>2. start' \in [Servers -> Process]
    BY <1>1, ToType DEF IInv, Stages
  <2>3. TypeOK'
    BY <1>1, <1>2, <2>2 DEF IInv, TypeOK
  <2>4. Integrity' /\ OwnerUnlessRaced'
    BY <1>1, <2>1 DEF IInv, Integrity, OwnerUnlessRaced
  <2>5. "torn" \in mishaps' /\ ("crossed" \in mishaps' <=> "crossed" \in mishaps)
    BY <1>1, <1>4
  <2>6. OwnerHoldsPage'
    BY <1>1, <2>1, <2>5 DEF IInv, OwnerHoldsPage
  <2>7. \A q \in Servers : start'[q].at = "page" => start'[q] = start[q]
    BY <1>1 DEF To, IInv, TypeOK
  <2>8. ClaimOK'
    BY <1>1, <2>1, <2>5, <2>7 DEF IInv, ClaimOK
  <2> QED
    BY <1>2, <2>3, <2>4, <2>6, <2>8 DEF IInv
<1> QED
  BY <1>3, <1>4

LEMMA ServerStep ==
  ASSUME IInv, NEW s \in Servers, Start(s) \/ StartUp(s) \/ Exit(s)
  PROVE  IInv'
<1>1. ASSUME NEW stage \in Stages \ {"page"}, To(s, stage), start[s].at # "page",
             UNCHANGED <<rows, job, raced, mishaps>>
      PROVE  IInv'
  <2>1. job' \in [Procs -> Job] /\ \A q \in Procs : JobOK(q)'
    BY <1>1, CalmJobs DEF rows
  <2> QED
    BY <1>1, <2>1, StageStep
<1>2. Start(s) => IInv'
  BY <1>1 DEF Start, Stages
<1>3. CountUsers(s) => IInv'
  BY <1>1 DEF CountUsers, Stages
<1> QED
  BY <1>2, <1>3, InsertStep, ClaimStep, ResetStep, ExitStep DEF StartUp

LEMMA NextIInv == IInv /\ [Next]_vars => IInv'
<1> SUFFICES ASSUME IInv, [Next]_vars PROVE IInv'
  OBVIOUS
<1>1. ASSUME NEW w \in Workers, NEW a \in Live, NEW cmd \in Commands, NEW n \in Names,
             NEW arg \in ArgsOf(cmd), Admit(w, a, cmd, n, arg)
      PROVE  IInv'
  BY <1>1, AdmitStep
<1>2. ASSUME NEW w \in Workers, NEW n \in Names, Register(w, n)
      PROVE  IInv'
  BY <1>2, BeginStep DEF Register, Procs, Commands, Args, Roles
<1>3. ASSUME NEW c \in Clis, NEW cmd \in CliCommands \cap Commands, NEW n \in Names,
             NEW arg \in ArgsOf(cmd), Command(c, cmd, n, arg)
      PROVE  IInv'
  <2>1. c \in Procs /\ arg \in Args
    BY DEF Procs, ArgsOf, Args, Roles
  <2> QED
    BY <1>3, <2>1, BeginStep DEF Command
<1>4. ASSUME NEW w \in Workers, Resolve(w)
      PROVE  IInv'
  BY <1>4, ResolveStep
<1>5. ASSUME NEW p \in Procs, Read(p) \/ Write(p) \/ Abort(p)
      PROVE  IInv'
  <2>1. Abort(p) => IInv'
    BY DropStep DEF Abort, IInv, Integrity, rows
  <2> QED
    BY <1>5, <2>1, ReadStep, CreateStep, DeleteStep, SetRoleStep, SetVerifiedStep,
       SetPasswordStep, SetOwnerStep DEF Write
<1>6. ASSUME NEW s \in Servers, Start(s) \/ StartUp(s) \/ Exit(s)
      PROVE  IInv'
  BY <1>6, ServerStep
<1>7. CASE UNCHANGED vars
  <2>1. UNCHANGED <<seq, role, name, page, verified, job, start, raced, mishaps>>
    BY <1>7 DEF vars, rows
  <2>2. job' \in [Procs -> Job] /\ \A q \in Procs : JobOK(q)'
    BY <2>1, CalmJobs
  <2> QED
    BY <2>1, <2>2, SameRows
<1> QED
  BY <1>1, <1>2, <1>3, <1>4, <1>5, <1>6, <1>7 DEF Next

-----------------------------------------------------------------------------
(* Theorems *)

(* Every reachable state satisfies the inductive invariant.                  *)
THEOREM Invariance == Spec => []IInv
<1> QED
  BY InitIInv, NextIInv, PTL DEF Spec

(* The rows of users and profile are well-typed and agree with each other in *)
(* every interleaving of requests, commands, cancellations and restarts.     *)
THEOREM RowsAgree == Spec => [](TypeOK /\ Integrity)
<1>1. IInv => TypeOK /\ Integrity
  BY DEF IInv
<1> QED
  BY <1>1, Invariance, PTL

(* auth.go (SetOwner, EnsureAdmin, claimProfile): there are never two owners *)
(* and the owner holds the page, for any number of servers, requests and     *)
(* commands, except while a first start has not claimed it, after such a     *)
(* start was torn, or after one was crossed by another first account.        *)
THEOREM PageFollowsOwner == Spec => []OwnerHoldsPage
<1>1. IInv => OwnerHoldsPage
  BY DEF IInv
<1> QED
  BY <1>1, Invariance, PTL

(* auth.go: the half of "exactly one owner" that the code keeps.  Two owners *)
(* are only left by a start whose COUNT was overtaken by another account,    *)
(* and only until the next set-owner.                                        *)
AtMostOneOwner == "crossed" \notin mishaps => \A i, k \in Owners : i = k

THEOREM NeverTwoOwners == Spec => []AtMostOneOwner
<1>1. OwnerHoldsPage => AtMostOneOwner
  BY DEF OwnerHoldsPage, AtMostOneOwner
<1> QED
  BY <1>1, PageFollowsOwner, PTL

(* auth.go: a site with accounts has an owner unless a stale role change or  *)
(* deletion was written, or something else than a start made its first       *)
(* account.                                                                  *)
THEOREM OwnerKept == Spec => []OwnerUnlessRaced
<1>1. IInv => OwnerUnlessRaced
  BY DEF IInv
<1> QED
  BY <1>1, Invariance, PTL

(* The rank rule holds when a request writes, unless its actor or target has *)
(* changed since the request was admitted.                                   *)
THEOREM RankIsRespected == Spec => []RankRespected
<1>1. IInv => RankRespected
  <2> SUFFICES ASSUME IInv, NEW w \in Workers, job[w].at = "writing", job[w].actor # 0,
                      ~job[w].stale
               PROVE  /\ job[w].cmd # "create" => Outranks(job[w].actor, job[w].uid)
                      /\ job[w].cmd = "role" \/ (job[w].cmd = "create" /\ job[w].arg = "admin")
                           => role[job[w].actor] = "owner"
    BY DEF RankRespected
  <2>1. JobOK(w) /\ job[w] \in Job
    BY DEF IInv, TypeOK, Procs
  <2>2. job[w].cmd # "create" => Outranks(job[w].actor, job[w].uid)
    BY <2>1 DEF JobOK
  <2> QED
    BY <2>1, <2>2 DEF JobOK, Gate
<1> QED
  BY <1>1, Invariance, PTL

(* auth.go: an existing account becomes owner only by a command-line         *)
(* transfer and is then the only one; a start adds an owner only as a new    *)
(* account, and a second one only beside an account that its COUNT missed.   *)
THEOREM OwnershipTransfer == Spec => OwnershipOnlyByTransfer
<1> DEFINE A == role' # role =>
                  \A i \in Ids : role[i] # "owner" /\ role'[i] = "owner" =>
                    \/ /\ \E c \in Clis : Writing(c, "set-owner") /\ job[c].uid = i
                       /\ Owners' = {i}
                    \/ /\ i \notin Live /\ \E s \in Servers : start[s].at = "insert"
                       /\ Live = {} => Owners' = {i}
<1>1. IInv /\ [Next]_vars => [A]_vars
  <2> SUFFICES ASSUME IInv, Next, NEW i \in Ids, role[i] # "owner", role'[i] = "owner"
               PROVE  \/ /\ \E c \in Clis : Writing(c, "set-owner") /\ job[c].uid = i
                         /\ Owners' = {i}
                      \/ /\ i \notin Live /\ \E s \in Servers : start[s].at = "insert"
                         /\ Live = {} => Owners' = {i}
    OBVIOUS
  <2>1. role'[i] # role[i] /\ role \in [Ids -> Roles \cup {"none"}]
    BY DEF IInv, TypeOK
  <2>2. ASSUME NEW p \in Procs, Write(p)
        PROVE  /\ \E c \in Clis : Writing(c, "set-owner") /\ job[c].uid = i
               /\ Owners' = {i}
    <3>1. JobOK(p)
      BY DEF IInv
    <3>2. ~CreateTx(p) /\ ~SetRoleTx(p) /\ ~DeleteTx(p)
      BY <2>1, <3>1 DEF CreateTx, SetRoleTx, DeleteTx, JobOK, Writing
    <3>3. ~SetVerifiedTx(p) /\ ~SetPasswordTx(p)
      BY <2>1 DEF SetVerifiedTx, SetPasswordTx, rows
    <3>4. SetOwnerTx(p)
      BY <2>2, <3>2, <3>3 DEF Write
    <3>5. job[p].uid = i /\ p \in Clis /\ Writing(p, "set-owner")
      BY <2>1, <3>1, <3>4 DEF SetOwnerTx, JobOK, Writing
    <3>6. Owners' = {i}
      BY <2>1, <3>4, <3>5 DEF SetOwnerTx, Owners
    <3> QED
      BY <3>5, <3>6
  <2>3. ASSUME NEW s \in Servers, StartUp(s)
        PROVE  i \notin Live /\ start[s].at = "insert" /\ (Live = {} => Owners' = {i})
    <3>1. ~CountUsers(s) /\ ~ClaimPage(s) /\ ~ResetOwner(s)
      BY <2>1 DEF CountUsers, ClaimPage, ResetOwner, rows
    <3>2. InsertOwner(s)
      BY <2>3, <3>1 DEF StartUp
    <3>3. role' = [role EXCEPT ![seq + 1] = "owner"] /\ start[s].at = "insert"
      BY <2>1, <3>2 DEF InsertOwner
    <3>4. i = seq + 1
      BY <2>1, <3>3
    <3>5. i \notin Live
      BY <3>4 DEF IInv, TypeOK, Integrity
    <3>6. Live = {} => Owners' = {i}
      BY <2>1, <3>3, <3>4 DEF Live, Owners
    <3> QED
      BY <3>3, <3>5, <3>6
  <2>4. (\E p \in Procs : Write(p)) \/ (\E s \in Servers : StartUp(s))
    BY <2>1 DEF Next, Admit, Register, Command, Resolve, Read, Abort, Start, Exit, rows
  <2> QED
    BY <2>2, <2>3, <2>4
<1> QED
  BY <1>1, Invariance, PTL DEF Spec, OwnershipOnlyByTransfer

(* auth.go, profile.go: in every interleaving of requests and commands the   *)
(* rows and what each process has read of them stay of their types.          *)
THEOREM TypeCorrect == Spec => []TypeOK
<1>1. IInv => TypeOK
  BY DEF IInv
<1> QED
  BY <1>1, Invariance, PTL
=============================================================================
