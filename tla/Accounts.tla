------------------------------ MODULE Accounts ------------------------------
(***************************************************************************)
(* Accounts, roles and ownership: the users table, the owner's page        *)
(* pointer (profile.user_id) and every process that changes them.  HTTP    *)
(* workers serve the management API; command-line processes (phs-server    *)
(* user ...) open the same SQLite file.  SQLite serialises statements and  *)
(* transactions, so one of those is one action here, and everything a      *)
(* handler does between two of them can be interleaved with the others:    *)
(*                                                                         *)
(*   admitted --Resolve--> reading --Read--> writing --Write--> idle       *)
(*                                                                         *)
(* "admitted" has run requireAuth and the role gate, Resolve is the        *)
(* handler's resolveTarget, Read is the store's own look-up by name, and   *)
(* Write is the statement or transaction that ends the operation.  A       *)
(* server that starts goes through the statements of EnsureAdmin:          *)
(*                                                                         *)
(*   off --> count --> insert --> page --> serving                         *)
(*                 \--> reset ------------/                                *)
(*                                                                         *)
(* and can end at any of them.  What else a start does (migrations, the    *)
(* rest of claimProfile, the secret) is the subject of Bootstrap.          *)
(* Names stand for usernames up to case (COLLATE NOCASE).                  *)
(***************************************************************************)
EXTENDS Integers, FiniteSets

CONSTANTS
  Servers,   \* server processes on the database file
  Workers,   \* concurrent HTTP requests
  Clis,      \* concurrent command-line processes
  Names,     \* usernames
  NoName,    \* the name column of a row that does not exist
  Root,      \* PHS_ADMIN_USERNAME
  CliCommands, \* bound: the commands the operator uses
  MaxId,       \* bound: account ids handed out (AUTOINCREMENT, never reused)
  Notable      \* bound: accounts that may be verified

ASSUME ProcAssumption == Workers \cap Clis = {}
ASSUME NameAssumption == Root \in Names /\ NoName \notin Names
ASSUME IdAssumption == MaxId \in Nat \ {0}

VARIABLES
  seq,       \* sqlite_sequence of users: the last id handed out
  role,      \* role[i], "none" when there is no row i
  name,      \* name[i], NoName when there is no row i
  page,      \* profile.user_id, 0 for NULL
  verified,  \* accounts with a verified_at stamp
  job,       \* what each request and command is doing
  start,     \* how far each server process has come
  raced,     \* history: a role change or deletion was written over a change
             \* of its actor or target that came after its own read
  mishaps    \* history, since the last set-owner: "crossed", a start inserted
             \* an owner beside an account that had appeared since its COUNT;
             \* "torn", a server ended between that INSERT and the claim of the
             \* page; "headless", something else made the first account

rows == <<seq, role, name, page, verified>>
vars == <<rows, job, start, raced, mishaps>>

Ids == 1..MaxId
Procs == Workers \cup Clis
Roles == {"owner", "admin", "member"}
Live == {i \in Ids : role[i] # "none"}
Owners == {i \in Ids : role[i] = "owner"}
Named(n) == {i \in Live : name[i] = n}

Commands == {"create", "delete", "role", "passwd", "verify", "set-owner"}
Args == Roles \cup {"yes", "no", "-"}
ArgsOf(cmd) == CASE cmd = "create" -> Roles \cup {"-"}   \* "-": an unknown role
                 [] cmd = "role" -> Roles
                 [] cmd = "verify" -> {"yes", "no"}
                 [] OTHER -> {"-"}

(* A request in flight: its stage, the authenticated account and the role   *)
(* requireAuth read for it (0 and "none" when nobody is authenticated), the *)
(* target's name, the id the store found for it, and whether the actor or   *)
(* the target has changed since the request began (history).                *)
Job == [at : {"idle", "admitted", "reading", "writing"},
        cmd : Commands \cup {"-"}, actor : 0..MaxId, arole : Roles \cup {"none"},
        target : Names \cup {NoName}, arg : Args, uid : 0..MaxId, stale : BOOLEAN]

Idle == [at |-> "idle", cmd |-> "-", actor |-> 0, arole |-> "none",
         target |-> NoName, arg |-> "-", uid |-> 0, stale |-> FALSE]

Begin(at, cmd, a, r, n, arg) ==
  [at |-> at, cmd |-> cmd, actor |-> a, arole |-> r,
   target |-> n, arg |-> arg, uid |-> 0, stale |-> FALSE]

(* A server: its stage, and the account it has inserted while it claims the  *)
(* page for it.                                                              *)
Stages == {"off", "count", "insert", "page", "reset", "serving"}
Process == [at : Stages, uid : 0..MaxId]

To(s, stage) == start' = [start EXCEPT ![s] = [at |-> stage, uid |-> 0]]
Serving == {s \in Servers : start[s].at = "serving"}

(* A migrated database without accounts. *)
Init ==
  /\ seq = 0
  /\ role = [i \in Ids |-> "none"]
  /\ name = [i \in Ids |-> NoName]
  /\ page = 0
  /\ verified = {}
  /\ job = [p \in Procs |-> Idle]
  /\ start = [s \in Servers |-> [at |-> "off", uid |-> 0]]
  /\ raced = FALSE
  /\ mishaps = {}

-----------------------------------------------------------------------------
(* Permissions *)

Rank(r) == CASE r = "owner" -> 3 [] r = "admin" -> 2 [] r = "member" -> 1 [] OTHER -> 0

(* Mutant: equals may act on each other. *)
MayManageEquals(a, ra, t, rt) == Rank(ra) >= Rank(rt) \/ (ra = "owner" /\ a = t)

MayManage(a, ra, t, rt) == Rank(ra) > Rank(rt) \/ (ra = "owner" /\ a = t)

(* What the middleware and the handler demand of the role requireAuth read. *)
Gate(r, cmd, arg) ==
  /\ cmd # "set-owner"
  /\ r \in {"owner", "admin"}
  /\ cmd = "role" => r = "owner"
  /\ cmd = "create" /\ arg = "admin" => r = "owner"
  /\ cmd \in {"create", "role"} => arg \in {"admin", "member"}

-----------------------------------------------------------------------------
(* The beginning of an operation *)

(* requireAuth and the gate: an account with a live session starts a request *)
(* at a server that serves.                                                  *)
Admit(w, a, cmd, n, arg) ==
  /\ job[w] = Idle /\ Serving # {}
  /\ Gate(role[a], cmd, arg)
  /\ job' = [job EXCEPT ![w] =
               Begin(IF cmd = "create" THEN "reading" ELSE "admitted",
                     cmd, a, role[a], n, arg)]
  /\ UNCHANGED <<rows, start, raced, mishaps>>

(* Public registration creates a member without any session. *)
Register(w, n) ==
  /\ job[w] = Idle /\ Serving # {}
  /\ job' = [job EXCEPT ![w] = Begin("reading", "create", 0, "none", n, "member")]
  /\ UNCHANGED <<rows, start, raced, mishaps>>

(* An operator runs a command: no session, no gate. *)
Command(c, cmd, n, arg) ==
  /\ job[c] = Idle
  /\ cmd = "role" => arg \in {"admin", "member"}
  /\ job' = [job EXCEPT ![c] = Begin("reading", cmd, 0, "none", n, arg)]
  /\ UNCHANGED <<rows, start, raced, mishaps>>

(* resolveTarget: load the target by name and compare ranks; deletion and    *)
(* role changes also refuse the owner.  A refusal ends the request.          *)
Resolve(w) ==
  LET j == job[w] IN
  /\ j.at = "admitted"
  /\ job' = [job EXCEPT ![w] =
       IF \E t \in Named(j.target) :
            /\ MayManage(j.actor, j.arole, t, role[t])
            /\ j.cmd \in {"delete", "role"} => role[t] # "owner"
       THEN [j EXCEPT !.at = "reading"]
       ELSE Idle]
  /\ UNCHANGED <<rows, start, raced, mishaps>>

(* Mutant: the store's own refusals of an owner are gone. *)
ReadUnguarded(p) ==
  LET j == job[p] IN
  /\ j.at = "reading"
  /\ job' = [job EXCEPT ![p] =
       IF j.cmd = "create" /\ Named(j.target) = {}
       THEN [j EXCEPT !.at = "writing"]
       ELSE IF j.cmd # "create" /\ Named(j.target) # {}
       THEN [j EXCEPT !.at = "writing", !.uid = CHOOSE t \in Named(j.target) : TRUE]
       ELSE Idle]
  /\ UNCHANGED <<rows, start, raced, mishaps>>

(* The store's checks before it writes.  CreateUser refuses the owner role,  *)
(* an unknown role and a name in use; the others refuse a name nobody has;   *)
(* DeleteUser and SetRole refuse the owner; a role change to the same role   *)
(* ends here.                                                                *)
Read(p) ==
  LET j == job[p]
      Found(t) == /\ j.cmd \in {"delete", "role"} => role[t] # "owner"
                  /\ j.cmd = "role" => role[t] # j.arg
  IN
  /\ j.at = "reading"
  /\ \/ /\ j.cmd = "create"
        /\ job' = [job EXCEPT ![p] =
             IF j.arg \in {"admin", "member"} /\ Named(j.target) = {}
             THEN [j EXCEPT !.at = "writing"] ELSE Idle]
     \/ /\ j.cmd # "create"
        /\ \/ \E t \in Named(j.target) :
                /\ Found(t)
                /\ job' = [job EXCEPT ![p] = [j EXCEPT !.at = "writing", !.uid = t]]
           \/ /\ \A t \in Named(j.target) : ~Found(t)
              /\ job' = [job EXCEPT ![p] = Idle]
  /\ UNCHANGED <<rows, start, raced, mishaps>>

-----------------------------------------------------------------------------
(* The write that ends an operation *)

Changed(i) == role'[i] # role[i] \/ name'[i] # name[i]

(* The step changed the row of the job's actor, or a row its name did or     *)
(* does refer to.                                                            *)
Touched(j) == \E i \in Ids : Changed(i) /\ (j.actor = i \/ j.target \in {name[i], name'[i]})

(* The processes in `done` finish; the others notice nothing (history only). *)
Settle(done) ==
  job' = [q \in Procs |->
            IF q \in done \/ job[q].at = "idle" THEN Idle
            ELSE IF Touched(job[q]) THEN [job[q] EXCEPT !.stale = TRUE] ELSE job[q]]

Writing(p, cmd) == job[p].at = "writing" /\ job[p].cmd = cmd

(* INSERT of the account, with its profile row in the same transaction.  A   *)
(* UNIQUE conflict on the name rolls back (on the handle too: see Abort).    *)
CreateTx(p) ==
  LET j == job[p] IN
  /\ Writing(p, "create")
  /\ IF Named(j.target) # {}
     THEN UNCHANGED <<seq, role, name, mishaps>>
     ELSE /\ seq < MaxId
          /\ seq' = seq + 1
          /\ role' = [role EXCEPT ![seq + 1] = j.arg]
          /\ name' = [name EXCEPT ![seq + 1] = j.target]
          /\ mishaps' = IF Live = {} THEN mishaps \cup {"headless"} ELSE mishaps
  /\ Settle({p})
  /\ UNCHANGED <<page, verified, start, raced>>

(* Mutant: profile.user_id keeps pointing at the deleted row. *)
DeleteTxDangling(p) ==
  LET u == job[p].uid IN
  /\ Writing(p, "delete")
  /\ role' = [role EXCEPT ![u] = "none"]
  /\ name' = [name EXCEPT ![u] = NoName]
  /\ verified' = verified \ {u}
  /\ raced' = (raced \/ job[p].stale)
  /\ Settle({p})
  /\ UNCHANGED <<seq, page, start, mishaps>>

(* DELETE by id; the page pointer is ON DELETE SET NULL. *)
DeleteTx(p) ==
  LET u == job[p].uid IN
  /\ Writing(p, "delete")
  /\ role' = [role EXCEPT ![u] = "none"]
  /\ name' = [name EXCEPT ![u] = NoName]
  /\ page' = IF page = u THEN 0 ELSE page
  /\ verified' = verified \ {u}
  /\ raced' = (raced \/ job[p].stale)
  /\ Settle({p})
  /\ UNCHANGED <<seq, start, mishaps>>

(* UPDATE users SET role WHERE id: no row, no effect. *)
SetRoleTx(p) ==
  LET u == job[p].uid IN
  /\ Writing(p, "role")
  /\ role' = IF u \in Live THEN [role EXCEPT ![u] = job[p].arg] ELSE role
  /\ raced' = (raced \/ job[p].stale)
  /\ name' = name
  /\ Settle({p})
  /\ UNCHANGED <<seq, page, verified, start, mishaps>>

SetVerifiedTx(p) ==
  LET u == job[p].uid IN
  /\ Writing(p, "verify")
  /\ verified' = IF u \in Live /\ job[p].arg = "yes"
                 THEN verified \cup {u} ELSE verified \ {u}
  /\ verified' \subseteq Notable
  /\ job' = [job EXCEPT ![p] = Idle]
  /\ UNCHANGED <<seq, role, name, page, start, raced, mishaps>>

(* The password itself and the sessions it ends are modelled in Sessions. *)
SetPasswordTx(p) ==
  /\ Writing(p, "passwd")
  /\ job' = [job EXCEPT ![p] = Idle]
  /\ UNCHANGED <<rows, start, raced, mishaps>>

(* Mutant: no foreign key on profile.user_id, so a vanished target still     *)
(* demotes the owner.                                                        *)
SetOwnerTxUnchecked(p) ==
  LET u == job[p].uid IN
  /\ Writing(p, "set-owner")
  /\ role' = [i \in Ids |-> IF i = u /\ i \in Live THEN "owner"
                            ELSE IF role[i] = "owner" THEN "admin" ELSE role[i]]
  /\ page' = u
  /\ mishaps' = {}
  /\ name' = name
  /\ Settle({p})
  /\ UNCHANGED <<seq, verified, start, raced>>

(* One transaction: demote every other owner, promote the target, move the   *)
(* page.  When the target has been deleted meanwhile the foreign key of      *)
(* profile.user_id fails and everything is rolled back.                      *)
SetOwnerTx(p) ==
  LET u == job[p].uid IN
  /\ Writing(p, "set-owner")
  /\ IF u \in Live
     THEN /\ role' = [i \in Ids |-> IF i = u THEN "owner"
                                    ELSE IF role[i] = "owner" THEN "admin" ELSE role[i]]
          /\ page' = u
          /\ mishaps' = {}
     ELSE UNCHANGED <<role, page, mishaps>>
  /\ name' = name
  /\ Settle({p})
  /\ UNCHANGED <<seq, verified, start, raced>>

Write(p) ==
  \/ CreateTx(p)
  \/ DeleteTx(p)
  \/ SetRoleTx(p)
  \/ SetVerifiedTx(p)
  \/ SetPasswordTx(p)
  \/ SetOwnerTx(p)

-----------------------------------------------------------------------------
(* A server starts: EnsureAdmin *)

Start(s) ==
  /\ start[s].at = "off"
  /\ To(s, "count")
  /\ UNCHANGED <<rows, job, raced, mishaps>>

(* SELECT COUNT( * ): without accounts there will be an owner, otherwise     *)
(* only a forced reset (PHS_ADMIN_PASSWORD_RESET) writes.                    *)
CountUsers(s) ==
  /\ start[s].at = "count"
  /\ IF Live = {} THEN To(s, "insert") ELSE To(s, "reset") \/ To(s, "serving")
  /\ UNCHANGED <<rows, job, raced, mishaps>>

(* INSERT of the owner.  A name taken since the count makes the start fail. *)
InsertOwner(s) ==
  /\ start[s].at = "insert"
  /\ \/ /\ Named(Root) # {}
        /\ To(s, "off")
        /\ UNCHANGED <<seq, role, name, mishaps>>
     \/ /\ Named(Root) = {} /\ seq < MaxId
        /\ seq' = seq + 1
        /\ role' = [role EXCEPT ![seq + 1] = "owner"]
        /\ name' = [name EXCEPT ![seq + 1] = Root]
        /\ start' = [start EXCEPT ![s] = [at |-> "page", uid |-> seq + 1]]
        /\ mishaps' = (mishaps \ {"headless"}) \cup (IF Live = {} THEN {} ELSE {"crossed"})
  /\ Settle({})
  /\ UNCHANGED <<page, verified, raced>>

(* Mutant: the page is taken even if somebody holds it. *)
ClaimHeldPage(s) ==
  LET u == start[s].uid IN
  /\ start[s].at = "page"
  /\ IF u \in Live
     THEN page' = u /\ To(s, "serving")
     ELSE page' = page /\ To(s, "off")
  /\ UNCHANGED <<seq, role, name, verified, job, raced, mishaps>>

(* claimProfile: UPDATE profile SET user_id = u WHERE user_id IS NULL.  When *)
(* the account is gone a foreign key fails, here or at its profiles row, and *)
(* the start ends.                                                           *)
ClaimPage(s) ==
  LET u == start[s].uid IN
  /\ start[s].at = "page"
  /\ IF u \in Live
     THEN page' = (IF page = 0 THEN u ELSE page) /\ To(s, "serving")
     ELSE page' = page /\ To(s, "off")
  /\ UNCHANGED <<seq, role, name, verified, job, raced, mishaps>>

LeastOwner(i) == i \in Owners /\ \A k \in Owners : i <= k

(* The forced reset gives the lowest-numbered owner, if there is one, the    *)
(* configured name.  A name in use by another account makes the start fail.  *)
ResetOwner(s) ==
  /\ start[s].at = "reset"
  /\ \/ /\ Owners = {}
        /\ To(s, "serving") /\ UNCHANGED name
     \/ \E i \in Ids :
          /\ LeastOwner(i)
          /\ IF Named(Root) \subseteq {i}
             THEN To(s, "serving") /\ name' = [name EXCEPT ![i] = Root]
             ELSE To(s, "off") /\ UNCHANGED name
  /\ role' = role
  /\ Settle({})
  /\ UNCHANGED <<seq, page, verified, raced, mishaps>>

StartUp(s) == CountUsers(s) \/ InsertOwner(s) \/ ClaimPage(s) \/ ResetOwner(s)

-----------------------------------------------------------------------------
(* Failure *)

(* The client goes away, a statement fails (SQLITE_BUSY, a handle already    *)
(* taken by another profile), or the process is killed, before the write.    *)
Abort(p) ==
  /\ job[p] # Idle
  /\ job' = [job EXCEPT ![p] = Idle]
  /\ UNCHANGED <<rows, start, raced, mishaps>>

(* A server stops, crashes or fails to start.  Without another one its       *)
(* requests are gone.                                                        *)
Exit(s) ==
  /\ start[s].at # "off"
  /\ To(s, "off")
  /\ mishaps' = IF start[s].at = "page" THEN mishaps \cup {"torn"} ELSE mishaps
  /\ UNCHANGED <<rows, raced>>
  /\ Settle(IF Serving \subseteq {s} THEN Workers ELSE {})

Next ==
  \/ \E w \in Workers, a \in Live, cmd \in Commands, n \in Names :
       \E arg \in ArgsOf(cmd) : Admit(w, a, cmd, n, arg)
  \/ \E w \in Workers, n \in Names : Register(w, n)
  \/ \E c \in Clis, cmd \in CliCommands \cap Commands, n \in Names :
       \E arg \in ArgsOf(cmd) : Command(c, cmd, n, arg)
  \/ \E w \in Workers : Resolve(w)
  \/ \E p \in Procs : Read(p) \/ Write(p) \/ Abort(p)
  \/ \E s \in Servers : Start(s) \/ StartUp(s) \/ Exit(s)

Spec == Init /\ [][Next]_vars

-----------------------------------------------------------------------------
(* Properties *)

TypeOK ==
  /\ seq \in 0..MaxId
  /\ role \in [Ids -> Roles \cup {"none"}]
  /\ name \in [Ids -> Names \cup {NoName}]
  /\ page \in 0..MaxId
  /\ verified \subseteq Ids
  /\ job \in [Procs -> Job]
  /\ start \in [Servers -> Process]
  /\ mishaps \subseteq {"crossed", "torn", "headless"}
  /\ raced \in BOOLEAN

(* The rows agree with each other whatever the processes overlap: live names *)
(* are distinct, ids beyond the sequence are unused, and neither the page    *)
(* nor a Verified mark refers to an account that is gone (the UPDATEs by a   *)
(* remembered id in store/auth.go, against concurrent deletions).            *)
Integrity ==
  /\ \A i, k \in Live : name[i] = name[k] => i = k
  /\ \A i \in Ids : name[i] = NoName <=> i \notin Live
  /\ Live \subseteq 1..seq
  /\ page \in Live \cup {0}
  /\ verified \subseteq Live

(* "The page follows ownership": there are never two owners, and the owner   *)
(* holds the page, whatever overlaps or ends between two statements.  The    *)
(* exceptions are those of a first start: the page is nobody's until the     *)
(* start that inserted the owner has claimed it or if it ended before, and   *)
(* a start whose COUNT was overtaken may add a second owner.  A set-owner    *)
(* puts all of this right.                                                   *)
OwnerHoldsPage ==
  "crossed" \notin mishaps =>
    /\ \A i, k \in Owners : i = k
    /\ \A i \in Owners :
         \/ page = i
         \/ page = 0 /\ ("torn" \in mishaps \/ \E s \in Servers : start[s].at = "page" /\ start[s].uid = i)

(* A site with accounts has an owner, unless its first account was not made  *)
(* by a start ("headless"), or a role change or deletion was ever written    *)
(* over a change of its actor or target that came after its read.            *)
OwnerUnlessRaced == Live # {} /\ ~raced => Owners # {} \/ "headless" \in mishaps

(* As the accounts now are: a is strictly above t, or the owner itself. *)
Outranks(a, t) == Rank(role[a]) > Rank(role[t]) \/ (role[a] = "owner" /\ a = t)

(* When a management request is about to write, the actor still outranks the *)
(* account that is written, and only an owner changes roles or creates an    *)
(* administrator, unless actor or target changed since the request began:    *)
(* the checks of users.go and the later look-up by name fit together.        *)
RankRespected ==
  \A w \in Workers :
    LET j == job[w] IN
    j.at = "writing" /\ j.actor # 0 /\ ~j.stale =>
      /\ j.cmd # "create" => Outranks(j.actor, j.uid)
      /\ j.cmd = "role" \/ (j.cmd = "create" /\ j.arg = "admin") =>
           role[j.actor] = "owner"

(* "Ownership is transferred with SetOwner, never duplicated": an account    *)
(* that exists becomes owner only by a command-line set-owner, no request    *)
(* makes one, and whoever becomes owner is the only one, unless a start      *)
(* inserts it after another account had appeared since its COUNT.            *)
OwnershipOnlyByTransfer ==
  [][role' # role =>
       \A i \in Ids : role[i] # "owner" /\ role'[i] = "owner" =>
         \/ /\ \E c \in Clis : Writing(c, "set-owner") /\ job[c].uid = i
            /\ Owners' = {i}
         \/ /\ i \notin Live /\ \E s \in Servers : start[s].at = "insert"
            /\ Live = {} => Owners' = {i}]_vars

-----------------------------------------------------------------------------
(* What the comments promise without reservation *)

(* auth.go: "Exactly one owner exists at any time", here once a server has   *)
(* finished its start and none of the accidents of a first start happened.   *)
ExactlyOneOwner == Serving # {} /\ mishaps = {} => Cardinality(Owners) = 1

=============================================================================
