----------------------------- MODULE Bootstrap -----------------------------
(***************************************************************************)
(* From an empty or an old database file to a serving process.  A server   *)
(* (docker-compose restarts it whenever it ends) and the command line      *)
(* (docker compose exec app phs-server user ...) both open the file and    *)
(* migrate it; the server then creates the first account, lets it claim    *)
(* the page, its profile and the links that ship with the schema, and      *)
(* agrees with other processes on the secret behind the fingerprints:      *)
(*                                                                         *)
(*   check/apply (per migration) -> count -> insert -> page -> profile     *)
(*      -> links -> secret -> store -> reread -> serving                   *)
(*                                                                         *)
(* Every stage is one statement or one transaction; between two of them    *)
(* the process may die (a crash, a signal, a failing statement) and other  *)
(* processes run.  Deletions and role changes are the subject of Accounts. *)
(***************************************************************************)
EXTENDS Integers, FiniteSets

CONSTANTS
  Servers,   \* server processes on the file
  Clis,      \* command-line processes
  Names,     \* usernames and handles, up to case
  NoName,    \* the name of an account, or handle of a profile, that is not there
  Root,      \* PHS_ADMIN_USERNAME
  Legacy,    \* profile.username: the handle of the page that ships with the schema
  NoSecret,  \* the settings row does not exist
  OldVersions, \* versions an installation may be upgraded from
  MaxId,       \* bound: account ids handed out
  MaxDeaths    \* bound: processes that die on the way

ASSUME ProcAssumption == Servers \cap Clis = {} /\ NoSecret \notin Servers
ASSUME NameAssumption == {Root, Legacy} \subseteq Names /\ NoName \notin Names
ASSUME VersionAssumption == OldVersions \subseteq {3, 5}
ASSUME BoundAssumption == MaxId \in Nat \ {0} /\ MaxDeaths \in Nat

VARIABLES
  version,  \* schema_migrations holds the first `version` migrations
  seq,      \* accounts 1..seq exist (ids count up, and none is deleted here)
  role,     \* role[i], "none" when there is no row i
  name,     \* users.username
  handle,   \* profiles.username, NoName when account i has no profile
  page,     \* profile.user_id, 0 for NULL
  seeded,   \* user_id of the links that ship with the schema, 0 for NULL
  secret,   \* the process that generated the stored secret
  job,      \* what each process is doing
  deaths,
  origin,   \* history: how account i came to be
  mishaps   \* history: "torn", a process died between inserting the first account
            \* and the end of its claim; "crossed", a first account was inserted
            \* after another had appeared

rows == <<version, seq, role, name, handle, page, seeded, secret>>
past == <<origin, mishaps>>
vars == <<rows, job, deaths, past>>

Ids == 1..MaxId
Procs == Servers \cup Clis
Latest == 7
Live == 1..seq
First == 1   \* SELECT MIN(id) FROM users, when there is one
Owners == {i \in Ids : role[i] = "owner"}
Named(n) == {i \in Live : name[i] = n}

(* A process: its stage, the migration it is at, whether it resets the       *)
(* owner (PHS_ADMIN_PASSWORD_RESET), the account and name it works on, its   *)
(* command, and the secret it holds.                                         *)
Stages == {"off", "check", "apply", "count", "insert", "page", "profile", "links",
           "reset", "secret", "store", "reread", "serving", "reading", "writing"}
Modes == {"normal", "reset"}
Job == [at : Stages, k : 1..Latest, mode : Modes, cmd : {"-", "create", "set-owner"},
        name : Names \cup {NoName}, uid : 0..MaxId, held : Servers \cup {NoSecret}]

Process(at, mode, cmd, n) ==
  [at |-> at, k |-> 1, mode |-> mode, cmd |-> cmd, name |-> n, uid |-> 0, held |-> NoSecret]

Off == Process("off", "normal", "-", NoName)

Claiming == {"page", "profile", "links"}
torn == "torn" \in mishaps
crossed == "crossed" \in mishaps
Claimants == {s \in Servers : job[s].at \in Claiming}

To(p, stage) == job' = [job EXCEPT ![p].at = stage]
End(p) == job' = [job EXCEPT ![p] = Off]

(* A database of an older release with accounts 1..n: before migration 4     *)
(* there are no roles (the column will default to "admin"), after it one of  *)
(* them owns the page.                                                       *)
Old(v, n, o) ==
  /\ version = v
  /\ seq = n
  /\ role = [i \in Ids |-> IF i > n THEN "none"
                           ELSE IF v >= 4 /\ i = o THEN "owner" ELSE "admin"]
  /\ page = IF v >= 4 THEN o ELSE 0
  /\ origin = [i \in Ids |-> IF i > n THEN "none" ELSE "upgrade"]

Init ==
  /\ \/ Old(0, 0, 0)
     \/ \E v \in OldVersions, n \in Ids : \E o \in 1..n : Old(v, n, o)
  /\ name \in [Ids -> Names \cup {NoName}]
  /\ \A i \in Ids : name[i] = NoName <=> i \notin Live
  /\ \A i, k \in Live : name[i] = name[k] => i = k
  /\ handle = [i \in Ids |-> NoName]
  /\ seeded = 0
  /\ secret = NoSecret
  /\ job = [p \in Procs |-> Off]
  /\ deaths = 0
  /\ mishaps = {}

-----------------------------------------------------------------------------
(* Opening the database *)

(* The supervisor starts the server; the environment says whether it resets. *)
Start(s, mode) ==
  /\ job[s].at = "off"
  /\ job' = [job EXCEPT ![s] = Process("check", mode, "-", NoName)]
  /\ UNCHANGED <<rows, deaths, past>>

(* An operator runs user create (administrator by default) or set-owner. *)
Command(c, cmd, n) ==
  /\ job[c].at = "off"
  /\ job' = [job EXCEPT ![c] = Process("check", "normal", cmd, n)]
  /\ UNCHANGED <<rows, deaths, past>>

(* The loop over the migrations skips those that are recorded.  Records are  *)
(* only added, in order, so what counts is the moment at which one is        *)
(* missing: the process then applies it.  When none is, it goes on to what   *)
(* it was started for.                                                       *)
Check(p) ==
  /\ job[p].at = "check"
  /\ IF version < Latest
     THEN job' = [job EXCEPT ![p].at = "apply", ![p].k = version + 1]
     ELSE To(p, IF p \in Servers THEN "count" ELSE "reading")
  /\ UNCHANGED <<rows, deaths, past>>

(* Back to the loop. *)
After(p) == job' = [job EXCEPT ![p].at = "check", ![p].k = 1]

(* Mutant: 0004 forgets the page. *)
Migrate4RoleOnly ==
  /\ role' = IF Live = {} THEN role ELSE [role EXCEPT ![First] = "owner"]
  /\ UNCHANGED <<page, handle, seeded>>

(* 0004: roles, and the first account becomes owner of the page. *)
Migrate4 ==
  /\ role' = IF Live = {} THEN role ELSE [role EXCEPT ![First] = "owner"]
  /\ page' = IF page = 0 /\ Live # {} THEN First ELSE page
  /\ UNCHANGED <<handle, seeded>>

(* 0006: the page becomes the profile of the account that owns it. *)
Migrate6 ==
  /\ handle' = IF page = 0 THEN handle ELSE [handle EXCEPT ![page] = Legacy]
  /\ UNCHANGED <<role, page, seeded>>

(* 0007: links become that account's. *)
Migrate7 ==
  /\ seeded' = page
  /\ UNCHANGED <<role, page, handle>>

Body(k) ==
  \/ k = 4 /\ Migrate4
  \/ k = 6 /\ Migrate6
  \/ k = 7 /\ Migrate7
  \/ k \notin {4, 6, 7} /\ UNCHANGED <<role, page, handle, seeded>>

(* Mutant: the record commits first, and the process may end before the body *)
(* runs.                                                                     *)
ApplyTorn(p) ==
  LET k == job[p].k IN
  /\ job[p].at = "apply"
  /\ IF k <= version
     THEN End(p) /\ UNCHANGED <<version, role, page, handle, seeded>>
     ELSE /\ version' = k
          /\ \/ Body(k) /\ After(p)
             \/ End(p) /\ UNCHANGED <<role, page, handle, seeded>>
  /\ UNCHANGED <<seq, name, secret, deaths, past>>

(* One transaction: the body and its record.  When another process has       *)
(* applied it since the check, ALTER TABLE or the record's primary key       *)
(* fails, everything is rolled back and the process ends.                    *)
Apply(p) ==
  LET k == job[p].k IN
  /\ job[p].at = "apply"
  /\ IF k <= version
     THEN End(p) /\ UNCHANGED <<version, role, page, handle, seeded>>
     ELSE version' = k /\ Body(k) /\ After(p)
  /\ UNCHANGED <<seq, name, secret, deaths, past>>

-----------------------------------------------------------------------------
(* EnsureAdmin *)

CountUsers(s) ==
  /\ job[s].at = "count"
  /\ To(s, IF Live = {} THEN "insert" ELSE IF job[s].mode = "reset" THEN "reset" ELSE "secret")
  /\ UNCHANGED <<rows, deaths, past>>

Insert(n, r, h, from) ==
  /\ seq < MaxId
  /\ seq' = seq + 1
  /\ role' = [role EXCEPT ![seq + 1] = r]
  /\ name' = [name EXCEPT ![seq + 1] = n]
  /\ handle' = [handle EXCEPT ![seq + 1] = h]
  /\ origin' = [origin EXCEPT ![seq + 1] = from]

(* Mutant: the bootstrap account is an ordinary administrator. *)
InsertAdminOnly(s) ==
  /\ job[s].at = "insert"
  /\ IF Named(Root) # {}
     THEN End(s) /\ UNCHANGED <<seq, role, name, handle, past>>
     ELSE /\ Insert(Root, "admin", NoName, "start")
          /\ mishaps' = IF Live = {} THEN mishaps ELSE mishaps \cup {"crossed"}
          /\ job' = [job EXCEPT ![s].at = "page", ![s].uid = seq + 1]
  /\ UNCHANGED <<version, page, seeded, secret, deaths>>

(* The first account.  If its name has been taken since the count the start  *)
(* fails.                                                                    *)
InsertOwner(s) ==
  /\ job[s].at = "insert"
  /\ IF Named(Root) # {}
     THEN End(s) /\ UNCHANGED <<seq, role, name, handle, past>>
     ELSE /\ Insert(Root, "owner", NoName, "start")
          /\ mishaps' = IF Live = {} THEN mishaps ELSE mishaps \cup {"crossed"}
          /\ job' = [job EXCEPT ![s].at = "page", ![s].uid = seq + 1]
  /\ UNCHANGED <<version, page, seeded, secret, deaths>>

(* claimProfile, first statement: only a page nobody holds. *)
ClaimPage(s) ==
  /\ job[s].at = "page"
  /\ page' = IF page = 0 THEN job[s].uid ELSE page
  /\ To(s, "profile")
  /\ UNCHANGED <<version, seq, role, name, handle, seeded, secret, deaths, past>>

(* INSERT OR IGNORE: no effect when the account has a profile or another     *)
(* account has the handle.                                                   *)
CopyProfile(s) ==
  LET u == job[s].uid IN
  /\ job[s].at = "profile"
  /\ handle' = IF handle[u] = NoName /\ \A i \in Ids : handle[i] # Legacy
               THEN [handle EXCEPT ![u] = Legacy] ELSE handle
  /\ To(s, "links")
  /\ UNCHANGED <<version, seq, role, name, page, seeded, secret, deaths, past>>

AdoptLinks(s) ==
  /\ job[s].at = "links"
  /\ seeded' = IF seeded = 0 THEN job[s].uid ELSE seeded
  /\ To(s, "secret")
  /\ UNCHANGED <<version, seq, role, name, handle, page, secret, deaths, past>>

LeastOwner(i) == i \in Owners /\ \A k \in Owners : i <= k

(* The owner cannot be given the configured name: another account has it. *)
Blocked == \E i \in Owners : LeastOwner(i) /\ ~(Named(Root) \subseteq {i})

Renamed == \/ Owners = {} /\ UNCHANGED name
           \/ \E i \in Owners : LeastOwner(i) /\ name' = [name EXCEPT ![i] = Root]

(* Mutant: usernames are not UNIQUE. *)
ResetOwnerAnyway(s) ==
  /\ job[s].at = "reset"
  /\ To(s, "secret")
  /\ Renamed
  /\ UNCHANGED <<version, seq, role, handle, page, seeded, secret, deaths, past>>

(* Mutant: a reset that finds no owner is an error. *)
ResetOwnerStrictly(s) ==
  /\ job[s].at = "reset"
  /\ IF Blocked \/ Owners = {} THEN End(s) /\ UNCHANGED name
     ELSE To(s, "secret") /\ Renamed
  /\ UNCHANGED <<version, seq, role, handle, page, seeded, secret, deaths, past>>

(* A forced reset renames the owner, if there is one; a name in use by       *)
(* another account makes the start fail.                                     *)
ResetOwner(s) ==
  /\ job[s].at = "reset"
  /\ IF Blocked THEN End(s) /\ UNCHANGED name
     ELSE To(s, "secret") /\ Renamed
  /\ UNCHANGED <<version, seq, role, handle, page, seeded, secret, deaths, past>>

-----------------------------------------------------------------------------
(* EnsureSecret *)

ReadSecret(s) ==
  /\ job[s].at = "secret"
  /\ job' = [job EXCEPT ![s].at = IF secret = NoSecret THEN "store" ELSE "serving",
                        ![s].held = secret]
  /\ UNCHANGED <<rows, deaths, past>>

(* INSERT of a fresh one, ON CONFLICT DO NOTHING. *)
StoreSecret(s) ==
  /\ job[s].at = "store"
  /\ secret' = IF secret = NoSecret THEN s ELSE secret
  /\ To(s, "reread")
  /\ UNCHANGED <<version, seq, role, name, handle, page, seeded, deaths, past>>

(* Mutant: the process keeps the secret it generated. *)
KeepOwnSecret(s) ==
  /\ job[s].at = "reread"
  /\ job' = [job EXCEPT ![s].at = "serving", ![s].held = s]
  /\ UNCHANGED <<rows, deaths, past>>

RereadSecret(s) ==
  /\ job[s].at = "reread"
  /\ job' = [job EXCEPT ![s].at = "serving", ![s].held = secret]
  /\ UNCHANGED <<rows, deaths, past>>

-----------------------------------------------------------------------------
(* The command line *)

ReadCommand(c) ==
  LET j == job[c]  found == Named(j.name) IN
  /\ j.at = "reading"
  /\ \/ (j.cmd = "create") # (found = {}) /\ End(c)
     \/ j.cmd = "create" /\ found = {} /\ To(c, "writing")
     \/ /\ j.cmd = "set-owner"
        /\ \E u \in found : job' = [job EXCEPT ![c].at = "writing", ![c].uid = u]
  /\ UNCHANGED <<rows, deaths, past>>

(* Mutant: the account stays when its profile cannot be created. *)
CreateUserLoose(c) ==
  LET n == job[c].name IN
  /\ job[c].at = "writing" /\ job[c].cmd = "create"
  /\ IF Named(n) # {}
     THEN UNCHANGED <<seq, role, name, handle, origin>>
     ELSE /\ Insert(n, "admin", IF \E i \in Ids : handle[i] = n THEN NoName ELSE n, "cli")
  /\ End(c)
  /\ UNCHANGED <<version, page, seeded, secret, deaths, mishaps>>

(* CreateUser: the account and its profile; a name or handle in use rolls    *)
(* both back.                                                                *)
CreateUser(c) ==
  LET n == job[c].name IN
  /\ job[c].at = "writing" /\ job[c].cmd = "create"
  /\ IF Named(n) # {} \/ \E i \in Ids : handle[i] = n
     THEN UNCHANGED <<seq, role, name, handle, origin>>
     ELSE Insert(n, "admin", n, "cli")
  /\ End(c)
  /\ UNCHANGED <<version, page, seeded, secret, deaths, mishaps>>

(* Mutant: the previous owner is not demoted. *)
SetOwnerKeeping(c) ==
  LET u == job[c].uid IN
  /\ job[c].at = "writing" /\ job[c].cmd = "set-owner"
  /\ role' = [role EXCEPT ![u] = "owner"]
  /\ page' = u
  /\ End(c)
  /\ UNCHANGED <<version, seq, name, handle, seeded, secret, deaths, past>>

SetOwner(c) ==
  LET u == job[c].uid IN
  /\ job[c].at = "writing" /\ job[c].cmd = "set-owner"
  /\ role' = [i \in Ids |-> IF i = u THEN "owner"
                            ELSE IF role[i] = "owner" THEN "admin" ELSE role[i]]
  /\ page' = u
  /\ End(c)
  /\ UNCHANGED <<version, seq, name, handle, seeded, secret, deaths, past>>

-----------------------------------------------------------------------------

(* A crash, a signal (it cancels the context of every statement) or a        *)
(* statement that fails.                                                     *)
Die(p) ==
  /\ job[p].at # "off"
  /\ deaths < MaxDeaths
  /\ deaths' = deaths + 1
  /\ End(p)
  /\ mishaps' = IF job[p].at \in Claiming THEN mishaps \cup {"torn"} ELSE mishaps
  /\ UNCHANGED <<rows, origin>>

Opening(p) == Check(p) \/ Apply(p)

ServerStep(s) ==
  \/ Opening(s) \/ CountUsers(s)
  \/ InsertOwner(s) \/ ClaimPage(s) \/ CopyProfile(s) \/ AdoptLinks(s)
  \/ ResetOwner(s)
  \/ ReadSecret(s) \/ StoreSecret(s) \/ RereadSecret(s)

CliStep(c) == Opening(c) \/ ReadCommand(c) \/ CreateUser(c) \/ SetOwner(c)

Next ==
  \/ \E s \in Servers : (\E mode \in Modes : Start(s, mode)) \/ ServerStep(s)
  \/ \E c \in Clis : CliStep(c)
  \/ \E c \in Clis, cmd \in {"create", "set-owner"}, n \in Names : Command(c, cmd, n)
  \/ \E p \in Procs : Die(p)

Spec == Init /\ [][Next]_vars

(* docker-compose restarts the container whenever the server ends, and a     *)
(* started process runs.                                                     *)
FairSpec ==
  /\ Spec
  /\ \A s \in Servers : WF_vars(ServerStep(s))
  /\ \A s \in Servers : WF_vars(\E mode \in Modes : Start(s, mode))

-----------------------------------------------------------------------------
(* Properties *)

(* Types, and the keys the schema declares: usernames and handles are UNIQUE *)
(* and rows refer to accounts that exist.                                    *)
TypeOK ==
  /\ version \in 0..Latest
  /\ seq \in 0..MaxId
  /\ role \in [Ids -> {"none", "owner", "admin"}]
  /\ name \in [Ids -> Names \cup {NoName}]
  /\ handle \in [Ids -> Names \cup {NoName}]
  /\ page \in 0..MaxId
  /\ seeded \in 0..MaxId
  /\ secret \in Servers \cup {NoSecret}
  /\ job \in [Procs -> Job]
  /\ deaths \in 0..MaxDeaths
  /\ origin \in [Ids -> {"none", "upgrade", "start", "cli"}]
  /\ mishaps \subseteq {"torn", "crossed"}
  /\ \A i \in Ids : role[i] = "none" <=> i \notin Live
  /\ \A i \in Ids : name[i] = NoName <=> i \notin Live
  /\ \A i, k \in Live : name[i] = name[k] => i = k
  /\ \A i, k \in Ids : handle[i] = handle[k] => i = k \/ handle[i] = NoName
  /\ \A i \in Ids : handle[i] # NoName => i \in Live
  /\ {page, seeded} \subseteq Live \cup {0}

(* "The very first account is the owner": whatever dies on the way and       *)
(* whichever processes overlap, an installation with accounts has an owner,  *)
(* unless the command line made its first account before any server did.    *)
OwnerUnlessCliFirst ==
  version >= 4 /\ Live # {} => Owners # {} \/ origin[First] = "cli"

(* Two first starts, an upgrade beside a command, a migration both want to   *)
(* apply: there are never two owners, and the owner's page is its own or     *)
(* still to be claimed, unless the first account was inserted after another  *)
(* account had appeared.                                                     *)
OwnersPage ==
  ~crossed =>
    /\ \A i, k \in Owners : i = k
    /\ \A i \in Owners : page \in {0, i}

(* badges.go: "No account owns the page yet (only possible before the first  *)
(* start finishes)".  With accounts but no page holder, that start is still  *)
(* claiming, or died while it was, or was not what made the first account.   *)
PageHeld ==
  version >= 4 /\ Live # {} /\ page = 0 =>
    torn \/ Claimants # {} \/ origin[First] = "cli"

(* The page and the links that ship with the schema (or that an upgraded     *)
(* installation had) end up with one account: migrations 4, 6 and 7 and      *)
(* claimProfile fit together across deaths and overlapping starts.  The      *)
(* account misses the profile only if somebody else took its handle.         *)
SeedAdopted ==
  /\ version = Latest
  /\ Live # {} /\ origin[First] # "cli"
  /\ ~torn /\ Claimants = {}
  => /\ seeded # 0
     /\ \/ handle[seeded] = Legacy
        \/ \E i \in Live : origin[i] = "cli" /\ handle[i] = Legacy

(* "A profile belongs to every account" (0006), except accounts other than   *)
(* the page's that an upgrade found, and a first account whose claim is not  *)
(* finished, was torn or lost the handle.                                    *)
ProfilesComplete ==
  version >= 6 =>
    \A i \in Live : handle[i] = NoName =>
      \/ origin[i] = "upgrade" /\ (\E k \in Live : origin[k] = "upgrade" /\ handle[k] = Legacy)
      \/ origin[i] = "start" /\ (torn \/ Claimants # {} \/ \E k \in Live : handle[k] = Legacy)

(* "Another process may have won the race; keep whichever landed first":     *)
(* all serving processes compute fingerprints with the stored secret.        *)
OneSecret ==
  \A s \in Servers : job[s].at = "serving" => job[s].held = secret /\ secret # NoSecret

(* Starts that overlap, die or lose a race are followed by one that serves,  *)
(* unless every start may be a forced reset to a name that another account   *)
(* has.                                                                      *)
Serves == []<>(Blocked \/ \E s \in Servers : job[s].at = "serving")

=============================================================================
