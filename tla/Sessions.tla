------------------------------ MODULE Sessions ------------------------------
(***************************************************************************)
(* Passwords and sessions.  A password is known by its epoch: every write  *)
(* of password_hash starts a new one, and a login succeeds with the epoch  *)
(* it finds.  Login, password change and password reset are sequences of   *)
(* separate SQL statements, not transactions:                              *)
(*   login    authenticate, then INSERT the session                        *)
(*   change   session look-up, compare the old password, UPDATE, DELETE    *)
(*   reset    look-up, UPDATE, DELETE                                      *)
(* and a client that goes away cancels a request between any two of them.  *)
(***************************************************************************)
EXTENDS Integers

CONSTANTS
  Users,      \* accounts (ids are never reused)
  Procs,      \* concurrent requests and command-line processes
  NoUser,     \* no account
  MaxToken,   \* bound: session tokens minted
  MaxEpoch,   \* bound: writes of one account's password
  MaxTime,    \* bound: clock
  TTL         \* SessionTTL

ASSUME SessionAssumption ==
  /\ NoUser \notin Users
  /\ MaxToken \in Nat /\ MaxEpoch \in Nat /\ MaxTime \in Nat /\ TTL \in Nat \ {0}

VARIABLES
  status,    \* status[u]: "new" before registration, "live", "gone" once deleted
  pw,        \* pw[u]: epoch of the stored password
  session,   \* session[t]: the row of token t, NoRow if there is none
  minted,    \* tokens handed out so far
  now,       \* the clock
  job,       \* what each process is doing
  excused    \* history, per account: a session older than the password may be
             \* left over, because a revocation was cut short, a login was late
             \* or the start-up reset (which revokes nothing) ran

vars == <<status, pw, session, minted, now, job, excused>>

Tokens == 1..MaxToken
Row == [user : Users, exp : Nat, epoch : Nat]   \* epoch is history
NoRow == [user |-> NoUser, exp |-> 0, epoch |-> 0]

Stages == {"idle", "authed", "admitted", "found", "updated", "leaving"}
Job == [at : Stages, user : Users \cup {NoUser}, epoch : Nat, token : 0..MaxToken]
Idle == [at |-> "idle", user |-> NoUser, epoch |-> 0, token |-> 0]

(* UserBySession accepts a token. *)
Valid(t) == session[t] # NoRow /\ session[t].exp > now

Init ==
  /\ status \in [Users -> {"new", "live"}]
  /\ pw = [u \in Users |-> 0]
  /\ session = [t \in Tokens |-> NoRow]
  /\ minted = 0
  /\ now = 0
  /\ job = [p \in Procs |-> Idle]
  /\ excused = [u \in Users |-> FALSE]

Do(p, at, u, e, t) ==
  job' = [job EXCEPT ![p] = [at |-> at, user |-> u, epoch |-> e, token |-> t]]

-----------------------------------------------------------------------------
(* Login and registration *)

(* Authenticate: the presented password matches the stored one (a mismatch   *)
(* changes nothing).                                                         *)
Login(p, u) ==
  /\ job[p] = Idle
  /\ status[u] = "live"
  /\ Do(p, "authed", u, pw[u], 0)
  /\ UNCHANGED <<status, pw, session, minted, now, excused>>

(* handleRegister: the account exists from here, its session follows.        *)
Register(p, u) ==
  /\ job[p] = Idle
  /\ status[u] = "new"
  /\ status' = [status EXCEPT ![u] = "live"]
  /\ Do(p, "authed", u, pw[u], 0)
  /\ UNCHANGED <<pw, session, minted, now, excused>>

(* CreateSession: a fresh token; the foreign key refuses a deleted account.  *)
CreateSession(p) ==
  LET j == job[p] IN
  /\ j.at = "authed"
  /\ IF status[j.user] = "live"
     THEN /\ minted < MaxToken
          /\ minted' = minted + 1
          /\ session' = [session EXCEPT ![minted + 1] =
                           [user |-> j.user, exp |-> now + TTL, epoch |-> j.epoch]]
          /\ excused' = [excused EXCEPT ![j.user] = @ \/ j.epoch # pw[j.user]]
     ELSE UNCHANGED <<minted, session, excused>>
  /\ job' = [job EXCEPT ![p] = Idle]
  /\ UNCHANGED <<status, pw, now>>

-----------------------------------------------------------------------------
(* Logout, password change and reset *)

(* handleLogout needs no valid session, only a cookie. *)
BeginLogout(p, t) ==
  /\ job[p] = Idle
  /\ t <= minted
  /\ Do(p, "leaving", NoUser, 0, t)
  /\ UNCHANGED <<status, pw, session, minted, now, excused>>

DeleteSession(p) ==
  /\ job[p].at = "leaving"
  /\ session' = [session EXCEPT ![job[p].token] = NoRow]
  /\ job' = [job EXCEPT ![p] = Idle]
  /\ UNCHANGED <<status, pw, minted, now, excused>>

(* requireAuth on POST /api/admin/password. *)
BeginChange(p, t) ==
  /\ job[p] = Idle
  /\ Valid(t)
  /\ Do(p, "admitted", session[t].user, 0, t)
  /\ UNCHANGED <<status, pw, session, minted, now, excused>>

(* ChangePassword re-checks the current password; a mismatch or a deleted    *)
(* account ends the request (Cancel).                                        *)
CheckCurrent(p) ==
  LET j == job[p] IN
  /\ j.at = "admitted"
  /\ status[j.user] = "live"
  /\ Do(p, "found", j.user, pw[j.user], j.token)
  /\ UNCHANGED <<status, pw, session, minted, now, excused>>

(* SetPassword looks the account up (handleResetPassword, user passwd). *)
BeginReset(p, u) ==
  /\ job[p] = Idle
  /\ status[u] = "live"
  /\ Do(p, "found", u, pw[u], 0)
  /\ UNCHANGED <<status, pw, session, minted, now, excused>>

(* UPDATE password_hash by id; no row, no effect, and no check of it. *)
UpdatePassword(p) ==
  LET j == job[p] IN
  /\ j.at = "found"
  /\ pw[j.user] < MaxEpoch
  /\ pw' = IF status[j.user] = "live" THEN [pw EXCEPT ![j.user] = @ + 1] ELSE pw
  /\ Do(p, "updated", j.user, j.epoch, j.token)
  /\ UNCHANGED <<status, session, minted, now, excused>>

(* Mutant: only the session that asked for the change is ended. *)
RevokeOwnSession(p) ==
  LET j == job[p] IN
  /\ j.at = "updated"
  /\ session' = [t \in Tokens |-> IF t = j.token THEN NoRow ELSE session[t]]
  /\ excused' = [excused EXCEPT ![j.user] = FALSE]
  /\ job' = [job EXCEPT ![p] = Idle]
  /\ UNCHANGED <<status, pw, minted, now>>

(* DELETE FROM sessions WHERE user_id. *)
RevokeSessions(p) ==
  LET j == job[p] IN
  /\ j.at = "updated"
  /\ session' = [t \in Tokens |-> IF session[t].user = j.user THEN NoRow ELSE session[t]]
  /\ excused' = [excused EXCEPT ![j.user] = FALSE]
  /\ job' = [job EXCEPT ![p] = Idle]
  /\ UNCHANGED <<status, pw, minted, now>>

-----------------------------------------------------------------------------
(* Everything else that touches the rows *)

CutShort(p) == job[p].at = "updated"

(* A refusal, a failed statement or a cancelled request ends the operation;  *)
(* between UPDATE and DELETE it leaves the old sessions in place.            *)
Cancel(p) ==
  /\ job[p] # Idle
  /\ excused' = [u \in Users |-> excused[u] \/ (CutShort(p) /\ job[p].user = u)]
  /\ job' = [job EXCEPT ![p] = Idle]
  /\ UNCHANGED <<status, pw, session, minted, now>>

(* The server dies and starts again, all its requests with it; with          *)
(* PHS_ADMIN_PASSWORD_RESET, EnsureAdmin writes a new password for the owner *)
(* (here any account) and leaves the sessions alone.                         *)
Restart(reset) ==
  /\ \A u \in reset : status[u] = "live" /\ pw[u] < MaxEpoch
  /\ pw' = [u \in Users |-> IF u \in reset THEN pw[u] + 1 ELSE pw[u]]
  /\ excused' = [u \in Users |-> excused[u] \/ u \in reset
                                 \/ \E p \in Procs : CutShort(p) /\ job[p].user = u]
  /\ job' = [p \in Procs |-> Idle]
  /\ UNCHANGED <<status, session, minted, now>>

(* Mutant: sessions without ON DELETE CASCADE. *)
DeleteUserOnly(u) ==
  /\ status[u] = "live"
  /\ status' = [status EXCEPT ![u] = "gone"]
  /\ UNCHANGED <<pw, session, minted, now, job, excused>>

DeleteUser(u) ==
  /\ status[u] = "live"
  /\ status' = [status EXCEPT ![u] = "gone"]
  /\ session' = [t \in Tokens |-> IF session[t].user = u THEN NoRow ELSE session[t]]
  /\ UNCHANGED <<pw, minted, now, job, excused>>

(* Mutant: the boundary of the purge is off by one. *)
PurgeEarly ==
  /\ session' = [t \in Tokens |-> IF session[t].exp <= now + 1 THEN NoRow ELSE session[t]]
  /\ session' # session
  /\ UNCHANGED <<status, pw, minted, now, job, excused>>

(* PurgeExpiredSessions, every ten minutes from Maintain. *)
PurgeExpiredSessions ==
  /\ session' = [t \in Tokens |-> IF session[t].exp <= now THEN NoRow ELSE session[t]]
  /\ session' # session
  /\ UNCHANGED <<status, pw, minted, now, job, excused>>

Tick ==
  /\ now < MaxTime
  /\ now' = now + 1
  /\ UNCHANGED <<status, pw, session, minted, job, excused>>

Progress(p) ==
  \/ \E u \in Users : Login(p, u) \/ Register(p, u) \/ BeginReset(p, u)
  \/ \E t \in Tokens : BeginLogout(p, t) \/ BeginChange(p, t)
  \/ CreateSession(p)
  \/ DeleteSession(p)
  \/ CheckCurrent(p)
  \/ UpdatePassword(p)
  \/ RevokeSessions(p)

Environment ==
  \/ \E u \in Users : DeleteUser(u)
  \/ PurgeExpiredSessions
  \/ Tick

Next ==
  \/ \E p \in Procs : Progress(p) \/ Cancel(p)
  \/ \E reset \in {{}} \cup {{u} : u \in Users} : Restart(reset)
  \/ Environment

Spec == Init /\ [][Next]_vars

(* The same system when nothing fails and passwords are changed only by      *)
(* their owners: accounts that exist, logins, handleChangePassword and time. *)
Calm(p) ==
  \/ \E u \in Users : Login(p, u)
  \/ \E t \in Tokens : BeginChange(p, t)
  \/ CreateSession(p)
  \/ CheckCurrent(p)
  \/ UpdatePassword(p)
  \/ RevokeSessions(p)

CalmSpec ==
  /\ Init /\ status = [u \in Users |-> "live"]
  /\ [][(\E p \in Procs : Calm(p)) \/ PurgeExpiredSessions \/ Tick]_vars

-----------------------------------------------------------------------------
(* Properties *)

(* Types, and the foreign key: a session row always belongs to an account    *)
(* that exists, even when the account is deleted between the two statements  *)
(* of a login.                                                               *)
TypeOK ==
  /\ status \in [Users -> {"new", "live", "gone"}]
  /\ pw \in [Users -> Nat]
  /\ session \in [Tokens -> Row \cup {NoRow}]
  /\ minted \in 0..MaxToken
  /\ now \in Nat
  /\ job \in [Procs -> Job]
  /\ excused \in [Users -> BOOLEAN]
  /\ \A t \in Tokens : session[t] # NoRow => status[session[t].user] = "live"

(* A session opened under an earlier password is gone once the change or     *)
(* reset has run to its end.  It outlives it only if the DELETE is still to  *)
(* come, or in three ways: the operation was cut short after its UPDATE, the *)
(* login had authenticated before the UPDATE and inserted its row after the  *)
(* DELETE, or the new password came from the start-up reset.                 *)
OldSessionsEnd ==
  \A t \in Tokens :
    LET r == session[t] IN
    r # NoRow /\ r.epoch # pw[r.user] =>
      excused[r.user] \/ \E p \in Procs : job[p].at = "updated" /\ job[p].user = r.user

(* A session that UserBySession would accept is removed only by its own      *)
(* logout, a password change or reset of its account, or the deletion of the *)
(* account: the purge and the validity test split time at the same instant.  *)
OnlyRevokedEnds ==
  [][\A t \in Tokens :
       Valid(t) /\ session'[t] = NoRow =>
         \/ \E p \in Procs : job[p].at = "leaving" /\ job[p].token = t
         \/ \E p \in Procs : job[p].at = "updated" /\ job[p].user = session[t].user
         \/ status'[session[t].user] = "gone"]_vars

(* auth.go, of ChangePassword: "A password change invalidates every other    *)
(* session": with no request in flight, every accepted session was opened    *)
(* with the password that is stored now.                                     *)
PasswordChangeRevokes ==
  (\A p \in Procs : job[p] = Idle) =>
    \A t \in Tokens : Valid(t) => session[t].epoch = pw[session[t].user]
=============================================================================
