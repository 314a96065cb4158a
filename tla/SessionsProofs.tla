--------------------------- MODULE SessionsProofs ---------------------------
(***************************************************************************)
(* Sessions for any number of accounts, processes and tokens: the foreign  *)
(* key, and the exact circumstances in which a session can outlive the     *)
(* password it was opened with.                                            *)
(***************************************************************************)
EXTENDS Sessions, TLAPS

(* What a job in flight refers to. *)
JobsOK ==
  \A p \in Procs :
    /\ job[p].at \in {"authed", "admitted", "found", "updated"} => job[p].user \in Users
    /\ job[p].at = "leaving" => job[p].token \in Tokens

IInv == TypeOK /\ JobsOK /\ OldSessionsEnd

USE SessionAssumption

LEMMA Rows == NoRow \notin Row /\ Idle \in Job /\ NoRow.user \notin Users
  BY DEF NoRow, Row, Idle, Job, Stages

LEMMA InitIInv == Init => IInv
<1> SUFFICES ASSUME Init PROVE IInv
  OBVIOUS
<1>1. \A t \in Tokens : session[t] = NoRow
  BY DEF Init
<1>2. \A p \in Procs : job[p] = Idle
  BY DEF Init
<1>3. session \in [Tokens -> Row \cup {NoRow}] /\ job \in [Procs -> Job]
  BY Rows DEF Init
<1>4. status \in [Users -> {"new", "live", "gone"}] /\ excused \in [Users -> BOOLEAN]
  BY DEF Init
<1>5. pw \in [Users -> Nat] /\ minted \in 0..MaxToken /\ now \in Nat
  BY DEF Init
<1>6. TypeOK
  BY <1>1, <1>3, <1>4, <1>5 DEF TypeOK
<1>7. JobsOK /\ OldSessionsEnd
  BY <1>1, <1>2 DEF JobsOK, OldSessionsEnd, Idle
<1> QED
  BY <1>6, <1>7 DEF IInv

(* A step that moves one job, not away from "updated", and no row.           *)
LEMMA MoveStep ==
  ASSUME IInv, NEW p \in Procs, NEW v \in Job, job[p].at # "updated",
         job' = [job EXCEPT ![p] = v],
         v.at \in {"authed", "admitted", "found", "updated"} => v.user \in Users,
         v.at = "leaving" => v.token \in Tokens,
         UNCHANGED <<status, pw, session, minted, now, excused>>
  PROVE  IInv'
<1>1. job' \in [Procs -> Job] /\ \A q \in Procs : job'[q] = IF q = p THEN v ELSE job[q]
  BY DEF IInv, TypeOK
<1>2. TypeOK' /\ JobsOK'
  BY <1>1 DEF IInv, TypeOK, JobsOK
<1>3. OldSessionsEnd'
  BY <1>1 DEF IInv, OldSessionsEnd
<1> QED
  BY <1>2, <1>3 DEF IInv

LEMMA AccountSteps ==
  ASSUME IInv, NEW p \in Procs, NEW u \in Users, Login(p, u) \/ BeginReset(p, u)
  PROVE  IInv'
<1>1. pw[u] \in Nat /\ 0 \in 0..MaxToken
  BY DEF IInv, TypeOK
<1>2. job[p] = Idle => job[p].at # "updated"
  BY DEF Idle
<1>3. CASE Login(p, u)
  <2> DEFINE v == [at |-> "authed", user |-> u, epoch |-> pw[u], token |-> 0]
  <2>1. v \in Job
    BY <1>1 DEF Job, Stages
  <2> QED
    BY <1>2, <1>3, <2>1, MoveStep DEF Login, Do
<1>4. CASE BeginReset(p, u)
  <2> DEFINE v == [at |-> "found", user |-> u, epoch |-> pw[u], token |-> 0]
  <2>1. v \in Job
    BY <1>1 DEF Job, Stages
  <2> QED
    BY <1>2, <1>4, <2>1, MoveStep DEF BeginReset, Do
<1> QED
  BY <1>3, <1>4

LEMMA TokenSteps ==
  ASSUME IInv, NEW p \in Procs, NEW t \in Tokens, BeginLogout(p, t) \/ BeginChange(p, t)
  PROVE  IInv'
<1>1. t \in 0..MaxToken
  BY DEF Tokens
<1>2. job[p] = Idle => job[p].at # "updated"
  BY DEF Idle
<1>5. CASE BeginLogout(p, t)
  <2> DEFINE v == [at |-> "leaving", user |-> NoUser, epoch |-> 0, token |-> t]
  <2>1. v \in Job
    BY <1>1 DEF Job, Stages
  <2> QED
    BY <1>2, <1>5, <2>1, MoveStep DEF BeginLogout, Do
<1>6. CASE BeginChange(p, t)
  <2> DEFINE v == [at |-> "admitted", user |-> session[t].user, epoch |-> 0, token |-> t]
  <2>1. session[t].user \in Users
    BY <1>6 DEF BeginChange, Valid, IInv, TypeOK, Row
  <2>2. v \in Job
    BY <1>1, <2>1 DEF Job, Stages
  <2> QED
    BY <1>2, <1>6, <2>1, <2>2, MoveStep DEF BeginChange, Do
<1> QED
  BY <1>5, <1>6

LEMMA CheckCurrentStep ==
  ASSUME IInv, NEW p \in Procs, CheckCurrent(p)
  PROVE  IInv'
<1> DEFINE x == job[p].user
           v == [at |-> "found", user |-> x, epoch |-> pw[x], token |-> job[p].token]
<1>1. x \in Users /\ job[p] \in Job /\ job[p].at = "admitted"
  BY DEF CheckCurrent, IInv, JobsOK, TypeOK
<1>2. v \in Job
  BY <1>1 DEF Job, Stages, IInv, TypeOK
<1> QED
  BY <1>1, <1>2, MoveStep DEF CheckCurrent, Do

LEMMA RegisterStep ==
  ASSUME IInv, NEW p \in Procs, NEW u \in Users, Register(p, u)
  PROVE  IInv'
<1> DEFINE v == [at |-> "authed", user |-> u, epoch |-> pw[u], token |-> 0]
<1>1. v \in Job
  BY DEF Job, Stages, IInv, TypeOK
<1>2. job' \in [Procs -> Job] /\ \A q \in Procs : job'[q] = IF q = p THEN v ELSE job[q]
  BY <1>1 DEF IInv, TypeOK, Register, Do
<1>3. status' \in [Users -> {"new", "live", "gone"}]
      /\ \A x \in Users : status[x] = "live" => status'[x] = "live"
  BY DEF IInv, TypeOK, Register
<1>4. UNCHANGED <<pw, session, minted, now, excused>> /\ job[p].at = "idle"
  BY DEF Register, Idle
<1>5. TypeOK'
  BY <1>2, <1>3, <1>4, Rows DEF IInv, TypeOK, Row
<1>6. JobsOK' /\ OldSessionsEnd'
  BY <1>2, <1>4 DEF IInv, JobsOK, OldSessionsEnd
<1> QED
  BY <1>5, <1>6 DEF IInv

LEMMA CreateSessionStep ==
  ASSUME IInv, NEW p \in Procs, CreateSession(p)
  PROVE  IInv'
<1> DEFINE j == job[p]
<1>1. j.user \in Users /\ j \in Job /\ j.at = "authed"
  BY DEF CreateSession, IInv, TypeOK, JobsOK
<1>2. /\ job' \in [Procs -> Job]
      /\ \A q \in Procs : job'[q] = IF q = p THEN Idle ELSE job[q]
  BY Rows DEF IInv, TypeOK, CreateSession
<1>3. UNCHANGED <<status, pw, now>>
  BY DEF CreateSession
<1>4. JobsOK'
  BY <1>2 DEF IInv, JobsOK, Idle
<1>5. CASE status[j.user] = "live"
  <2> DEFINE k == minted + 1
             r == [user |-> j.user, exp |-> now + TTL, epoch |-> j.epoch]
  <2>1. /\ minted < MaxToken /\ minted' = k /\ session' = [session EXCEPT ![k] = r]
        /\ excused' = [excused EXCEPT ![j.user] = excused[j.user] \/ j.epoch # pw[j.user]]
    BY <1>5 DEF CreateSession
  <2>2. k \in Tokens /\ k \in 0..MaxToken
    BY <2>1 DEF IInv, TypeOK, Tokens
  <2>3. r \in Row
    BY <1>1 DEF Row, Job, IInv, TypeOK
  <2>4. session' \in [Tokens -> Row \cup {NoRow}]
        /\ \A t \in Tokens : session'[t] = IF t = k THEN r ELSE session[t]
    BY <2>1, <2>2, <2>3 DEF IInv, TypeOK
  <2>5. /\ excused' \in [Users -> BOOLEAN]
        /\ \A u \in Users : excused[u] => excused'[u]
        /\ j.epoch # pw[j.user] => excused'[j.user]
    BY <1>1, <2>1 DEF IInv, TypeOK
  <2>6. TypeOK'
    BY <1>2, <1>3, <1>5, <2>1, <2>2, <2>4, <2>5 DEF IInv, TypeOK
  <2>7. OldSessionsEnd'
    <3> SUFFICES ASSUME NEW t \in Tokens, session'[t] # NoRow,
                        session'[t].epoch # pw[session'[t].user]
                 PROVE  \/ excused'[session'[t].user]
                        \/ \E q \in Procs : job'[q].at = "updated" /\ job'[q].user = session'[t].user
      BY <1>3 DEF OldSessionsEnd
    <3>1. CASE t = k
      BY <2>4, <2>5, <3>1
    <3>2. CASE t # k
      <4>1. session[t].user \in Users
        BY <2>4, <3>2 DEF IInv, TypeOK, Row
      <4> QED
        BY <1>1, <1>2, <2>4, <2>5, <3>2, <4>1 DEF IInv, OldSessionsEnd
    <3> QED
      BY <3>1, <3>2
  <2> QED
    BY <1>4, <2>6, <2>7 DEF IInv
<1>6. CASE status[j.user] # "live"
  <2>1. UNCHANGED <<minted, session, excused>>
    BY <1>6 DEF CreateSession
  <2>2. TypeOK' /\ OldSessionsEnd'
    BY <1>1, <1>2, <1>3, <2>1 DEF IInv, TypeOK, OldSessionsEnd
  <2> QED
    BY <1>4, <2>2 DEF IInv
<1> QED
  BY <1>5, <1>6

LEMMA DeleteSessionStep ==
  ASSUME IInv, NEW p \in Procs, DeleteSession(p)
  PROVE  IInv'
<1>1. /\ job' \in [Procs -> Job] /\ job[p].at = "leaving"
      /\ \A q \in Procs : job'[q] = IF q = p THEN Idle ELSE job[q]
  BY Rows DEF IInv, TypeOK, DeleteSession
<1>2. /\ session' = [session EXCEPT ![job[p].token] = NoRow]
      /\ UNCHANGED <<status, pw, minted, now, excused>>
  BY DEF DeleteSession
<1>3. session' \in [Tokens -> Row \cup {NoRow}]
      /\ \A t \in Tokens : session'[t] # NoRow => session'[t] = session[t]
  BY <1>2 DEF IInv, TypeOK
<1>4. TypeOK'
  BY <1>1, <1>2, <1>3 DEF IInv, TypeOK
<1>5. JobsOK'
  BY <1>1 DEF IInv, JobsOK, Idle
<1>6. OldSessionsEnd'
  BY <1>1, <1>2, <1>3 DEF IInv, OldSessionsEnd
<1> QED
  BY <1>4, <1>5, <1>6 DEF IInv

LEMMA UpdatePasswordStep ==
  ASSUME IInv, NEW p \in Procs, UpdatePassword(p)
  PROVE  IInv'
<1> DEFINE j == job[p]
           v == [at |-> "updated", user |-> j.user, epoch |-> j.epoch, token |-> j.token]
<1>1. j \in Job /\ j.user \in Users /\ j.at = "found"
  BY DEF UpdatePassword, IInv, TypeOK, JobsOK
<1>2. v \in Job
  BY <1>1 DEF Job, Stages
<1>3. job' \in [Procs -> Job] /\ \A q \in Procs : job'[q] = IF q = p THEN v ELSE job[q]
  BY <1>2 DEF IInv, TypeOK, UpdatePassword, Do
<1>4. UNCHANGED <<status, session, minted, now, excused>>
  BY DEF UpdatePassword
<1>5. pw' \in [Users -> Nat] /\ \A u \in Users : u # j.user => pw'[u] = pw[u]
  BY <1>1 DEF UpdatePassword, IInv, TypeOK
<1>6. TypeOK'
  BY <1>3, <1>4, <1>5 DEF IInv, TypeOK
<1>7. JobsOK'
  BY <1>1, <1>3 DEF IInv, JobsOK
<1>8. OldSessionsEnd'
  <2> SUFFICES ASSUME NEW t \in Tokens, session[t] # NoRow,
                      session[t].epoch # pw'[session[t].user], ~excused[session[t].user]
               PROVE  \E q \in Procs : job'[q].at = "updated" /\ job'[q].user = session[t].user
    BY <1>4 DEF OldSessionsEnd
  <2>1. CASE session[t].user = j.user
    BY <1>3, <2>1
  <2>2. CASE session[t].user # j.user
    <3>1. session[t].user \in Users
      BY DEF IInv, TypeOK, Row
    <3>2. PICK q \in Procs : job[q].at = "updated" /\ job[q].user = session[t].user
      BY <1>5, <2>2, <3>1 DEF IInv, OldSessionsEnd
    <3> QED
      BY <1>1, <1>3, <3>2
  <2> QED
    BY <2>1, <2>2
<1> QED
  BY <1>6, <1>7, <1>8 DEF IInv

LEMMA RevokeSessionsStep ==
  ASSUME IInv, NEW p \in Procs, RevokeSessions(p)
  PROVE  IInv'
<1> DEFINE j == job[p]
<1>1. j.user \in Users /\ j.at = "updated"
  BY DEF RevokeSessions, IInv, JobsOK
<1>2. job' \in [Procs -> Job] /\ \A q \in Procs : job'[q] = IF q = p THEN Idle ELSE job[q]
  BY Rows DEF IInv, TypeOK, RevokeSessions
<1>3. /\ session' = [t \in Tokens |-> IF session[t].user = j.user THEN NoRow ELSE session[t]]
      /\ excused' = [excused EXCEPT ![j.user] = FALSE]
      /\ UNCHANGED <<status, pw, minted, now>>
  BY DEF RevokeSessions
<1>4. /\ session' \in [Tokens -> Row \cup {NoRow}]
      /\ \A t \in Tokens : session'[t] # NoRow =>
           session'[t] = session[t] /\ session[t].user # j.user
  BY <1>3 DEF IInv, TypeOK
<1>5. excused' \in [Users -> BOOLEAN] /\ \A u \in Users : u # j.user => excused'[u] = excused[u]
  BY <1>1, <1>3 DEF IInv, TypeOK
<1>6. TypeOK'
  BY <1>2, <1>3, <1>4, <1>5 DEF IInv, TypeOK
<1>7. JobsOK'
  BY <1>2 DEF IInv, JobsOK, Idle
<1>8. OldSessionsEnd'
  <2> SUFFICES ASSUME NEW t \in Tokens, session'[t] # NoRow,
                      session'[t].epoch # pw[session'[t].user], ~excused'[session'[t].user]
               PROVE  \E q \in Procs : job'[q].at = "updated" /\ job'[q].user = session'[t].user
    BY <1>3 DEF OldSessionsEnd
  <2>1. session'[t] = session[t] /\ session[t].user # j.user /\ session[t] \in Row
    BY <1>4 DEF IInv, TypeOK
  <2>2. ~excused[session[t].user]
    BY <1>5, <2>1 DEF Row
  <2>3. PICK q \in Procs : job[q].at = "updated" /\ job[q].user = session[t].user
    BY <2>1, <2>2 DEF IInv, OldSessionsEnd
  <2> QED
    BY <1>2, <2>1, <2>3
<1> QED
  BY <1>6, <1>7, <1>8 DEF IInv

LEMMA CancelStep ==
  ASSUME IInv, NEW p \in Procs, Cancel(p)
  PROVE  IInv'
<1>1. job' \in [Procs -> Job] /\ \A q \in Procs : job'[q] = IF q = p THEN Idle ELSE job[q]
  BY Rows DEF IInv, TypeOK, Cancel
<1>2. /\ excused' = [u \in Users |-> excused[u] \/ (CutShort(p) /\ job[p].user = u)]
      /\ UNCHANGED <<status, pw, session, minted, now>>
  BY DEF Cancel
<1>3. /\ excused' \in [Users -> BOOLEAN]
      /\ \A u \in Users : excused[u] \/ (job[p].at = "updated" /\ job[p].user = u) => excused'[u]
  BY <1>2 DEF IInv, TypeOK, CutShort
<1>4. TypeOK'
  BY <1>1, <1>2, <1>3 DEF IInv, TypeOK
<1>5. JobsOK'
  BY <1>1 DEF IInv, JobsOK, Idle
<1>6. OldSessionsEnd'
  <2> SUFFICES ASSUME NEW t \in Tokens, session[t] # NoRow,
                      session[t].epoch # pw[session[t].user], ~excused'[session[t].user]
               PROVE  \E q \in Procs : job'[q].at = "updated" /\ job'[q].user = session[t].user
    BY <1>2 DEF OldSessionsEnd
  <2>1. session[t].user \in Users
    BY DEF IInv, TypeOK, Row
  <2>2. PICK q \in Procs : job[q].at = "updated" /\ job[q].user = session[t].user
    BY <1>3, <2>1 DEF IInv, OldSessionsEnd
  <2> QED
    BY <1>1, <1>3, <2>1, <2>2
<1> QED
  BY <1>4, <1>5, <1>6 DEF IInv

LEMMA RestartStep ==
  ASSUME IInv, NEW reset \in SUBSET Users, Restart(reset)
  PROVE  IInv'
<1>1. job' \in [Procs -> Job] /\ \A q \in Procs : job'[q] = Idle
  BY Rows DEF Restart
<1>2. UNCHANGED <<status, session, minted, now>>
  BY DEF Restart
<1>3. pw' \in [Users -> Nat] /\ \A u \in Users : u \notin reset => pw'[u] = pw[u]
  BY DEF Restart, IInv, TypeOK
<1>4. excused' \in [Users -> BOOLEAN]
  BY DEF Restart, IInv, TypeOK
<1>5. ASSUME NEW u \in Users,
             \/ excused[u] \/ u \in reset
             \/ \E p \in Procs : job[p].at = "updated" /\ job[p].user = u
      PROVE  excused'[u]
  BY <1>5 DEF Restart, CutShort
<1>6. TypeOK'
  BY <1>1, <1>2, <1>3, <1>4 DEF IInv, TypeOK
<1>7. JobsOK'
  BY <1>1 DEF JobsOK, Idle
<1>8. OldSessionsEnd'
  <2> SUFFICES ASSUME NEW t \in Tokens, session[t] # NoRow,
                      session[t].epoch # pw'[session[t].user]
               PROVE  excused'[session[t].user]
    BY <1>2 DEF OldSessionsEnd
  <2>1. session[t].user \in Users
    BY DEF IInv, TypeOK, Row
  <2> QED
    BY <1>3, <1>5, <2>1 DEF IInv, OldSessionsEnd
<1> QED
  BY <1>6, <1>7, <1>8 DEF IInv

LEMMA EnvironmentStep ==
  ASSUME IInv, Environment
  PROVE  IInv'
<1>1. UNCHANGED <<pw, minted, job, excused>>
  BY DEF Environment, DeleteUser, PurgeExpiredSessions, Tick
<1>2. /\ session' \in [Tokens -> Row \cup {NoRow}] /\ now' \in Nat
      /\ status' \in [Users -> {"new", "live", "gone"}]
      /\ \A t \in Tokens : session'[t] # NoRow =>
           session'[t] = session[t] /\ status'[session[t].user] = "live"
  <2>1. ASSUME NEW u \in Users, DeleteUser(u) PROVE <1>2
    BY <2>1 DEF DeleteUser, IInv, TypeOK, Row
  <2>2. ASSUME PurgeExpiredSessions PROVE <1>2
    BY <2>2 DEF PurgeExpiredSessions, IInv, TypeOK
  <2>3. ASSUME Tick PROVE <1>2
    BY <2>3 DEF Tick, IInv, TypeOK
  <2> QED
    BY <2>1, <2>2, <2>3 DEF Environment
<1>3. TypeOK'
  BY <1>1, <1>2 DEF IInv, TypeOK
<1>4. JobsOK' /\ OldSessionsEnd'
  BY <1>1, <1>2 DEF IInv, JobsOK, OldSessionsEnd
<1> QED
  BY <1>3, <1>4 DEF IInv

LEMMA NextIInv == IInv /\ [Next]_vars => IInv'
<1> SUFFICES ASSUME IInv, [Next]_vars PROVE IInv'
  OBVIOUS
<1>1. ASSUME NEW p \in Procs, Progress(p) PROVE IInv'
  BY <1>1, AccountSteps, TokenSteps, CheckCurrentStep, RegisterStep, CreateSessionStep,
     DeleteSessionStep, UpdatePasswordStep, RevokeSessionsStep DEF Progress
<1>2. ASSUME NEW p \in Procs, Cancel(p) PROVE IInv'
  BY <1>2, CancelStep
<1>3. ASSUME NEW reset \in {{}} \cup {{u} : u \in Users}, Restart(reset) PROVE IInv'
  BY <1>3, RestartStep
<1>4. CASE UNCHANGED vars
  BY <1>4 DEF vars, IInv, TypeOK, JobsOK, OldSessionsEnd
<1> QED
  BY <1>1, <1>2, <1>3, <1>4, EnvironmentStep DEF Next

-----------------------------------------------------------------------------
(* Theorems *)

(* Every reachable state satisfies the inductive invariant. *)
THEOREM Invariance == Spec => []IInv
  BY InitIInv, NextIInv, PTL DEF Spec

(* Sessions only ever belong to accounts that exist. *)
THEOREM TypeCorrect == Spec => []TypeOK
<1>1. IInv => TypeOK
  BY DEF IInv
<1> QED
  BY <1>1, Invariance, PTL

(* A session outlives its password only while the DELETE is pending, or in   *)
(* one of the three excused ways.                                            *)
THEOREM OldSessions == Spec => []OldSessionsEnd
<1>1. IInv => OldSessionsEnd
  BY DEF IInv
<1> QED
  BY <1>1, Invariance, PTL

(* An accepted session is never removed but by a logout, a password change   *)
(* or reset, or the deletion of its account; in particular not by the purge. *)
THEOREM AcceptedSessionsStay == Spec => OnlyRevokedEnds
<1> DEFINE Ends(t) ==
      \/ \E p \in Procs : job[p].at = "leaving" /\ job[p].token = t
      \/ \E p \in Procs : job[p].at = "updated" /\ job[p].user = session[t].user
      \/ status'[session[t].user] = "gone"
<1>1. IInv /\ [Next]_vars =>
        [\A t \in Tokens : Valid(t) /\ session'[t] = NoRow => Ends(t)]_vars
  <2> SUFFICES ASSUME IInv, Next, NEW t \in Tokens, Valid(t), session'[t] = NoRow
               PROVE  Ends(t)
    OBVIOUS
  <2>1. session[t] \in Row /\ session[t] # NoRow /\ session[t].exp > now /\ session[t].user \in Users
    BY DEF Valid, IInv, TypeOK, Row
  <2>2. session' # session
    BY <2>1
  <2>3. ASSUME NEW p \in Procs, Progress(p) PROVE Ends(t)
    <3>1. CASE CreateSession(p)
      <4>1. CASE status[job[p].user] = "live"
        <5>1. job[p] \in Job /\ job[p].user \in Users
          BY <3>1 DEF CreateSession, IInv, TypeOK, JobsOK
        <5>2. [user |-> job[p].user, exp |-> now + TTL, epoch |-> job[p].epoch] # NoRow
          BY <5>1, Rows DEF NoRow
        <5> QED
          BY <2>1, <3>1, <4>1, <5>2 DEF CreateSession, IInv, TypeOK
      <4> QED
        BY <2>2, <3>1, <4>1 DEF CreateSession
    <3>2. CASE DeleteSession(p)
      BY <2>1, <3>2 DEF DeleteSession, IInv, TypeOK
    <3>3. CASE RevokeSessions(p)
      BY <2>1, <3>3 DEF RevokeSessions
    <3> QED
      BY <2>2, <2>3, <3>1, <3>2, <3>3 DEF Progress, Login, Register, BeginReset, BeginLogout,
         BeginChange, CheckCurrent, UpdatePassword
  <2>4. ASSUME Environment PROVE Ends(t)
    <3>1. ASSUME NEW u \in Users, DeleteUser(u) PROVE Ends(t)
      BY <2>1, <3>1 DEF DeleteUser, IInv, TypeOK
    <3>2. ~PurgeExpiredSessions
      BY <2>1 DEF PurgeExpiredSessions, Row, IInv, TypeOK
    <3> QED
      BY <2>2, <2>4, <3>1, <3>2 DEF Environment, Tick
  <2> QED
    BY <2>2, <2>3, <2>4 DEF Next, Cancel, Restart
<1> QED
  BY <1>1, Invariance, PTL DEF Spec, OnlyRevokedEnds
=============================================================================
