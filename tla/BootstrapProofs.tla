-------------------------- MODULE BootstrapProofs --------------------------
(***************************************************************************)
(* Theorems about Bootstrap.  None of the properties is inductive alone:   *)
(* what a process may rely on at its stage (InOrder, Claims), what an      *)
(* older version's rows look like (Older), how accounts came to be and     *)
(* which handles they can have (Origins) and who the links went to         *)
(* (Adopted) are added to them.                                            *)
(***************************************************************************)
EXTENDS Bootstrap, TLAPS

Opened == Stages \ {"off", "check", "apply"}

(* Stages, commands and the version they presuppose. *)
InOrder ==
  /\ \A p \in Procs : job[p].at \in Opened => version = Latest
  /\ \A p \in Procs : job[p].at = "apply" => job[p].k <= version + 1
  /\ \A c \in Clis : job[c].at \in {"off", "check", "apply", "reading", "writing"}
  /\ \A p \in Procs : job[p].cmd # "-" => job[p].name \in Names
  /\ \A c \in Clis : job[c].at = "writing" /\ job[c].cmd = "set-owner" => job[c].uid \in Live

(* An older version has only the accounts of the upgraded installation, and  *)
(* none of what a later migration adds.                                      *)
Older ==
  /\ version < Latest => (\A i \in Live : origin[i] = "upgrade") /\ seeded = 0 /\ ~torn
  /\ version < 6 => \A i \in Ids : handle[i] = NoName
  /\ version < 4 => Owners = {} /\ page = 0
  /\ version = 6 /\ page # 0 => handle[page] = Legacy

(* How the accounts came to be; there is one first account at most, since    *)
(* its name stays in use.                                                    *)
Origins ==
  /\ \A i \in Ids : origin[i] = "none" <=> i \notin Live
  /\ \A i \in Live : origin[i] = "start" => name[i] = Root
  /\ \A i \in Live : origin[i] # "cli" => handle[i] \in {NoName, Legacy}
  /\ \A s \in Servers : job[s].at \in Claiming \cup {"insert"} =>
       \A i \in Live : origin[i] # "upgrade"

(* A claimant works for the first account and has done what precedes its     *)
(* stage.                                                                    *)
ClaimOK(s) ==
  LET j == job[s] IN
  /\ j.at \in Claiming => j.uid \in Live /\ origin[j.uid] = "start"
  /\ j.at = "page" /\ page = 0 /\ ~crossed => Owners \subseteq {j.uid}
  /\ j.at \in {"profile", "links"} => page # 0
  /\ j.at = "links" => \E i \in Live : handle[i] = Legacy /\ (i = j.uid \/ origin[i] = "cli")

Claims == \A s \in Servers : ClaimOK(s)

(* The links go to an account that has the shipped profile, or lost its      *)
(* handle to an account of the command line.                                 *)
Adopted ==
  /\ seeded # 0 => \/ handle[seeded] = Legacy
                   \/ \E i \in Live : origin[i] = "cli" /\ handle[i] = Legacy
  /\ version = Latest /\ Live # {} /\ origin[First] = "upgrade" => seeded # 0
  /\ Live # {} /\ origin[First] = "start" => torn \/ Claimants # {} \/ seeded # 0

Secrets ==
  /\ OneSecret
  /\ \A s \in Servers : job[s].at = "reread" => secret # NoSecret

IInv ==
  /\ TypeOK
  /\ InOrder
  /\ Older
  /\ Origins
  /\ Claims
  /\ Adopted
  /\ Secrets
  /\ OwnerUnlessCliFirst
  /\ OwnersPage
  /\ PageHeld
  /\ ProfilesComplete

LEMMA Constants ==
  /\ MaxId \in Nat /\ MaxId > 0 /\ MaxDeaths \in Nat
  /\ Root \in Names /\ Legacy \in Names /\ NoName \notin Names
  /\ Servers \cap Clis = {} /\ NoSecret \notin Servers
  /\ OldVersions \subseteq {3, 5}
BY ProcAssumption, NameAssumption, VersionAssumption, BoundAssumption

-----------------------------------------------------------------------------
(* Initial states *)

LEMMA InitIInv == Init => IInv
<1> SUFFICES ASSUME Init PROVE IInv
  OBVIOUS
<1>1. PICK v \in {0, 3, 5}, n \in 0..MaxId, o \in 0..MaxId :
        /\ Old(v, n, o)
        /\ v = 0 => n = 0 /\ o = 0
        /\ v # 0 => o \in 1..n
  <2>1. CASE Old(0, 0, 0)
    BY <2>1, Constants
  <2>2. CASE \E v \in OldVersions, n \in Ids : \E o \in 1..n : Old(v, n, o)
    BY <2>2, Constants DEF Ids
  <2> QED BY <2>1, <2>2 DEF Init
<1>2. /\ version = v /\ seq = n /\ handle = [i \in Ids |-> NoName] /\ seeded = 0
      /\ secret = NoSecret /\ job = [p \in Procs |-> Off] /\ deaths = 0
      /\ mishaps = {}
      /\ role = [i \in Ids |-> IF i > n THEN "none"
                                ELSE IF v >= 4 /\ i = o THEN "owner" ELSE "admin"]
      /\ page = IF v >= 4 THEN o ELSE 0
      /\ origin = [i \in Ids |-> IF i > n THEN "none" ELSE "upgrade"]
  BY <1>1 DEF Init, Old
<1>3. TypeOK
  <2>1. Off \in Job
    BY Constants DEF Off, Process, Job, Stages, Modes, Latest
  <2>2. /\ \A i \in Ids : name[i] = NoName <=> i \notin Live
        /\ \A i, k \in Live : name[i] = name[k] => i = k
        /\ name \in [Ids -> Names \cup {NoName}]
    BY DEF Init
  <2>9. version \in 0..Latest
    BY <1>1, <1>2 DEF Latest
  <2>10. page \in 0..MaxId /\ seeded \in 0..MaxId
    BY <1>1, <1>2, Constants
  <2>3. /\ seq \in 0..MaxId
        /\ secret \in Servers \cup {NoSecret} /\ deaths \in 0..MaxDeaths
        /\ mishaps \subseteq {"torn", "crossed"}
    BY <1>1, <1>2, Constants
  <2>8. {page, seeded} \subseteq Live \cup {0}
    BY <1>1, <1>2, Constants DEF Live
  <2>4. /\ role \in [Ids -> {"none", "owner", "admin"}]
        /\ handle \in [Ids -> Names \cup {NoName}]
        /\ origin \in [Ids -> {"none", "upgrade", "start", "cli"}]
        /\ \A i \in Ids : role[i] = "none" <=> i \notin Live
        /\ \A i \in Ids : handle[i] = NoName
    BY <1>1, <1>2, Constants DEF Live, Ids
  <2>5. job \in [Procs -> Job]
    BY <1>2, <2>1
  <2>6. \A i, k \in Ids : handle[i] = handle[k] => i = k \/ handle[i] = NoName
    BY <2>4
  <2>7. \A i \in Ids : handle[i] # NoName => i \in Live
    BY <2>4
  <2> QED BY <2>2, <2>3, <2>4, <2>5, <2>6, <2>7, <2>8, <2>9, <2>10 DEF TypeOK
<1>4. \A p \in Procs : job[p].at = "off" /\ job[p].cmd = "-"
  BY <1>2 DEF Off, Process
<1>5. InOrder
  BY <1>4 DEF InOrder, Opened, Procs
<1>6. Older /\ Origins
  BY <1>1, <1>2, <1>4, Constants DEF Older, Origins, Owners, Live, Ids, Latest, Claiming, Procs, torn, crossed
<1>7. Claims /\ Adopted /\ Secrets
  BY <1>1, <1>2, <1>4, Constants
     DEF Claims, ClaimOK, Adopted, Secrets, OneSecret, Claiming, Live, Ids, First, Latest, Procs, torn, crossed
<1>8. Owners \subseteq {o} /\ (version >= 4 /\ seq > 0 => o \in Owners /\ page = o /\ o # 0)
  BY <1>1, <1>2, Constants DEF Owners, Ids
<1>9. OwnerUnlessCliFirst /\ OwnersPage /\ PageHeld /\ ProfilesComplete
  <2>1. version < 6 /\ version \in Nat /\ seq \in Nat
    BY <1>1, <1>2, Constants
  <2>2. \A i \in Owners : version >= 4 /\ seq > 0
    BY <1>1, <1>2, Constants DEF Owners, Ids
  <2> QED BY <1>8, <2>1, <2>2, Constants
     DEF OwnerUnlessCliFirst, OwnersPage, PageHeld, ProfilesComplete, Live, torn, crossed
<1> QED BY <1>3, <1>5, <1>6, <1>7, <1>9 DEF IInv

-----------------------------------------------------------------------------
(* Steps of one process *)

(* A step that changes no row and neither begins nor ends a claim, to a      *)
(* stage whose presuppositions hold.                                         *)
LEMMA QuietStep ==
  ASSUME IInv, NEW p \in Procs,
         UNCHANGED <<rows, past>>, deaths' \in 0..MaxDeaths,
         job' \in [Procs -> Job], \A q \in Procs \ {p} : job'[q] = job[q],
         p \in Servers => job[p].at \notin Claiming,
         job'[p].at \notin Claiming,
         job'[p].at \in Opened => version = Latest,
         job'[p].at = "apply" => job'[p].k <= version + 1,
         p \in Clis => job'[p].at \in {"off", "check", "apply", "reading", "writing"},
         job'[p].cmd # "-" => job'[p].name \in Names,
         p \in Clis /\ job'[p].at = "writing" /\ job'[p].cmd = "set-owner" =>
           job'[p].uid \in Live,
         p \in Servers /\ job'[p].at = "insert" => \A i \in Live : origin[i] # "upgrade",
         p \in Servers /\ job'[p].at = "reread" => secret # NoSecret,
         p \in Servers /\ job'[p].at = "serving" => job'[p].held = secret /\ secret # NoSecret
  PROVE  IInv'
<1>0. /\ UNCHANGED <<version, seq, role, name, handle, page, seeded, secret>>
      /\ UNCHANGED <<origin, mishaps>>
  BY DEF rows, past
<1>1. TypeOK'
  <2>1. TypeOK
    BY DEF IInv
  <2>2. job' \in [Procs -> Job] /\ deaths' \in 0..MaxDeaths
    OBVIOUS
  <2> QED BY <1>0, <2>1, <2>2 DEF TypeOK, Live
<1>2. InOrder'
  BY <1>0 DEF IInv, InOrder, Live, Procs
<1>3. Older'
  BY <1>0 DEF IInv, Older, Live, Owners, torn, crossed
<1>4. Origins'
  BY <1>0 DEF IInv, Origins, Live, Procs
<1>5. Claims'
  <2> SUFFICES ASSUME NEW s \in Servers PROVE ClaimOK(s)'
    BY DEF Claims
  <2>1. CASE s = p
    BY <2>1 DEF ClaimOK, Claiming
  <2>2. CASE s # p
    <3>1. job'[s] = job[s] /\ ClaimOK(s)
      BY <2>2 DEF IInv, Claims, Procs
    <3> QED BY <1>0, <3>1 DEF ClaimOK, Live, Owners, crossed
  <2> QED BY <2>1, <2>2
<1>6. Claimants' = Claimants
  BY DEF Claimants, Procs
<1>7. Adopted'
  BY <1>0, <1>6 DEF IInv, Adopted, Live, torn, crossed
<1>8. Secrets'
  BY <1>0 DEF IInv, Secrets, OneSecret, Procs
<1>9. OwnerUnlessCliFirst' /\ OwnersPage'
  BY <1>0 DEF IInv, OwnerUnlessCliFirst, OwnersPage, Live, Owners, torn, crossed
<1>10. PageHeld' /\ ProfilesComplete'
  BY <1>0, <1>6 DEF IInv, PageHeld, ProfilesComplete, Live, torn, crossed
<1> QED BY <1>1, <1>2, <1>3, <1>4, <1>5, <1>7, <1>8, <1>9, <1>10 DEF IInv

(* What To and End do to the jobs. *)
LEMMA ToFact ==
  ASSUME TypeOK, NEW p \in Procs, NEW stage \in Stages, To(p, stage)
  PROVE  /\ job' \in [Procs -> Job]
         /\ job'[p] = [job[p] EXCEPT !.at = stage]
         /\ job'[p].at = stage /\ job'[p].uid = job[p].uid /\ job'[p].cmd = job[p].cmd
         /\ job'[p].name = job[p].name /\ job'[p].held = job[p].held
         /\ \A q \in Procs \ {p} : job'[q] = job[q]
BY DEF To, TypeOK, Job

LEMMA EndFact ==
  ASSUME TypeOK, NEW p \in Procs, End(p)
  PROVE  /\ job' \in [Procs -> Job]
         /\ job'[p].at = "off" /\ job'[p].cmd = "-"
         /\ \A q \in Procs \ {p} : job'[q] = job[q]
<1>1. Off \in Job
  BY Constants DEF Off, Process, Job, Stages, Modes, Latest
<1> QED BY <1>1 DEF End, TypeOK, Off, Process

LEMMA EndStep ==
  ASSUME IInv, NEW p \in Procs, End(p), UNCHANGED <<rows, past>>,
         deaths' \in 0..MaxDeaths, p \in Servers => job[p].at \notin Claiming
  PROVE  IInv'
<1>1. TypeOK
  BY DEF IInv
<1> QED BY <1>1, EndFact, QuietStep DEF Opened, Claiming

LEMMA StartStep ==
  ASSUME IInv, NEW s \in Servers, NEW mode \in Modes, Start(s, mode)
  PROVE  IInv'
<1>1. TypeOK /\ s \in Procs
  BY DEF IInv, Procs
<1>2. Process("check", mode, "-", NoName) \in Job
  BY Constants DEF Off, Process, Job, Stages, Modes, Latest
<1>3. /\ job' \in [Procs -> Job] /\ job'[s].at = "check" /\ job'[s].cmd = "-"
      /\ \A q \in Procs \ {s} : job'[q] = job[q]
  BY <1>1, <1>2 DEF Start, TypeOK, Process
<1>4. UNCHANGED <<rows, past>> /\ deaths' \in 0..MaxDeaths /\ s \notin Clis
  BY <1>1, Constants DEF Start, TypeOK
<1>5. /\ job[s].at \notin Claiming /\ job'[s].at \notin Claiming /\ job'[s].at \notin Opened
      /\ job'[s].at \notin {"apply", "insert", "reread", "serving"}
  BY <1>3 DEF Start, Claiming, Opened
<1>6. /\ job'[s].at \in Opened => version = Latest
      /\ job'[s].cmd # "-" => job'[s].name \in Names
      /\ s \in Clis => job'[s].at \in {"off", "check", "apply", "reading", "writing"}
  BY <1>3, <1>4, <1>5
<1> QED BY <1>1, <1>3, <1>4, <1>5, <1>6, QuietStep

LEMMA CommandStep ==
  ASSUME IInv, NEW c \in Clis, NEW cmd \in {"create", "set-owner"}, NEW n \in Names,
         Command(c, cmd, n)
  PROVE  IInv'
<1>1. TypeOK /\ c \in Procs
  BY DEF IInv, Procs
<1>2. Process("check", "normal", cmd, n) \in Job
  BY Constants DEF Off, Process, Job, Stages, Modes, Latest
<1>3. /\ job' \in [Procs -> Job] /\ job'[c].at = "check" /\ job'[c].name = n
      /\ \A q \in Procs \ {c} : job'[q] = job[q]
  BY <1>1, <1>2 DEF Command, TypeOK, Process
<1>4. UNCHANGED <<rows, past>> /\ deaths' \in 0..MaxDeaths /\ c \notin Servers
  BY <1>1, Constants DEF Command, TypeOK
<1>5. /\ job'[c].at \notin Claiming /\ job'[c].at \notin Opened
      /\ job'[c].at \in {"off", "check", "apply", "reading", "writing"} \ {"apply", "writing"}
  BY <1>3 DEF Claiming, Opened
<1> QED BY <1>1, <1>3, <1>4, <1>5, QuietStep

LEMMA CheckStep ==
  ASSUME IInv, NEW p \in Procs, Check(p)
  PROVE  IInv'
<1>1. TypeOK /\ version \in 0..Latest
  BY DEF IInv, TypeOK
<1>2. UNCHANGED <<rows, past>> /\ deaths' \in 0..MaxDeaths /\ job[p].at \notin Claiming
  BY <1>1 DEF Check, TypeOK, Claiming
<1>3. job[p] \in Job /\ (job[p].cmd # "-" => job[p].name \in Names)
  BY <1>1 DEF TypeOK, IInv, InOrder
<1>4. CASE version < Latest
  <2> DEFINE next == version + 1
  <2>1. "apply" \in Stages /\ next \in 1..Latest
    BY <1>1, <1>4 DEF Stages, Latest
  <2>2. job' = [job EXCEPT ![p].at = "apply", ![p].k = next]
    BY <1>4 DEF Check
  <2>3. next <= version + 1
    <3>1. version + 1 \in Int
      BY <1>1 DEF Latest
    <3> QED BY <3>1
  <2> HIDE DEF next
  <2>4. job \in [Procs -> Job] /\ [job[p] EXCEPT !.at = "apply", !.k = next] \in Job
    <3>1. job \in [Procs -> Job]
      BY <1>1 DEF TypeOK
    <3> QED BY <2>1, <3>1 DEF Job
  <2>5. /\ job' \in [Procs -> Job] /\ job'[p].at = "apply"
        /\ job'[p].cmd = job[p].cmd /\ job'[p].name = job[p].name
        /\ job'[p].k = next /\ \A q \in Procs \ {p} : job'[q] = job[q]
    BY <2>2, <2>4 DEF Job
  <2>6. /\ job'[p].at \notin Claiming \cup Opened \cup {"insert", "reread", "serving", "writing"}
        /\ job'[p].at \in {"off", "check", "apply", "reading", "writing"}
    BY <2>5 DEF Claiming, Opened
  <2> QED BY <1>2, <1>3, <2>3, <2>5, <2>6, QuietStep
<1>5. CASE ~(version < Latest)
  <2> DEFINE stage == IF p \in Servers THEN "count" ELSE "reading"
  <2>1. stage \in Stages /\ To(p, stage)
    BY <1>5 DEF Stages, Check
  <2>2. /\ job' \in [Procs -> Job] /\ job'[p].at = stage
        /\ job'[p].cmd = job[p].cmd /\ job'[p].name = job[p].name
        /\ \A q \in Procs \ {p} : job'[q] = job[q]
    <3> HIDE DEF stage
    <3> QED BY <1>1, <2>1, ToFact
  <2>3. version = Latest
    BY <1>1, <1>5 DEF Latest
  <2>4. /\ stage \notin Claiming \cup {"apply", "insert", "reread", "serving", "writing"}
        /\ p \in Clis => stage \in {"off", "check", "apply", "reading", "writing"}
    BY Constants DEF Claiming
  <2> HIDE DEF stage
  <2> QED BY <1>2, <1>3, <2>2, <2>3, <2>4, QuietStep
<1> QED BY <1>4, <1>5

LEMMA CountStep ==
  ASSUME IInv, NEW s \in Servers, CountUsers(s)
  PROVE  IInv'
<1> DEFINE stage == IF Live = {} THEN "insert" ELSE IF job[s].mode = "reset" THEN "reset" ELSE "secret"
<1>1. TypeOK /\ s \in Procs /\ stage \in Stages /\ s \notin Clis
  BY Constants DEF IInv, Procs, Stages
<1>2. To(s, stage) /\ job[s].at = "count"
  BY DEF CountUsers
<1>3. UNCHANGED <<rows, past>> /\ deaths' \in 0..MaxDeaths
  BY <1>1 DEF CountUsers, TypeOK
<1>4. /\ job' \in [Procs -> Job] /\ job'[s].at = stage
      /\ job'[s].cmd = job[s].cmd /\ job'[s].name = job[s].name
      /\ \A q \in Procs \ {s} : job'[q] = job[q]
  <2> HIDE DEF stage
  <2> QED BY <1>1, <1>2, ToFact
<1>5. /\ job[s].at \notin Claiming /\ stage \notin Claiming
      /\ stage \notin {"apply", "reread", "serving"}
  BY <1>2 DEF Claiming
<1>6. version = Latest /\ (job[s].cmd # "-" => job[s].name \in Names)
  BY <1>1, <1>2 DEF IInv, InOrder, Opened, Stages
<1>7. stage = "insert" => \A i \in Live : origin[i] # "upgrade"
  OBVIOUS
<1> HIDE DEF stage
<1> QED BY <1>1, <1>3, <1>4, <1>5, <1>6, <1>7, QuietStep

LEMMA ReadSecretStep ==
  ASSUME IInv, NEW s \in Servers, ReadSecret(s) \/ RereadSecret(s)
  PROVE  IInv'
<1>1. /\ TypeOK /\ s \in Procs /\ s \notin Clis /\ job[s] \in Job
      /\ secret \in Servers \cup {NoSecret}
  BY Constants DEF IInv, Procs, TypeOK
<1> DEFINE stage == IF secret = NoSecret THEN "store" ELSE "serving"
<1>2. secret = NoSecret => job[s].at = "secret" /\ ReadSecret(s)
  BY DEF IInv, Secrets, ReadSecret, RereadSecret
<1>3. job[s].at \in {"secret", "reread"} /\ UNCHANGED <<rows, past>> /\ deaths' = deaths
  BY DEF ReadSecret, RereadSecret
<1>4. job' = [job EXCEPT ![s].at = stage, ![s].held = secret]
  BY <1>2 DEF ReadSecret, RereadSecret
<1>5. /\ job' \in [Procs -> Job] /\ job'[s].at = stage /\ job'[s].held = secret
      /\ job'[s].cmd = job[s].cmd /\ job'[s].name = job[s].name
      /\ \A q \in Procs \ {s} : job'[q] = job[q]
  <2>1. stage \in Stages
    BY DEF Stages
  <2> HIDE DEF stage
  <2> QED BY <1>1, <1>4, <2>1 DEF TypeOK, Job
<1>6. version = Latest /\ (job[s].cmd # "-" => job[s].name \in Names)
  BY <1>1, <1>3 DEF IInv, InOrder, Opened, Stages
<1>7. job[s].at \notin Claiming /\ stage \notin Claiming /\ stage \notin {"apply", "insert", "reread"}
  BY <1>3 DEF Claiming
<1>8. deaths' \in 0..MaxDeaths
  BY <1>1, <1>3 DEF TypeOK
<1>9. stage = "serving" => secret # NoSecret
  OBVIOUS
<1> HIDE DEF stage
<1> QED BY <1>1, <1>3, <1>5, <1>6, <1>7, <1>8, <1>9, QuietStep

LEMMA ReadCommandStep ==
  ASSUME IInv, NEW c \in Clis, ReadCommand(c)
  PROVE  IInv'
<1>1. /\ TypeOK /\ c \in Procs /\ c \notin Servers /\ job[c] \in Job
      /\ deaths' \in 0..MaxDeaths /\ UNCHANGED <<rows, past>> /\ job[c].at = "reading"
  BY Constants DEF IInv, Procs, TypeOK, ReadCommand
<1>2. version = Latest /\ (job[c].cmd # "-" => job[c].name \in Names)
  BY <1>1 DEF IInv, InOrder, Opened, Stages
<1>3. CASE End(c)
  BY <1>1, <1>3, EndStep
<1>4. CASE job[c].cmd = "create" /\ To(c, "writing")
  <2>1. "writing" \in Stages
    BY DEF Stages
  <2>2. /\ job' \in [Procs -> Job] /\ job'[c].at = "writing" /\ job'[c].cmd = "create"
        /\ job'[c].name = job[c].name
        /\ \A q \in Procs \ {c} : job'[q] = job[q]
    BY <1>1, <1>4, <2>1, ToFact
  <2> QED BY <1>1, <1>2, <1>4, <2>2, QuietStep DEF Claiming
<1>5. CASE \E u \in Named(job[c].name) : job' = [job EXCEPT ![c].at = "writing", ![c].uid = u]
  <2>1. PICK u \in Named(job[c].name) : job' = [job EXCEPT ![c].at = "writing", ![c].uid = u]
    BY <1>5
  <2>2. u \in Live /\ u \in 0..MaxId
    <3>1. u \in Live
      BY DEF Named
    <3>2. seq \in 0..MaxId /\ MaxId \in Nat
      BY <1>1, Constants DEF TypeOK
    <3> QED BY <3>1, <3>2 DEF Live
  <2>3. /\ job' \in [Procs -> Job] /\ job'[c].at = "writing" /\ job'[c].uid = u
        /\ job'[c].cmd = job[c].cmd /\ job'[c].name = job[c].name
        /\ \A q \in Procs \ {c} : job'[q] = job[q]
    BY <1>1, <2>1, <2>2 DEF TypeOK, Job, Stages
  <2> QED BY <1>1, <1>2, <2>2, <2>3, QuietStep DEF Claiming
<1> QED BY <1>3, <1>4, <1>5 DEF ReadCommand

-----------------------------------------------------------------------------
(* Migrations *)

(* While a migration is missing, no process is past it and every account is  *)
(* the upgraded installation's.                                              *)
LEMMA BeforeLatest ==
  ASSUME IInv, version < Latest
  PROVE  /\ \A q \in Procs : job[q].at \in {"off", "check", "apply"}
         /\ Claimants = {} /\ seeded = 0 /\ ~torn
         /\ \A i \in Live : origin[i] = "upgrade"
<1>1. version \in Nat /\ job \in [Procs -> Job]
  BY DEF IInv, TypeOK
<1>2. \A q \in Procs : job[q].at \in Stages /\ job[q].at \notin Opened
  BY <1>1 DEF IInv, InOrder, Job, Latest
<1>3. \A q \in Procs : job[q].at \in {"off", "check", "apply"}
  BY <1>2 DEF Opened
<1> QED BY <1>3 DEF Claimants, Claiming, Procs, IInv, Older

LEMMA ApplyStep ==
  ASSUME IInv, NEW p \in Procs, Apply(p)
  PROVE  IInv'
<1> DEFINE k == job[p].k
<1>1. /\ TypeOK /\ version \in 0..Latest /\ seq \in 0..MaxId /\ MaxId \in Nat
      /\ job[p] \in Job /\ k \in 1..Latest /\ page \in 0..MaxId
  BY Constants DEF IInv, TypeOK, Job
<1>2. CASE k <= version
  <2>1. End(p) /\ UNCHANGED <<rows, past>> /\ deaths' \in 0..MaxDeaths
    BY <1>1, <1>2 DEF Apply, rows, TypeOK
  <2>2. job[p].at \notin Claiming
    BY DEF Apply, Claiming
  <2> QED BY <2>1, <2>2, EndStep
<1>3. CASE ~(k <= version)
  <2>1. k = version + 1 /\ version < Latest /\ version' = version + 1
    BY <1>1, <1>3 DEF IInv, InOrder, Apply, Latest
  <2>2. /\ UNCHANGED <<seq, name, secret, deaths, origin, mishaps>>
        /\ Body(k) /\ After(p)
    BY <1>3 DEF Apply, past
  <2>3. /\ \A q \in Procs : job[q].at \in {"off", "check", "apply"}
        /\ Claimants = {} /\ seeded = 0 /\ ~torn
        /\ \A i \in Live : origin[i] = "upgrade"
    BY <2>1, BeforeLatest
  <2>4. /\ job' \in [Procs -> Job] /\ job'[p].at = "check"
        /\ job'[p].cmd = job[p].cmd /\ job'[p].name = job[p].name
        /\ \A q \in Procs \ {p} : job'[q] = job[q]
    <3>1. job \in [Procs -> Job] /\ "check" \in Stages /\ 1 \in 1..Latest
      BY <1>1 DEF TypeOK, Stages, Latest
    <3>2. [job[p] EXCEPT !.at = "check", !.k = 1] \in Job
      BY <3>1 DEF Job
    <3> QED BY <2>2, <3>1, <3>2 DEF After, Job
  <2>5. \A q \in Procs : job'[q].at \in {"off", "check", "apply"}
    BY <2>3, <2>4
  <2>6. Live' = Live /\ (Live # {} => First \in Live /\ First \in Ids)
    BY <1>1, <2>2 DEF Live, First, Ids
  <2> HIDE DEF k
  <2>7. /\ k = 4 => /\ role' = IF Live = {} THEN role ELSE [role EXCEPT ![First] = "owner"]
                    /\ page' = IF page = 0 /\ Live # {} THEN First ELSE page
        /\ k = 6 => handle' = IF page = 0 THEN handle ELSE [handle EXCEPT ![page] = Legacy]
        /\ k = 7 => seeded' = page
        /\ k # 4 => role' = role /\ page' = page
        /\ k # 6 => handle' = handle
        /\ k # 7 => seeded' = seeded
    BY <2>2 DEF Body, Migrate4, Migrate6, Migrate7
  <2>8. /\ k = 4 => Owners = {} /\ page = 0
        /\ version < 6 => \A i \in Ids : handle[i] = NoName
        /\ version = 6 /\ page # 0 => handle[page] = Legacy
        /\ page \in Live \cup {0}
        /\ Live \subseteq Ids
    BY <1>1, <2>1 DEF IInv, Older, TypeOK, Live, Ids
  <2>9. version >= 4 /\ Live # {} => page # 0
    BY <2>3, <2>6 DEF IInv, PageHeld
  <2>10. Owners' = IF k = 4 /\ Live # {} THEN {First} ELSE Owners
    <3>1. CASE k = 4 /\ Live # {}
      <4>1. \A i \in Ids : role[i] # "owner"
        BY <2>8, <3>1 DEF Owners
      <4>2. role' = [role EXCEPT ![First] = "owner"] /\ First \in Ids
        BY <2>6, <2>7, <3>1
      <4>3. \A i \in Ids : role'[i] = "owner" <=> i = First
        BY <1>1, <4>1, <4>2 DEF TypeOK
      <4> QED BY <3>1, <4>2, <4>3 DEF Owners
    <3>2. CASE ~(k = 4 /\ Live # {})
      BY <2>7, <3>2 DEF Owners
    <3> QED BY <3>1, <3>2
  <2>11. page' \in Live \cup {0} /\ (k = 4 /\ Live # {} => page' = First)
    BY <2>6, <2>7, <2>8
  <2>12. handle' \in [Ids -> Names \cup {NoName}]
         /\ \A i \in Ids : \/ handle'[i] = handle[i]
                           \/ k = 6 /\ i = page /\ i \in Live /\ handle'[i] = Legacy
    BY <1>1, <2>7, <2>8, Constants DEF TypeOK
  <2>13. TypeOK'
    <3>1. /\ version' \in 0..Latest /\ seq' \in 0..MaxId /\ page' \in 0..MaxId
          /\ seeded' \in 0..MaxId /\ {page', seeded'} \subseteq Live' \cup {0}
      BY <1>1, <2>1, <2>2, <2>3, <2>6, <2>7, <2>8, <2>11 DEF Live, Latest
    <3>2. /\ role' \in [Ids -> {"none", "owner", "admin"}]
          /\ \A i \in Ids : role'[i] = "none" <=> i \notin Live
      BY <1>1, <2>6, <2>7 DEF TypeOK
    <3>3. /\ \A i, j \in Ids : handle'[i] = handle'[j] => i = j \/ handle'[i] = NoName
          /\ \A i \in Ids : handle'[i] # NoName => i \in Live
      BY <1>1, <2>1, <2>8, <2>12, Constants DEF TypeOK
    <3>4. /\ name' \in [Ids -> Names \cup {NoName}] /\ secret' \in Servers \cup {NoSecret}
          /\ deaths' \in 0..MaxDeaths /\ origin' \in [Ids -> {"none", "upgrade", "start", "cli"}]
          /\ mishaps' \subseteq {"torn", "crossed"}
          /\ \A i \in Ids : name'[i] = NoName <=> i \notin Live'
          /\ \A i, j \in Live' : name'[i] = name'[j] => i = j
      BY <1>1, <2>2, <2>6 DEF TypeOK
    <3> QED BY <2>4, <2>6, <2>12, <3>1, <3>2, <3>3, <3>4 DEF TypeOK
  <2>14. InOrder'
    <3>1. ASSUME NEW q \in Procs, job'[q].at = "apply" PROVE job'[q].k <= version' + 1
      <4>1. q # p /\ job'[q] = job[q]
        BY <2>4, <3>1
      <4>2. job[q] \in Job /\ job[q].k <= version + 1
        BY <1>1, <3>1, <4>1 DEF TypeOK, IInv, InOrder
      <4>3. job[q].k \in Int /\ version \in Int
        BY <1>1, <4>2 DEF Job, Latest
      <4> QED BY <2>1, <4>1, <4>2, <4>3
    <3>2. \A q \in Procs : job'[q].cmd # "-" => job'[q].name \in Names
      BY <2>4 DEF IInv, InOrder
    <3> QED BY <2>5, <3>1, <3>2 DEF InOrder, Opened, Procs
  <2>15. Older'
    BY <1>1, <2>1, <2>2, <2>3, <2>6, <2>7, <2>8, <2>10, <2>11, <2>12 DEF IInv, Older, torn, Latest, Ids
  <2>16. Origins'
    BY <2>2, <2>5, <2>6, <2>8, <2>12 DEF IInv, Origins, Claiming, Procs
  <2>17. Claims'
    BY <2>5 DEF Claims, ClaimOK, Claiming, Procs
  <2>18. Adopted'
    <3>1. First \in Live' => origin'[First] = "upgrade"
      BY <2>2, <2>3, <2>6
    <3>2. CASE k = 7
      <4>1. version = 6 /\ handle' = handle /\ seeded' = page
        BY <1>1, <2>1, <2>7, <3>2 DEF Latest
      <4>2. Live # {} => seeded' # 0 /\ handle'[seeded'] = Legacy
        BY <2>8, <2>9, <4>1
      <4>3. Live = {} => seeded' = 0
        BY <2>8, <4>1
      <4> QED BY <2>6, <3>1, <4>2, <4>3 DEF Adopted
    <3>3. CASE k # 7
      <4>1. version' # Latest /\ seeded' = 0
        BY <1>1, <2>1, <2>3, <2>7, <3>3 DEF Latest
      <4> QED BY <2>6, <3>1, <4>1 DEF Adopted
    <3> QED BY <3>2, <3>3
  <2>19. Secrets'
    BY <2>5 DEF Secrets, OneSecret, Procs
  <2>20. OwnerUnlessCliFirst' /\ OwnersPage'
    BY <1>1, <2>1, <2>2, <2>6, <2>7, <2>10, <2>11 DEF IInv, OwnerUnlessCliFirst, OwnersPage, crossed
  <2>21. PageHeld'
    BY <1>1, <2>1, <2>6, <2>7, <2>9, <2>11 DEF PageHeld, First
  <2>22. ProfilesComplete'
    <3>1. CASE k = 6
      <4>1. Live # {} => handle'[page] = Legacy /\ page \in Live
        BY <1>1, <2>1, <2>7, <2>8, <2>9, <3>1 DEF TypeOK
      <4> QED BY <2>2, <2>3, <2>6, <4>1 DEF ProfilesComplete
    <3>2. CASE k # 6 /\ version' >= 6
      <4>1. version >= 6 /\ handle' = handle
        BY <1>1, <2>1, <2>7, <3>2 DEF Latest
      <4> QED BY <2>2, <2>3, <2>6, <4>1 DEF IInv, ProfilesComplete
    <3> QED BY <3>1, <3>2 DEF ProfilesComplete
  <2> QED BY <2>13, <2>14, <2>15, <2>16, <2>17, <2>18, <2>19, <2>20, <2>21, <2>22 DEF IInv
<1> QED BY <1>2, <1>3

-----------------------------------------------------------------------------
(* The first account and its claim *)

LEMMA InsertOwnerStep ==
  ASSUME IInv, NEW s \in Servers, InsertOwner(s)
  PROVE  IInv'
<1> DEFINE u == seq + 1
<1>1. /\ TypeOK /\ s \in Procs /\ s \notin Clis /\ job[s].at = "insert" /\ version = Latest
      /\ seq \in 0..MaxId /\ MaxId \in Nat /\ job \in [Procs -> Job]
  BY Constants DEF IInv, TypeOK, Procs, InsertOwner, InOrder, Opened, Stages
<1>2. CASE Named(Root) # {}
  <2>1. End(s) /\ UNCHANGED <<rows, past>> /\ deaths' \in 0..MaxDeaths
    BY <1>1, <1>2 DEF InsertOwner, rows, past, TypeOK
  <2> QED BY <1>1, <2>1, EndStep DEF Claiming
<1>3. CASE Named(Root) = {}
  <2>1. /\ seq < MaxId /\ seq' = u
        /\ role' = [role EXCEPT ![u] = "owner"]
        /\ name' = [name EXCEPT ![u] = Root]
        /\ handle' = [handle EXCEPT ![u] = NoName]
        /\ origin' = [origin EXCEPT ![u] = "start"]
        /\ mishaps' = IF Live = {} THEN mishaps ELSE mishaps \cup {"crossed"}
        /\ job' = [job EXCEPT ![s].at = "page", ![s].uid = u]
        /\ UNCHANGED <<version, page, seeded, secret, deaths>>
    BY <1>3 DEF InsertOwner, Insert
  <2>2. /\ u \in Ids /\ u \in 1..MaxId /\ Live' = Live \cup {u} /\ u \notin Live /\ Live \subseteq Ids
        /\ (First \in Live' <=> TRUE) /\ (Live = {} => u = First) /\ (Live # {} => First \in Live)
    BY <1>1, <2>1 DEF Ids, Live, First
  <2> HIDE DEF u
  <2>3. \A i \in Live : origin[i] = "cli"
    <3>1. \A i \in Live : origin[i] # "upgrade" /\ name[i] # Root
      BY <1>1, <1>3 DEF IInv, Origins, Named, Claiming
    <3>2. \A i \in Live : origin[i] \in {"upgrade", "start", "cli"}
      BY <1>1, <2>2 DEF TypeOK, IInv, Origins
    <3> QED BY <3>1, <3>2 DEF IInv, Origins
  <2>4. \A q \in Servers : job[q].at \notin Claiming
    BY <2>3 DEF IInv, Claims, ClaimOK
  <2>5. /\ job' \in [Procs -> Job] /\ job'[s].at = "page" /\ job'[s].uid = u
        /\ job'[s].cmd = job[s].cmd /\ job'[s].name = job[s].name
        /\ \A q \in Procs \ {s} : job'[q] = job[q]
    <3>1. "page" \in Stages /\ u \in 0..MaxId
      BY <2>2 DEF Stages
    <3>2. [job[s] EXCEPT !.at = "page", !.uid = u] \in Job
      BY <1>1, <3>1 DEF Job
    <3> QED BY <1>1, <2>1, <3>2 DEF Job
  <2>6. /\ \A i \in Live : /\ role'[i] = role[i] /\ name'[i] = name[i]
                           /\ handle'[i] = handle[i] /\ origin'[i] = origin[i]
        /\ role'[u] = "owner" /\ name'[u] = Root /\ handle'[u] = NoName /\ origin'[u] = "start"
    BY <1>1, <2>1, <2>2 DEF TypeOK
  <2>7. /\ page \in Live \cup {0} /\ seeded \in Live \cup {0} /\ 0 \notin Live
        /\ (Live = {} => Owners = {})
    <3>1. \A i \in Ids : i \notin Live => role[i] # "owner"
      BY <1>1 DEF TypeOK
    <3>2. 0 \notin Live
      BY DEF Live
    <3> QED BY <1>1, <3>1, <3>2 DEF TypeOK, Owners
  <2>8. Owners' = Owners \cup {u}
    <3>1. \A i \in Ids : role'[i] = "owner" <=> role[i] = "owner" \/ i = u
      BY <1>1, <2>1, <2>2 DEF TypeOK
    <3> QED BY <2>2, <3>1 DEF Owners
  <2>9. crossed' = (crossed \/ Live # {}) /\ (torn' = torn)
    BY <2>1 DEF crossed, torn
  <2>10. s \in Claimants'
    BY <2>5 DEF Claimants, Claiming
  <2>11. TypeOK'
    <3>1. /\ version' \in 0..Latest /\ seq' \in 0..MaxId /\ page' \in 0..MaxId
          /\ seeded' \in 0..MaxId /\ {page', seeded'} \subseteq Live' \cup {0}
          /\ secret' \in Servers \cup {NoSecret} /\ deaths' \in 0..MaxDeaths
          /\ mishaps' \subseteq {"torn", "crossed"}
      BY <1>1, <2>1, <2>2, <2>7 DEF TypeOK
    <3>2. /\ role' \in [Ids -> {"none", "owner", "admin"}]
          /\ \A i \in Ids : role'[i] = "none" <=> i \notin Live'
          /\ origin' \in [Ids -> {"none", "upgrade", "start", "cli"}]
      BY <1>1, <2>1, <2>2 DEF TypeOK
    <3>3. /\ name' \in [Ids -> Names \cup {NoName}]
          /\ \A i \in Ids : name'[i] = NoName <=> i \notin Live'
      BY <1>1, <2>1, <2>2, Constants DEF TypeOK
    <3>4. \A i, k \in Live' : name'[i] = name'[k] => i = k
      BY <1>1, <1>3, <2>2, <2>6 DEF TypeOK, Named
    <3>5. /\ handle' \in [Ids -> Names \cup {NoName}]
          /\ \A i, k \in Ids : handle'[i] = handle'[k] => i = k \/ handle'[i] = NoName
          /\ \A i \in Ids : handle'[i] # NoName => i \in Live'
      BY <1>1, <2>1, <2>2, Constants DEF TypeOK
    <3> QED BY <2>5, <3>1, <3>2, <3>3, <3>4, <3>5 DEF TypeOK
  <2>12. InOrder'
    BY <1>1, <2>1, <2>2, <2>5 DEF IInv, InOrder, Procs, Opened
  <2>13. Older'
    BY <1>1, <2>1 DEF Older, Latest
  <2>14. Origins'
    <3>1. \A i \in Ids : origin'[i] = "none" <=> i \notin Live'
      BY <1>1, <2>1, <2>2 DEF IInv, Origins, TypeOK
    <3>2. \A i \in Live' : /\ origin'[i] = "start" => name'[i] = Root
                           /\ origin'[i] # "cli" => handle'[i] \in {NoName, Legacy}
                           /\ origin'[i] # "upgrade"
      BY <2>2, <2>3, <2>6
    <3> QED BY <3>1, <3>2 DEF Origins
  <2>15. Claims'
    <3> SUFFICES ASSUME NEW q \in Servers PROVE ClaimOK(q)'
      BY DEF Claims
    <3>1. CASE q = s
      <4>1. job'[s].uid \in Live' /\ origin'[job'[s].uid] = "start"
        BY <2>2, <2>5, <2>6
      <4>2. ~crossed' => Owners' \subseteq {job'[s].uid}
        BY <2>5, <2>7, <2>8, <2>9
      <4> QED BY <2>5, <3>1, <4>1, <4>2 DEF ClaimOK
    <3>2. CASE q # s
      BY <2>4, <2>5, <3>2 DEF ClaimOK, Claiming, Procs
    <3> QED BY <3>1, <3>2
  <2>16. Adopted'
    BY <2>1, <2>2, <2>3, <2>6, <2>7, <2>10 DEF IInv, Adopted
  <2>17. Secrets'
    BY <2>1, <2>5 DEF IInv, Secrets, OneSecret, Procs
  <2>18. OwnerUnlessCliFirst' /\ OwnersPage'
    BY <2>1, <2>7, <2>8, <2>9 DEF OwnerUnlessCliFirst, OwnersPage
  <2>19. PageHeld'
    BY <2>10 DEF PageHeld
  <2>20. ProfilesComplete'
    <3>1. \A i \in Live : handle[i] # NoName
      BY <1>1, <2>3 DEF IInv, ProfilesComplete, Latest
    <3> QED BY <2>2, <2>6, <2>10, <3>1 DEF ProfilesComplete
  <2> QED BY <2>11, <2>12, <2>13, <2>14, <2>15, <2>16, <2>17, <2>18, <2>19, <2>20 DEF IInv
<1> QED BY <1>2, <1>3

(* What a claimant may rely on. *)
LEMMA Claimant ==
  ASSUME IInv, NEW s \in Servers, job[s].at \in Claiming
  PROVE  /\ TypeOK /\ s \in Procs /\ s \notin Clis /\ version = Latest
         /\ job[s].uid \in Live /\ job[s].uid # 0 /\ job[s].uid \in Ids
         /\ origin[job[s].uid] = "start" /\ s \in Claimants /\ Live \subseteq Ids
         /\ \A i \in Live : origin[i] \in {"start", "cli"}
         /\ \A i \in Live : origin[i] = "start" => i = job[s].uid
<1>1. TypeOK /\ s \in Procs /\ s \notin Clis /\ ClaimOK(s)
  BY Constants DEF IInv, Procs, Claims
<1>2. version = Latest
  BY <1>1 DEF IInv, InOrder, Opened, Stages, Claiming
<1>3. job[s].uid \in Live /\ origin[job[s].uid] = "start"
  BY <1>1 DEF ClaimOK
<1>4. Live \subseteq Ids /\ 0 \notin Live
  BY <1>1, Constants DEF TypeOK, Live, Ids
<1>5. \A i \in Live : origin[i] \in {"start", "cli"}
  <2>1. \A i \in Live : origin[i] # "upgrade" /\ origin[i] # "none"
    BY <1>4 DEF IInv, Origins
  <2> QED BY <1>1, <1>4, <2>1 DEF TypeOK
<1>6. \A i \in Live : origin[i] = "start" => i = job[s].uid
  BY <1>1, <1>3 DEF IInv, Origins, TypeOK
<1> QED BY <1>1, <1>2, <1>3, <1>4, <1>5, <1>6 DEF Claimants

(* The next stage of a claimant, itself a stage of the claim. *)
LEMMA NextStage ==
  ASSUME TypeOK, NEW s \in Servers, NEW stage \in Claiming, job[s].at \in Claiming, To(s, stage)
  PROVE  /\ job' \in [Procs -> Job]
         /\ job'[s].at = stage /\ job'[s].uid = job[s].uid /\ job'[s].cmd = job[s].cmd
         /\ job'[s].name = job[s].name
         /\ \A q \in Procs \ {s} : job'[q] = job[q]
         /\ Claimants' = Claimants
<1>1. stage \in Stages /\ s \in Procs
  BY DEF Claiming, Stages, Procs
<1>2. /\ job' \in [Procs -> Job]
      /\ job'[s].at = stage /\ job'[s].uid = job[s].uid /\ job'[s].cmd = job[s].cmd
      /\ job'[s].name = job[s].name
      /\ \A q \in Procs \ {s} : job'[q] = job[q]
  BY <1>1, ToFact
<1> QED BY <1>2 DEF Claimants, Procs

LEMMA ClaimPageStep ==
  ASSUME IInv, NEW s \in Servers, ClaimPage(s)
  PROVE  IInv'
<1> DEFINE u == job[s].uid
<1>1. /\ TypeOK /\ s \in Procs /\ s \notin Clis /\ version = Latest /\ u \in Live /\ u # 0
      /\ u \in Ids /\ origin[u] = "start" /\ ClaimOK(s) /\ job[s].at = "page"
  BY Claimant DEF ClaimPage, Claiming, IInv, Claims
<1>2. /\ page' = (IF page = 0 THEN u ELSE page) /\ To(s, "profile")
      /\ UNCHANGED <<version, seq, role, name, handle, seeded, secret, deaths, origin, mishaps>>
  BY DEF ClaimPage, past
<1>3. /\ job' \in [Procs -> Job]
      /\ job'[s].at = "profile" /\ job'[s].uid = u /\ job'[s].cmd = job[s].cmd
      /\ job'[s].name = job[s].name
      /\ \A q \in Procs \ {s} : job'[q] = job[q]
      /\ Claimants' = Claimants
  BY <1>1, <1>2, NextStage DEF Claiming
<1> HIDE DEF u
<1>4. page' \in Live /\ page' # 0 /\ Live' = Live /\ Owners' = Owners
  BY <1>1, <1>2 DEF TypeOK, Live, Owners
<1>5. TypeOK'
  <2>1. page' \in 0..MaxId /\ {page', seeded'} \subseteq Live' \cup {0}
    BY <1>1, <1>2, <1>4, Constants DEF TypeOK, Live
  <2> QED BY <1>1, <1>2, <1>3, <1>4, <2>1 DEF TypeOK
<1>6. InOrder' /\ Older'
  BY <1>1, <1>2, <1>3, <1>4 DEF IInv, InOrder, Older, Opened, Latest, Procs
<1>7. Origins'
  BY <1>1, <1>2, <1>3, <1>4 DEF IInv, Origins, Claiming, Procs
<1>8. Claims'
  <2> SUFFICES ASSUME NEW q \in Servers PROVE ClaimOK(q)'
    BY DEF Claims
  <2>1. CASE q = s
    BY <1>1, <1>2, <1>3, <1>4, <2>1 DEF ClaimOK
  <2>2. CASE q # s
    <3>1. job'[q] = job[q] /\ ClaimOK(q)
      BY <1>3, <2>2 DEF IInv, Claims, Procs
    <3> QED BY <1>2, <1>4, <3>1 DEF ClaimOK
  <2> QED BY <2>1, <2>2
<1>9. Adopted' /\ Secrets'
  BY <1>1, <1>2, <1>3, <1>4 DEF IInv, Adopted, Secrets, OneSecret, Procs, torn
<1>10. OwnerUnlessCliFirst' /\ PageHeld' /\ ProfilesComplete'
  BY <1>2, <1>3, <1>4 DEF IInv, OwnerUnlessCliFirst, PageHeld, ProfilesComplete, torn
<1>11. OwnersPage'
  <2>1. page = 0 /\ ~crossed => Owners \subseteq {u}
    BY <1>1 DEF ClaimOK, u
  <2>2. crossed' <=> crossed
    BY <1>2 DEF crossed
  <2> QED BY <1>1, <1>2, <1>4, <2>1, <2>2 DEF IInv, OwnersPage
<1> QED BY <1>5, <1>6, <1>7, <1>8, <1>9, <1>10, <1>11 DEF IInv

LEMMA CopyProfileStep ==
  ASSUME IInv, NEW s \in Servers, CopyProfile(s)
  PROVE  IInv'
<1> DEFINE u == job[s].uid
           free == handle[u] = NoName /\ \A i \in Ids : handle[i] # Legacy
<1>1. /\ TypeOK /\ s \in Procs /\ s \notin Clis /\ version = Latest /\ u \in Live /\ u # 0
      /\ u \in Ids /\ origin[u] = "start" /\ ClaimOK(s) /\ job[s].at = "profile"
      /\ Live \subseteq Ids /\ Legacy # NoName
      /\ \A i \in Live : origin[i] \in {"start", "cli"}
      /\ \A i \in Live : origin[i] = "start" => i = u
  BY Claimant, Constants DEF CopyProfile, Claiming, IInv, Claims
<1>2. /\ handle' = (IF free THEN [handle EXCEPT ![u] = Legacy] ELSE handle) /\ To(s, "links")
      /\ UNCHANGED <<version, seq, role, name, page, seeded, secret, deaths, origin, mishaps>>
  BY DEF CopyProfile, past
<1>3. /\ job' \in [Procs -> Job]
      /\ job'[s].at = "links" /\ job'[s].uid = u /\ job'[s].cmd = job[s].cmd
      /\ job'[s].name = job[s].name
      /\ \A q \in Procs \ {s} : job'[q] = job[q]
      /\ Claimants' = Claimants
  BY <1>1, <1>2, NextStage DEF Claiming
<1> HIDE DEF u
<1>4. Live' = Live /\ Owners' = Owners /\ page # 0
  BY <1>1, <1>2 DEF Live, Owners, ClaimOK
<1>5. /\ handle' \in [Ids -> Names \cup {NoName}]
      /\ \A i \in Ids : i # u => handle'[i] = handle[i]
      /\ \/ handle'[u] = handle[u]
         \/ handle[u] = NoName /\ handle'[u] = Legacy /\ \A i \in Ids : handle[i] # Legacy
  <2>1. handle \in [Ids -> Names \cup {NoName}]
    BY <1>1 DEF TypeOK
  <2>2. CASE free
    <3>1. handle' = [handle EXCEPT ![u] = Legacy]
      BY <1>2, <2>2
    <3> QED BY <1>1, <2>1, <2>2, <3>1, Constants
  <2>3. CASE ~free
    <3>1. handle' = handle
      BY <1>2, <2>3
    <3> QED BY <2>1, <3>1
  <2> QED BY <2>2, <2>3
<1>6. \E i \in Live : handle'[i] = Legacy /\ (i = u \/ origin[i] = "cli")
  <2>1. CASE free
    BY <1>1, <1>2, <2>1 DEF TypeOK
  <2>2. CASE handle[u] # NoName
    <3>1. handle[u] = Legacy
      BY <1>1, <2>2 DEF IInv, Origins
    <3> QED BY <1>1, <1>5, <2>2, <3>1
  <2>3. CASE \E i \in Ids : handle[i] = Legacy
    <3>1. PICK i \in Ids : handle[i] = Legacy
      BY <2>3
    <3>2. i \in Live /\ handle'[i] = Legacy
      BY <1>1, <1>5, <3>1 DEF TypeOK
    <3> QED BY <1>1, <3>2
  <2> QED BY <2>1, <2>2, <2>3
<1>7. TypeOK'
  <2>1. \A i, k \in Ids : handle'[i] = handle'[k] => i = k \/ handle'[i] = NoName
    BY <1>1, <1>5 DEF TypeOK
  <2>2. \A i \in Ids : handle'[i] # NoName => i \in Live'
    BY <1>1, <1>4, <1>5 DEF TypeOK
  <2> QED BY <1>1, <1>2, <1>3, <1>4, <1>5, <2>1, <2>2 DEF TypeOK
<1>8. InOrder' /\ Older'
  BY <1>1, <1>2, <1>3, <1>4 DEF IInv, InOrder, Older, Opened, Latest, Procs
<1>9. Origins'
  BY <1>1, <1>2, <1>3, <1>4, <1>5 DEF IInv, Origins, Claiming, Procs
<1>10. Claims'
  <2> SUFFICES ASSUME NEW q \in Servers PROVE ClaimOK(q)'
    BY DEF Claims
  <2>1. CASE q = s
    BY <1>1, <1>2, <1>3, <1>4, <1>6, <2>1 DEF ClaimOK
  <2>2. CASE q # s
    <3>1. job'[q] = job[q] /\ ClaimOK(q)
      BY <1>3, <2>2 DEF IInv, Claims, Procs
    <3> QED BY <1>1, <1>2, <1>4, <1>5, <3>1 DEF ClaimOK, crossed
  <2> QED BY <2>1, <2>2
<1>11. Adopted' /\ Secrets'
  <2>1. seeded # 0 => seeded \in Ids
    BY <1>1 DEF TypeOK
  <2>2. Adopted'
    BY <1>1, <1>2, <1>3, <1>4, <1>5, <2>1 DEF IInv, Adopted, torn
  <2> QED BY <1>1, <1>2, <1>3, <2>2 DEF IInv, Secrets, OneSecret, Procs
<1>12. OwnerUnlessCliFirst' /\ OwnersPage' /\ PageHeld'
  BY <1>2, <1>3, <1>4 DEF IInv, OwnerUnlessCliFirst, OwnersPage, PageHeld, torn, crossed
<1>13. ProfilesComplete'
  <2>1. \A i \in Live : handle'[i] = NoName => handle[i] = NoName
    BY <1>1, <1>5
  <2>2. s \in Claimants'
    BY <1>1, <1>3 DEF Claimants, Claiming
  <2> QED BY <1>1, <1>2, <1>4, <2>1, <2>2 DEF IInv, ProfilesComplete, Latest
<1> QED BY <1>7, <1>8, <1>9, <1>10, <1>11, <1>12, <1>13 DEF IInv

LEMMA AdoptLinksStep ==
  ASSUME IInv, NEW s \in Servers, AdoptLinks(s)
  PROVE  IInv'
<1> DEFINE u == job[s].uid
<1>1. /\ TypeOK /\ s \in Procs /\ s \notin Clis /\ version = Latest /\ u \in Live /\ u # 0
      /\ u \in Ids /\ origin[u] = "start" /\ ClaimOK(s) /\ job[s].at = "links"
  BY Claimant DEF AdoptLinks, Claiming, IInv, Claims
<1>2. /\ seeded' = (IF seeded = 0 THEN u ELSE seeded) /\ To(s, "secret")
      /\ UNCHANGED <<version, seq, role, name, handle, page, secret, deaths, origin, mishaps>>
  BY DEF AdoptLinks, past
<1>3. /\ job' \in [Procs -> Job]
      /\ job'[s].at = "secret" /\ job'[s].uid = u /\ job'[s].cmd = job[s].cmd
      /\ job'[s].name = job[s].name
      /\ \A q \in Procs \ {s} : job'[q] = job[q]
  <2>1. "secret" \in Stages
    BY DEF Stages
  <2> QED BY <1>1, <1>2, <2>1, ToFact
<1> HIDE DEF u
<1>4. Live' = Live /\ Owners' = Owners /\ page # 0 /\ seeded' # 0 /\ seeded' \in Live
  BY <1>1, <1>2 DEF Live, Owners, ClaimOK, TypeOK
<1>5. PICK i \in Live : handle[i] = Legacy /\ (i = u \/ origin[i] = "cli")
  BY <1>1 DEF ClaimOK, u
<1>6. TypeOK'
  <2>1. seeded' \in 0..MaxId /\ {page', seeded'} \subseteq Live' \cup {0}
    BY <1>1, <1>2, <1>4, Constants DEF TypeOK, Live
  <2> QED BY <1>1, <1>2, <1>3, <1>4, <2>1 DEF TypeOK
<1>7. InOrder' /\ Older'
  BY <1>1, <1>2, <1>3, <1>4 DEF IInv, InOrder, Older, Opened, Latest, Procs
<1>8. Origins'
  BY <1>1, <1>2, <1>3, <1>4 DEF IInv, Origins, Claiming, Procs
<1>9. Claims'
  <2> SUFFICES ASSUME NEW q \in Servers PROVE ClaimOK(q)'
    BY DEF Claims
  <2>1. CASE q = s
    BY <1>3, <2>1 DEF ClaimOK, Claiming
  <2>2. CASE q # s
    <3>1. job'[q] = job[q] /\ ClaimOK(q)
      BY <1>3, <2>2 DEF IInv, Claims, Procs
    <3> QED BY <1>2, <1>4, <3>1 DEF ClaimOK, crossed
  <2> QED BY <2>1, <2>2
<1>10. Adopted'
  BY <1>2, <1>4, <1>5 DEF IInv, Adopted
<1>11. Secrets'
  BY <1>1, <1>2, <1>3 DEF IInv, Secrets, OneSecret, Procs
<1>12. OwnerUnlessCliFirst' /\ OwnersPage' /\ PageHeld'
  BY <1>2, <1>4 DEF IInv, OwnerUnlessCliFirst, OwnersPage, PageHeld, crossed
<1>13. ProfilesComplete'
  BY <1>2, <1>4, <1>5 DEF IInv, ProfilesComplete
<1> QED BY <1>6, <1>7, <1>8, <1>9, <1>10, <1>11, <1>12, <1>13 DEF IInv

-----------------------------------------------------------------------------
(* The other steps *)

LEMMA ResetOwnerStep ==
  ASSUME IInv, NEW s \in Servers, ResetOwner(s)
  PROVE  IInv'
<1>1. /\ TypeOK /\ s \in Procs /\ s \notin Clis /\ job[s].at = "reset" /\ version = Latest
  BY Constants DEF IInv, Procs, ResetOwner, InOrder, Opened, Stages
<1>2. CASE Blocked
  <2>1. End(s) /\ UNCHANGED <<rows, past>> /\ deaths' \in 0..MaxDeaths
    BY <1>1, <1>2 DEF ResetOwner, rows, TypeOK
  <2> QED BY <1>1, <2>1, EndStep DEF Claiming
<1>3. CASE ~Blocked
  <2>1. /\ To(s, "secret") /\ Renamed
        /\ UNCHANGED <<version, seq, role, handle, page, seeded, secret, deaths, origin, mishaps>>
    BY <1>3 DEF ResetOwner, past
  <2>2. /\ job' \in [Procs -> Job]
        /\ job'[s].at = "secret" /\ job'[s].uid = job[s].uid /\ job'[s].cmd = job[s].cmd
        /\ job'[s].name = job[s].name
        /\ \A q \in Procs \ {s} : job'[q] = job[q]
    <3>1. "secret" \in Stages
      BY DEF Stages
    <3> QED BY <1>1, <2>1, <3>1, ToFact
  <2>3. Live' = Live /\ Owners' = Owners /\ Claimants' = Claimants
    BY <1>1, <2>1, <2>2 DEF Live, Owners, Claimants, Claiming, Procs
  <2>4. /\ name' \in [Ids -> Names \cup {NoName}]
        /\ \A i \in Ids : name'[i] = NoName <=> i \notin Live
        /\ \A i, k \in Live : name'[i] = name'[k] => i = k
        /\ \A i \in Live : name[i] = Root => name'[i] = Root
    <3>1. CASE name' = name
      BY <1>1, <3>1 DEF TypeOK
    <3>2. CASE \E i \in Owners : LeastOwner(i) /\ name' = [name EXCEPT ![i] = Root]
      <4>1. PICK i \in Owners : LeastOwner(i) /\ name' = [name EXCEPT ![i] = Root]
        BY <3>2
      <4>2. Named(Root) \subseteq {i}
        BY <1>3, <4>1 DEF Blocked
      <4>3. i \in Ids /\ role[i] = "owner"
        BY DEF Owners
      <4>4. i \in Live
        BY <1>1, <4>3 DEF TypeOK
      <4>5. name \in [Ids -> Names \cup {NoName}] /\ Live \subseteq Ids
        BY <1>1, Constants DEF TypeOK, Live, Ids
      <4>6. \A k \in Ids : name'[k] = IF k = i THEN Root ELSE name[k]
        BY <4>1, <4>3, <4>5
      <4>7. \A k \in Live : k # i => name[k] # Root
        BY <4>2 DEF Named
      <4> QED BY <1>1, <4>1, <4>3, <4>4, <4>5, <4>6, <4>7, Constants DEF TypeOK
    <3> QED BY <2>1, <3>1, <3>2 DEF Renamed
  <2>5. TypeOK'
    BY <1>1, <2>1, <2>2, <2>3, <2>4 DEF TypeOK
  <2>6. InOrder' /\ Older'
    BY <1>1, <2>1, <2>2, <2>3 DEF IInv, InOrder, Older, Opened, Latest, Procs
  <2>7. Origins'
    BY <2>1, <2>2, <2>3, <2>4 DEF IInv, Origins, Claiming, Procs
  <2>8. Claims'
    <3> SUFFICES ASSUME NEW q \in Servers PROVE ClaimOK(q)'
      BY DEF Claims
    <3>1. CASE q = s
      BY <2>2, <3>1 DEF ClaimOK, Claiming
    <3>2. CASE q # s
      <4>1. job'[q] = job[q] /\ ClaimOK(q)
        BY <2>2, <3>2 DEF IInv, Claims, Procs
      <4> QED BY <2>1, <2>3, <4>1 DEF ClaimOK, crossed
    <3> QED BY <3>1, <3>2
  <2>9. Adopted' /\ Secrets'
    BY <2>1, <2>2, <2>3 DEF IInv, Adopted, Secrets, OneSecret, Procs, torn
  <2>10. OwnerUnlessCliFirst' /\ OwnersPage' /\ PageHeld' /\ ProfilesComplete'
    BY <2>1, <2>3 DEF IInv, OwnerUnlessCliFirst, OwnersPage, PageHeld, ProfilesComplete, torn, crossed
  <2> QED BY <2>5, <2>6, <2>7, <2>8, <2>9, <2>10 DEF IInv
<1> QED BY <1>2, <1>3

LEMMA StoreSecretStep ==
  ASSUME IInv, NEW s \in Servers, StoreSecret(s)
  PROVE  IInv'
<1>1. /\ TypeOK /\ s \in Procs /\ s \notin Clis /\ job[s].at = "store" /\ version = Latest
  BY Constants DEF IInv, Procs, StoreSecret, InOrder, Opened, Stages
<1>2. /\ secret' = (IF secret = NoSecret THEN s ELSE secret) /\ To(s, "reread")
      /\ UNCHANGED <<version, seq, role, name, handle, page, seeded, deaths, origin, mishaps>>
  BY DEF StoreSecret, past
<1>3. /\ job' \in [Procs -> Job]
      /\ job'[s].at = "reread" /\ job'[s].uid = job[s].uid /\ job'[s].cmd = job[s].cmd
      /\ job'[s].name = job[s].name
      /\ \A q \in Procs \ {s} : job'[q] = job[q]
  <2>1. "reread" \in Stages
    BY DEF Stages
  <2> QED BY <1>1, <1>2, <2>1, ToFact
<1>4. Live' = Live /\ Owners' = Owners /\ Claimants' = Claimants
  BY <1>1, <1>2, <1>3 DEF Live, Owners, Claimants, Claiming, Procs
<1>5. secret' \in Servers /\ secret' # NoSecret
  BY <1>1, <1>2, Constants DEF TypeOK
<1>6. TypeOK'
  BY <1>1, <1>2, <1>3, <1>4, <1>5 DEF TypeOK
<1>7. InOrder' /\ Older'
  BY <1>1, <1>2, <1>3, <1>4 DEF IInv, InOrder, Older, Opened, Latest, Procs
<1>8. Origins'
  BY <1>2, <1>3, <1>4 DEF IInv, Origins, Claiming, Procs
<1>9. Claims'
  <2> SUFFICES ASSUME NEW q \in Servers PROVE ClaimOK(q)'
    BY DEF Claims
  <2>1. CASE q = s
    BY <1>3, <2>1 DEF ClaimOK, Claiming
  <2>2. CASE q # s
    <3>1. job'[q] = job[q] /\ ClaimOK(q)
      BY <1>3, <2>2 DEF IInv, Claims, Procs
    <3> QED BY <1>2, <1>4, <3>1 DEF ClaimOK, crossed
  <2> QED BY <2>1, <2>2
<1>10. Adopted' /\ Secrets'
  <2>1. Adopted'
    BY <1>2, <1>4 DEF IInv, Adopted, torn
  <2> QED BY <1>2, <1>3, <1>5, <2>1 DEF IInv, Secrets, OneSecret, Procs
<1>11. OwnerUnlessCliFirst' /\ OwnersPage' /\ PageHeld' /\ ProfilesComplete'
  BY <1>2, <1>4 DEF IInv, OwnerUnlessCliFirst, OwnersPage, PageHeld, ProfilesComplete, torn, crossed
<1> QED BY <1>6, <1>7, <1>8, <1>9, <1>10, <1>11 DEF IInv

LEMMA CreateUserStep ==
  ASSUME IInv, NEW c \in Clis, CreateUser(c)
  PROVE  IInv'
<1> DEFINE n == job[c].name
           u == seq + 1
<1>1. /\ TypeOK /\ c \in Procs /\ c \notin Servers /\ job[c].at = "writing" /\ version = Latest
      /\ n \in Names /\ End(c) /\ seq \in 0..MaxId /\ MaxId \in Nat /\ job \in [Procs -> Job]
  BY Constants DEF IInv, TypeOK, Procs, CreateUser, InOrder, Opened, Stages
<1>2. CASE Named(n) # {} \/ \E i \in Ids : handle[i] = n
  <2>1. UNCHANGED <<rows, past>> /\ deaths' \in 0..MaxDeaths
    BY <1>1, <1>2 DEF CreateUser, rows, past, TypeOK
  <2> QED BY <1>1, <2>1, EndStep
<1>3. CASE ~(Named(n) # {} \/ \E i \in Ids : handle[i] = n)
  <2>1. /\ seq < MaxId /\ seq' = u
        /\ role' = [role EXCEPT ![u] = "admin"]
        /\ name' = [name EXCEPT ![u] = n]
        /\ handle' = [handle EXCEPT ![u] = n]
        /\ origin' = [origin EXCEPT ![u] = "cli"]
        /\ UNCHANGED <<version, page, seeded, secret, deaths, mishaps>>
    BY <1>3 DEF CreateUser, Insert
  <2>2. /\ u \in Ids /\ Live' = Live \cup {u} /\ u \notin Live /\ Live \subseteq Ids
        /\ First \in Live' /\ (Live = {} => u = First) /\ (Live # {} => First \in Live)
    BY <1>1, <2>1 DEF Ids, Live, First
  <2>3. /\ job' \in [Procs -> Job] /\ job'[c].at = "off" /\ job'[c].cmd = "-"
        /\ \A q \in Procs \ {c} : job'[q] = job[q]
    BY <1>1, EndFact
  <2>4. Named(n) = {} /\ \A i \in Ids : handle[i] # n
    BY <1>3
  <2> HIDE DEF u, n
  <2>5. /\ \A i \in Live : /\ role'[i] = role[i] /\ name'[i] = name[i]
                           /\ handle'[i] = handle[i] /\ origin'[i] = origin[i]
        /\ role'[u] = "admin" /\ name'[u] = n /\ handle'[u] = n /\ origin'[u] = "cli"
    BY <1>1, <2>1, <2>2 DEF TypeOK
  <2>6. Owners' = Owners
    <3>1. \A i \in Ids : role'[i] = "owner" <=> role[i] = "owner"
      BY <1>1, <2>1, <2>2 DEF TypeOK
    <3> QED BY <3>1 DEF Owners
  <2>7. Claimants' = Claimants /\ (torn' <=> torn) /\ (crossed' <=> crossed)
    BY <1>1, <2>1, <2>3 DEF Claimants, Procs, torn, crossed
  <2>8. TypeOK'
    <3>1. /\ version' \in 0..Latest /\ seq' \in 0..MaxId /\ page' \in 0..MaxId
          /\ seeded' \in 0..MaxId /\ {page', seeded'} \subseteq Live' \cup {0}
          /\ secret' \in Servers \cup {NoSecret} /\ deaths' \in 0..MaxDeaths
          /\ mishaps' \subseteq {"torn", "crossed"}
      BY <1>1, <2>1, <2>2 DEF TypeOK, Ids
    <3>2. /\ role' \in [Ids -> {"none", "owner", "admin"}]
          /\ \A i \in Ids : role'[i] = "none" <=> i \notin Live'
          /\ origin' \in [Ids -> {"none", "upgrade", "start", "cli"}]
      BY <1>1, <2>1, <2>2 DEF TypeOK
    <3>3. /\ name' \in [Ids -> Names \cup {NoName}]
          /\ \A i \in Ids : name'[i] = NoName <=> i \notin Live'
      BY <1>1, <2>1, <2>2, Constants DEF TypeOK
    <3>4. \A i, k \in Live' : name'[i] = name'[k] => i = k
      BY <1>1, <2>2, <2>4, <2>5 DEF TypeOK, Named
    <3>5. /\ handle' \in [Ids -> Names \cup {NoName}]
          /\ \A i, k \in Ids : handle'[i] = handle'[k] => i = k \/ handle'[i] = NoName
          /\ \A i \in Ids : handle'[i] # NoName => i \in Live'
      BY <1>1, <2>1, <2>2, <2>4, Constants DEF TypeOK
    <3> QED BY <2>3, <3>1, <3>2, <3>3, <3>4, <3>5 DEF TypeOK
  <2>9. InOrder'
    BY <1>1, <2>1, <2>2, <2>3 DEF IInv, InOrder, Procs, Opened
  <2>10. Older'
    BY <1>1, <2>1 DEF Older, Latest
  <2>11. Origins'
    <3>1. \A i \in Ids : origin'[i] = "none" <=> i \notin Live'
      BY <1>1, <2>1, <2>2 DEF IInv, Origins, TypeOK
    <3>2. \A i \in Live' : /\ origin'[i] = "start" => name'[i] = Root
                           /\ origin'[i] # "cli" => handle'[i] \in {NoName, Legacy}
      BY <2>2, <2>5 DEF IInv, Origins
    <3>3. \A s \in Servers : job'[s] = job[s]
      BY <1>1, <2>3 DEF Procs
    <3>4. \A s \in Servers : job'[s].at \in Claiming \cup {"insert"} =>
            \A i \in Live' : origin'[i] # "upgrade"
      BY <2>2, <2>5, <3>3 DEF IInv, Origins
    <3> QED BY <3>1, <3>2, <3>4 DEF Origins
  <2>12. Claims'
    <3> SUFFICES ASSUME NEW q \in Servers PROVE ClaimOK(q)'
      BY DEF Claims
    <3>1. job'[q] = job[q] /\ ClaimOK(q)
      BY <1>1, <2>3 DEF IInv, Claims, Procs
    <3> QED BY <2>1, <2>2, <2>5, <2>6, <2>7, <3>1 DEF ClaimOK
  <2>13. Adopted'
    BY <1>1, <2>1, <2>2, <2>5, <2>7 DEF IInv, Adopted, TypeOK
  <2>14. Secrets'
    BY <1>1, <2>1, <2>3 DEF IInv, Secrets, OneSecret, Procs
  <2>15. OwnerUnlessCliFirst' /\ OwnersPage'
    BY <2>1, <2>2, <2>5, <2>6, <2>7 DEF IInv, OwnerUnlessCliFirst, OwnersPage
  <2>16. PageHeld'
    BY <2>1, <2>2, <2>5, <2>7 DEF IInv, PageHeld
  <2>17. ProfilesComplete'
    BY <1>1, <2>1, <2>2, <2>5, <2>7, Constants DEF IInv, ProfilesComplete
  <2> QED BY <2>8, <2>9, <2>10, <2>11, <2>12, <2>13, <2>14, <2>15, <2>16, <2>17 DEF IInv
<1> QED BY <1>2, <1>3

LEMMA SetOwnerStep ==
  ASSUME IInv, NEW c \in Clis, SetOwner(c)
  PROVE  IInv'
<1> DEFINE u == job[c].uid
<1>1. /\ TypeOK /\ c \in Procs /\ c \notin Servers /\ job[c].at = "writing" /\ version = Latest
      /\ u \in Live /\ End(c) /\ page' = u
      /\ role' = [i \in Ids |-> IF i = u THEN "owner"
                                ELSE IF role[i] = "owner" THEN "admin" ELSE role[i]]
      /\ UNCHANGED <<version, seq, name, handle, seeded, secret, deaths, origin, mishaps>>
  BY Constants DEF IInv, Procs, SetOwner, InOrder, Opened, Stages, past
<1>2. /\ job' \in [Procs -> Job] /\ job'[c].at = "off" /\ job'[c].cmd = "-"
      /\ \A q \in Procs \ {c} : job'[q] = job[q]
  BY <1>1, EndFact
<1> HIDE DEF u
<1>3. u \in Ids /\ u # 0 /\ u \in 0..MaxId
  BY <1>1, Constants DEF TypeOK, Live, Ids
<1>4. Live' = Live /\ Claimants' = Claimants
  BY <1>1, <1>2 DEF Live, Claimants, Procs
<1>5. Owners' = {u}
  BY <1>1, <1>3 DEF Owners
<1>6. TypeOK'
  <2>1. /\ role' \in [Ids -> {"none", "owner", "admin"}]
        /\ \A i \in Ids : role'[i] = "none" <=> i \notin Live
    BY <1>1, <1>3 DEF TypeOK
  <2> QED BY <1>1, <1>2, <1>3, <1>4, <2>1 DEF TypeOK
<1>7. InOrder' /\ Older'
  BY <1>1, <1>2, <1>4 DEF IInv, InOrder, Older, Opened, Latest, Procs
<1>8. Origins'
  BY <1>1, <1>2, <1>4 DEF IInv, Origins, Procs
<1>9. Claims'
  <2> SUFFICES ASSUME NEW q \in Servers PROVE ClaimOK(q)'
    BY DEF Claims
  <2>1. job'[q] = job[q] /\ ClaimOK(q)
    BY <1>1, <1>2 DEF IInv, Claims, Procs
  <2> QED BY <1>1, <1>3, <1>4, <2>1 DEF ClaimOK
<1>10. Adopted' /\ Secrets'
  BY <1>1, <1>2, <1>4 DEF IInv, Adopted, Secrets, OneSecret, Procs, torn
<1>11. OwnerUnlessCliFirst' /\ OwnersPage' /\ PageHeld'
  BY <1>1, <1>3, <1>5 DEF OwnerUnlessCliFirst, OwnersPage, PageHeld
<1>12. ProfilesComplete'
  BY <1>1, <1>4 DEF IInv, ProfilesComplete, torn
<1> QED BY <1>6, <1>7, <1>8, <1>9, <1>10, <1>11, <1>12 DEF IInv

LEMMA DieStep ==
  ASSUME IInv, NEW p \in Procs, Die(p)
  PROVE  IInv'
<1>1. /\ TypeOK /\ End(p) /\ deaths' \in 0..MaxDeaths
      /\ UNCHANGED <<version, seq, role, name, handle, page, seeded, secret, origin>>
  BY Constants DEF IInv, TypeOK, Die, rows
<1>2. CASE job[p].at \notin Claiming
  <2>1. UNCHANGED <<rows, past>>
    BY <1>1, <1>2 DEF Die, rows, past
  <2> QED BY <1>1, <1>2, <2>1, EndStep
<1>3. CASE job[p].at \in Claiming
  <2>1. p \in Servers /\ version = Latest
    BY <1>3 DEF IInv, InOrder, Claiming, Procs, Opened, Stages
  <2>2. mishaps' = mishaps \cup {"torn"}
    BY <1>3 DEF Die
  <2>3. torn' /\ (crossed' <=> crossed) /\ mishaps' \subseteq {"torn", "crossed"}
    BY <1>1, <2>2 DEF torn, crossed, TypeOK
  <2>4. /\ job' \in [Procs -> Job] /\ job'[p].at = "off" /\ job'[p].cmd = "-"
        /\ \A q \in Procs \ {p} : job'[q] = job[q]
    BY <1>1, EndFact
  <2>5. Live' = Live /\ Owners' = Owners
    BY <1>1 DEF Live, Owners
  <2>6. TypeOK'
    BY <1>1, <2>3, <2>4, <2>5 DEF TypeOK
  <2>7. InOrder' /\ Older'
    BY <1>1, <2>1, <2>4, <2>5 DEF IInv, InOrder, Older, Opened, Latest, Procs
  <2>8. Origins'
    BY <1>1, <2>4, <2>5 DEF IInv, Origins, Claiming, Procs
  <2>9. Claims'
    <3> SUFFICES ASSUME NEW q \in Servers PROVE ClaimOK(q)'
      BY DEF Claims
    <3>1. CASE q = p
      BY <2>4, <3>1 DEF ClaimOK, Claiming
    <3>2. CASE q # p
      <4>1. job'[q] = job[q] /\ ClaimOK(q)
        BY <2>4, <3>2 DEF IInv, Claims, Procs
      <4> QED BY <1>1, <2>3, <2>5, <4>1 DEF ClaimOK
    <3> QED BY <3>1, <3>2
  <2>10. Adopted' /\ Secrets'
    BY <1>1, <2>3, <2>4, <2>5 DEF IInv, Adopted, Secrets, OneSecret, Procs
  <2>11. OwnerUnlessCliFirst' /\ OwnersPage' /\ PageHeld' /\ ProfilesComplete'
    BY <1>1, <2>3, <2>5 DEF IInv, OwnerUnlessCliFirst, OwnersPage, PageHeld, ProfilesComplete
  <2> QED BY <2>6, <2>7, <2>8, <2>9, <2>10, <2>11 DEF IInv
<1> QED BY <1>2, <1>3

LEMMA Stutter == IInv /\ UNCHANGED vars => IInv'
BY DEF vars, rows, past, IInv, TypeOK, InOrder, Older, Origins, Claims, ClaimOK, Adopted, Secrets,
       OneSecret, OwnerUnlessCliFirst, OwnersPage, PageHeld, ProfilesComplete, Live, Owners,
       Claimants, torn, crossed

LEMMA NextIInv == IInv /\ [Next]_vars => IInv'
<1> SUFFICES ASSUME IInv, [Next]_vars PROVE IInv'
  OBVIOUS
<1>1. CASE UNCHANGED vars
  BY <1>1, Stutter
<1>2. ASSUME NEW p \in Procs, Opening(p) PROVE IInv'
  BY <1>2, CheckStep, ApplyStep DEF Opening
<1>3. ASSUME NEW s \in Servers, ServerStep(s) PROVE IInv'
  BY <1>2, <1>3, CountStep, InsertOwnerStep, ClaimPageStep, CopyProfileStep, AdoptLinksStep,
     ResetOwnerStep, ReadSecretStep, StoreSecretStep DEF ServerStep, Procs
<1>4. ASSUME NEW c \in Clis, CliStep(c) PROVE IInv'
  BY <1>2, <1>4, ReadCommandStep, CreateUserStep, SetOwnerStep DEF CliStep, Procs
<1> QED BY <1>1, <1>3, <1>4, StartStep, CommandStep, DieStep DEF Next

-----------------------------------------------------------------------------
(* Theorems *)

THEOREM Invariance == Spec => []IInv
<1>1. Init => IInv
  BY InitIInv
<1>2. IInv /\ [Next]_vars => IInv'
  BY NextIInv
<1> QED BY <1>1, <1>2, PTL DEF Spec

(* Types hold, usernames and handles stay distinct and the page and the      *)
(* links refer to accounts, however many processes migrate, start, reset,    *)
(* create and die (store.Open, EnsureAdmin, CreateUser, SetOwner).           *)
THEOREM TypeCorrect == Spec => []TypeOK
<1>1. IInv => TypeOK
  BY DEF IInv
<1> QED BY <1>1, Invariance, PTL

(* An installation with accounts has an owner unless the command line made   *)
(* its first account (0004_user_roles.sql, EnsureAdmin, SetOwner).           *)
THEOREM AlwaysAnOwner == Spec => []OwnerUnlessCliFirst
<1>1. IInv => OwnerUnlessCliFirst
  BY DEF IInv
<1> QED BY <1>1, Invariance, PTL

(* One owner, who holds the page if anybody does, unless a first account was *)
(* inserted after another had appeared (EnsureAdmin counts and inserts in    *)
(* two statements).                                                          *)
THEOREM OwnerHoldsPage == Spec => []OwnersPage
<1>1. IInv => OwnersPage
  BY DEF IInv
<1> QED BY <1>1, Invariance, PTL

(* A page without holder is an unfinished or torn claim (claimProfile is not *)
(* in a transaction with the INSERT), or the command line came first.        *)
THEOREM PageIsHeld == Spec => []PageHeld
<1>1. IInv => PageHeld
  BY DEF IInv
<1> QED BY <1>1, Invariance, PTL

(* The page and links that ship with the schema go to one account: the       *)
(* migrations and claimProfile agree on it.                                  *)
THEOREM SeedIsAdopted == Spec => []SeedAdopted
<1>1. IInv => SeedAdopted
  <2> SUFFICES ASSUME IInv, version = Latest, Live # {}, origin[First] # "cli", ~torn, Claimants = {}
               PROVE  /\ seeded # 0
                      /\ \/ handle[seeded] = Legacy
                         \/ \E i \in Live : origin[i] = "cli" /\ handle[i] = Legacy
    BY DEF SeedAdopted
  <2>1. First \in Live /\ First \in Ids
    <3>1. seq \in 0..MaxId /\ MaxId \in Nat
      BY Constants DEF IInv, TypeOK
    <3> QED BY <3>1 DEF Live, First, Ids
  <2>2. origin[First] \in {"upgrade", "start"}
    BY <2>1 DEF IInv, TypeOK, Origins
  <2> QED BY <2>2 DEF IInv, Adopted
<1> QED BY <1>1, Invariance, PTL

(* Accounts without a profile are those an upgrade found beside the page's,  *)
(* or a first account whose claim did not come to its end.                   *)
THEOREM ProfilesAreComplete == Spec => []ProfilesComplete
<1>1. IInv => ProfilesComplete
  BY DEF IInv
<1> QED BY <1>1, Invariance, PTL

(* All serving processes hold the stored secret, whichever of the concurrent *)
(* inserts won (settings.go EnsureSecret).                                   *)
THEOREM SecretsAgree == Spec => []OneSecret
<1>1. IInv => OneSecret
  BY DEF IInv, Secrets
<1> QED BY <1>1, Invariance, PTL

=============================================================================
