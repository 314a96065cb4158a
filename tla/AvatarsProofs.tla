--------------------------- MODULE AvatarsProofs ----------------------------
(***************************************************************************)
(* For every number of accounts, requests and files.  What carries the     *)
(* proofs is who can still name a file: a file that has not been published *)
(* yet is known to its own request only (Unpublished), one that a request  *)
(* is about to remove is nobody's picture any more (Replaced), and every   *)
(* temporary file is being uploaded or is debris (Temporary).  The serving *)
(* process of Shutdown only takes steps of Avatars, so that what holds of  *)
(* the pictures holds through its life; that the database is closed on     *)
(* drained requests needs the listener to be closed before (Closing).      *)
(***************************************************************************)
EXTENDS Shutdown, TLAPS

Fresh(p) == job[p].at \in {"temp", "stored", "read"} /\ job[p].file # NoFile

Drawn ==
  /\ \A u \in Users : url[u] <= drawn
  /\ \A p \in Procs : job[p].file <= drawn /\ job[p].prev <= drawn

Unpublished ==
  \A p \in Procs : Fresh(p) =>
    /\ job[p].at \in {"stored", "read"} => job[p].file \in disk
    /\ \A u \in Users : url[u] # job[p].file
    /\ \A q \in Procs : job[q].prev # job[p].file
    /\ \A q \in Procs \ {p} : job[q].file # job[p].file

Replaced ==
  \A p \in Procs, u \in Users :
    job[p].prev # NoFile /\ url[u] = job[p].prev => job[p].at = "read" /\ job[p].user = u

Temporary ==
  \A t \in temps : t \in debris \/ \E p \in Procs : job[p].at = "temp" /\ job[p].file = t

IInv ==
  /\ TypeOK
  /\ Drawn
  /\ \A u, v \in Users : url[u] = url[v] => url[u] = NoFile \/ u = v
  /\ \A p \in Procs : job[p].at = "temp" => job[p].file # NoFile
  /\ \A p \in Procs : job[p].at # "idle" => job[p].user \in Users
  /\ \A p \in Procs : job[p].at \in {"idle", "temp", "stored"} => job[p].prev = NoFile
  /\ Unpublished
  /\ Replaced
  /\ Temporary
  /\ PicturesExist
  /\ NothingForgotten

-----------------------------------------------------------------------------
(* Facts used by every step *)

LEMMA JobFields ==
  ASSUME TypeOK, NEW p \in Procs
  PROVE  /\ job[p].at \in Stages /\ job[p].user \in Users \cup {NoUser}
         /\ job[p].file \in 0..MaxFile /\ job[p].prev \in 0..MaxFile
BY DEF TypeOK, Job

(* Nothing forgotten, as a statement about one file. *)
LEMMA ForgottenFact ==
  /\ NothingForgotten <=>
       \A f \in disk \cup temps :
         (\E u \in Users : url[u] = f) \/ (\E p \in Procs : f \in Held(p)) \/ f \in debris
  /\ NothingForgotten' <=>
       \A f \in disk' \cup temps' :
         (\E u \in Users : url'[u] = f) \/ (\E p \in Procs : f \in Held(p)') \/ f \in debris'
<1>1. \A f : f \in {url[u] : u \in Users} <=> \E u \in Users : url[u] = f
  OBVIOUS
<1>2. \A f : f \in UNION {Held(p) : p \in Procs} <=> \E p \in Procs : f \in Held(p)
  OBVIOUS
<1>3. \A f : f \in {url'[u] : u \in Users} <=> \E u \in Users : url'[u] = f
  OBVIOUS
<1>4. \A f : f \in UNION {Held(p)' : p \in Procs} <=> \E p \in Procs : f \in Held(p)'
  OBVIOUS
<1>5. NothingForgotten' <=>
        disk' \cup temps' \subseteq
          {url'[u] : u \in Users} \cup (UNION {Held(p)' : p \in Procs}) \cup debris'
  BY DEF NothingForgotten
<1>6. NothingForgotten <=>
       \A f \in disk \cup temps :
         (\E u \in Users : url[u] = f) \/ (\E p \in Procs : f \in Held(p)) \/ f \in debris
  BY <1>1, <1>2 DEF NothingForgotten
<1>7. NothingForgotten' <=>
       \A f \in disk' \cup temps' :
         (\E u \in Users : url'[u] = f) \/ (\E p \in Procs : f \in Held(p)') \/ f \in debris'
  BY <1>3, <1>4, <1>5
<1> QED BY <1>6, <1>7

LEMMA HeldFact ==
  ASSUME NEW p \in Procs, NEW f
  PROVE  /\ f \in Held(p) <=>
              /\ f # NoFile
              /\ \/ job[p].at \in {"temp", "stored", "read"} /\ f = job[p].file
                 \/ job[p].at = "set" /\ f = job[p].prev
         /\ f \in Held(p)' <=>
              /\ f # NoFile
              /\ \/ job'[p].at \in {"temp", "stored", "read"} /\ f = job'[p].file
                 \/ job'[p].at = "set" /\ f = job'[p].prev
<1>1. f \in Held(p) <=>
        /\ f # NoFile
        /\ \/ job[p].at \in {"temp", "stored", "read"} /\ f = job[p].file
           \/ job[p].at = "set" /\ f = job[p].prev
  <2>1. CASE job[p].at \in {"temp", "stored", "read"}
    BY <2>1 DEF Held
  <2>2. CASE job[p].at = "set"
    BY <2>2 DEF Held
  <2>3. CASE job[p].at \notin {"temp", "stored", "read"} /\ job[p].at # "set"
    BY <2>3 DEF Held
  <2> QED BY <2>1, <2>2, <2>3
<1>2. f \in Held(p)' <=>
        /\ f # NoFile
        /\ \/ job'[p].at \in {"temp", "stored", "read"} /\ f = job'[p].file
           \/ job'[p].at = "set" /\ f = job'[p].prev
  <2>1. CASE job'[p].at \in {"temp", "stored", "read"}
    BY <2>1 DEF Held
  <2>2. CASE job'[p].at = "set"
    BY <2>2 DEF Held
  <2>3. CASE job'[p].at \notin {"temp", "stored", "read"} /\ job'[p].at # "set"
    BY <2>3 DEF Held
  <2> QED BY <2>1, <2>2, <2>3
<1> QED BY <1>1, <1>2

LEMMA InitIInv == Init => IInv
<1> SUFFICES ASSUME Init PROVE IInv
  OBVIOUS
<1>1. \A p \in Procs : job[p] = Idle
  BY DEF Init
<1>2. \A u \in Users : url[u] = NoFile
  BY DEF Init
<1>3. TypeOK
  <2>1. Idle \in Job
    BY AvatarsAssumption DEF Idle, Job, Stages, NoFile
  <2> QED BY <2>1, AvatarsAssumption DEF Init, TypeOK, NoFile
<1>4. Drawn
  BY <1>1, <1>2 DEF Init, Drawn, Idle, NoFile
<1>5. Unpublished /\ Replaced
  BY <1>1 DEF Unpublished, Replaced, Fresh, Idle
<1>6. PicturesExist /\ NothingForgotten
  BY <1>2 DEF PicturesExist, NothingForgotten, Init
<1>7. Temporary
  BY DEF Init, Temporary
<1> QED BY <1>1, <1>2, <1>3, <1>4, <1>5, <1>6, <1>7 DEF IInv, Idle

-----------------------------------------------------------------------------
(* One lemma for each kind of step *)

(* A request starts: with a name nobody has, or with none. *)
LEMMA BeginStep ==
  ASSUME IInv, NEW p \in Procs, NEW u \in Users,
         BeginUpload(p, u) \/ BeginClear(p, u)
  PROVE  IInv'
<1> DEFINE f == IF drawn' = drawn THEN NoFile ELSE drawn + 1
           j == [at |-> IF drawn' = drawn THEN "stored" ELSE "temp",
                 user |-> u, file |-> f, prev |-> NoFile]
<1>1. TypeOK /\ Drawn /\ drawn \in Nat
  BY DEF IInv, TypeOK
<1>2. /\ job[p] = Idle /\ job' = [job EXCEPT ![p] = j]
      /\ UNCHANGED <<alive, url, disk, debris>>
      /\ \/ drawn' = drawn /\ temps' = temps
         \/ drawn < MaxFile /\ drawn' = drawn + 1 /\ temps' = temps \cup {drawn + 1}
  <2>1. CASE BeginUpload(p, u)
    <3>1. drawn' = drawn + 1 /\ drawn' # drawn
      BY <2>1, <1>1 DEF BeginUpload
    <3>2. j = [at |-> "temp", user |-> u, file |-> drawn + 1, prev |-> NoFile]
      BY <3>1
    <3> QED BY <2>1, <3>1, <3>2 DEF BeginUpload
  <2>2. CASE BeginClear(p, u)
    <3>1. drawn' = drawn
      BY <2>2 DEF BeginClear
    <3>2. j = [at |-> "stored", user |-> u, file |-> NoFile, prev |-> NoFile]
      BY <3>1
    <3> QED BY <2>2, <3>1, <3>2 DEF BeginClear
  <2> QED BY <2>1, <2>2
<1>3. f = NoFile \/ (f = drawn + 1 /\ f \in Files /\ drawn' = f)
  <2>1. CASE drawn' = drawn
    BY <2>1
  <2>2. CASE drawn' # drawn
    <3>1. drawn < MaxFile /\ drawn' = drawn + 1 /\ f = drawn + 1
      BY <2>2, <1>2
    <3> HIDE DEF f
    <3> QED BY <3>1, <1>1, AvatarsAssumption DEF Files
  <2> QED BY <2>1, <2>2
<1>4. j \in Job /\ j.user = u /\ j.file = f /\ j.prev = NoFile
  BY <1>3, AvatarsAssumption DEF Job, Stages, Files, NoFile
<1>5. j.at \in {"stored", "temp"} /\ (j.at = "temp" <=> f # NoFile)
  <2>1. drawn + 1 # NoFile
    BY <1>1 DEF NoFile
  <2> QED BY <2>1
<1>6. drawn <= drawn' /\ f <= drawn' /\ drawn' \in 0..MaxFile /\ temps' \subseteq temps \cup ({f} \ {NoFile})
  <2>1. CASE drawn' = drawn /\ temps' = temps
    BY <1>1, <2>1, AvatarsAssumption DEF TypeOK, NoFile
  <2>2. CASE drawn < MaxFile /\ drawn' = drawn + 1 /\ temps' = temps \cup {drawn + 1}
    <3>1. f = drawn + 1 /\ f # NoFile
      BY <1>1, <2>2 DEF NoFile
    <3> HIDE DEF f
    <3> QED BY <1>1, <2>2, <3>1, AvatarsAssumption DEF TypeOK
  <2> QED BY <1>2, <2>1, <2>2
<1> HIDE DEF j, f
<1>7. \A q \in Procs : job'[q] = IF q = p THEN j ELSE job[q]
  BY <1>1, <1>2 DEF TypeOK
<1>8. TypeOK'
  <2>1. job' \in [Procs -> Job]
    BY <1>1, <1>2, <1>4 DEF TypeOK
  <2>2. temps' \subseteq Files
    BY <1>1, <1>3, <1>6 DEF TypeOK
  <2> QED BY <1>1, <1>2, <1>6, <2>1, <2>2 DEF TypeOK
<1>9. \A q \in Procs : job[q].file \in Nat /\ job[q].prev \in Nat
  BY <1>1, JobFields
<1>10. \A v \in Users : url[v] \in Nat
  BY <1>1 DEF TypeOK
<1>11. Drawn'
  <2>1. ASSUME NEW q \in Procs PROVE job'[q].file <= drawn' /\ job'[q].prev <= drawn'
    <3>1. job[q].file <= drawn /\ job[q].prev <= drawn
      BY <1>1 DEF Drawn
    <3>2. drawn' \in Nat
      BY <1>6, AvatarsAssumption
    <3> QED BY <3>1, <3>2, <1>1, <1>4, <1>6, <1>7, <1>9 DEF NoFile
  <2>2. ASSUME NEW v \in Users PROVE url'[v] <= drawn'
    <3>1. url[v] <= drawn /\ url'[v] = url[v]
      BY <1>1, <1>2 DEF Drawn
    <3>2. drawn' \in Nat
      BY <1>6, AvatarsAssumption
    <3> QED BY <3>1, <3>2, <1>1, <1>6, <1>10
  <2> QED BY <2>1, <2>2 DEF Drawn
<1>12. f = NoFile \/ ( /\ \A q \in Procs : job[q].file # f /\ job[q].prev # f
                      /\ \A v \in Users : url[v] # f)
  BY <1>1, <1>3, <1>9, <1>10 DEF Drawn
<1>13. Unpublished'
  <2>1. ASSUME NEW q \in Procs, Fresh(q)'
        PROVE  /\ job'[q].at \in {"stored", "read"} => job'[q].file \in disk'
               /\ \A v \in Users : url'[v] # job'[q].file
               /\ \A r \in Procs : job'[r].prev # job'[q].file
               /\ \A r \in Procs \ {q} : job'[r].file # job'[q].file
    <3>1. CASE q = p
      <4>1. job'[q] = j /\ f # NoFile /\ j.at = "temp"
        BY <2>1, <3>1, <1>4, <1>5, <1>7 DEF Fresh
      <4> QED BY <3>1, <4>1, <1>2, <1>4, <1>7, <1>12
    <3>2. CASE q # p
      <4>1. job'[q] = job[q] /\ Fresh(q)
        BY <2>1, <3>2, <1>7 DEF Fresh
      <4>2. job[q].file # f
        BY <4>1, <1>12 DEF Fresh
      <4>3. job[q].file # NoFile
        BY <4>1 DEF Fresh
      <4> QED BY <4>1, <4>2, <4>3, <1>2, <1>4, <1>7 DEF IInv, Unpublished
    <3> QED BY <3>1, <3>2
  <2> QED BY <2>1 DEF Unpublished
<1>14. Replaced'
  BY <1>2, <1>4, <1>7 DEF IInv, Replaced
<1>15. NothingForgotten'
  <2>1. ASSUME NEW g \in disk' \cup temps'
        PROVE  (\E v \in Users : url'[v] = g) \/ (\E q \in Procs : g \in Held(q)') \/ g \in debris'
    <3>1. CASE g = f /\ f # NoFile
      <4>1. g \in Held(p)'
        BY <3>1, <1>4, <1>5, <1>7, HeldFact
      <4> QED BY <4>1
    <3>2. CASE ~(g = f /\ f # NoFile)
      <4>1. g \in disk \cup temps
        BY <3>2, <1>2, <1>6
      <4>2. ASSUME NEW q \in Procs, g \in Held(q) PROVE g \in Held(q)'
        <5>1. q # p
          BY <4>2, <1>2, HeldFact DEF Idle
        <5> QED BY <4>2, <5>1, <1>7, HeldFact
      <4> QED BY <4>1, <4>2, <1>2, ForgottenFact DEF IInv
    <3> QED BY <3>1, <3>2
  <2> QED BY <2>1, ForgottenFact
<1>16. \A q \in Procs : /\ job'[q].at = "temp" => job'[q].file # NoFile
                        /\ job'[q].at # "idle" => job'[q].user \in Users
                        /\ job'[q].at \in {"idle", "temp", "stored"} => job'[q].prev = NoFile
  BY <1>4, <1>5, <1>7 DEF IInv
<1>17. PicturesExist' /\ \A v, w \in Users : url'[v] = url'[w] => url'[v] = NoFile \/ v = w
  BY <1>2 DEF IInv, PicturesExist
<1>18. Temporary'
  <2>1. ASSUME NEW t \in temps', t \notin debris'
        PROVE  \E q \in Procs : job'[q].at = "temp" /\ job'[q].file = t
    <3>1. CASE t = f /\ f # NoFile
      BY <3>1, <1>4, <1>5, <1>7
    <3>2. CASE ~(t = f /\ f # NoFile)
      <4>1. PICK q \in Procs : job[q].at = "temp" /\ job[q].file = t
        BY <2>1, <3>2, <1>2, <1>6 DEF IInv, Temporary
      <4>2. q # p
        BY <4>1, <1>2 DEF Idle
      <4> QED BY <4>1, <4>2, <1>7
    <3> QED BY <3>1, <3>2
  <2> QED BY <2>1 DEF Temporary
<1> QED BY <1>8, <1>11, <1>13, <1>14, <1>15, <1>16, <1>17, <1>18 DEF IInv

(* SetAvatarURL's read: what it finds is the picture of this account only.   *)
LEMMA ReadStep ==
  ASSUME IInv, NEW p \in Procs, ReadCurrent(p)
  PROVE  IInv'
<1> DEFINE u == job[p].user
<1>1. TypeOK /\ Drawn
  BY DEF IInv
<1>2. /\ job[p].at = "stored" /\ u \in alive /\ u \in Users
      /\ UNCHANGED <<alive, url, disk, temps, drawn, debris>>
  BY <1>1 DEF ReadCurrent, TypeOK
<1>3. \A q \in Procs : q # p => job'[q] = job[q]
  BY <1>1 DEF ReadCurrent, TypeOK
<1>4. job'[p].at = "read" /\ job'[p].user = u /\ job'[p].file = job[p].file /\ job'[p].prev = url[u]
  <2>1. job[p] \in Job
    BY <1>1 DEF TypeOK
  <2> QED BY <2>1, <1>1 DEF ReadCurrent, TypeOK, Job
<1>5. TypeOK'
  <2>1. job' = [job EXCEPT ![p] = [job[p] EXCEPT !.at = "read", !.prev = url[u]]]
    BY <1>1 DEF ReadCurrent, TypeOK
  <2>2. [job[p] EXCEPT !.at = "read", !.prev = url[u]] \in Job
    BY <1>1, <1>2 DEF TypeOK, Job, Stages
  <2>3. job' \in [Procs -> Job]
    BY <1>1, <2>1, <2>2 DEF TypeOK
  <2> QED BY <1>1, <1>2, <2>3 DEF TypeOK
<1> HIDE DEF u
<1>6. Drawn'
  <2>1. \A q \in Procs : job'[q].file <= drawn /\ job'[q].prev <= drawn
    BY <1>1, <1>2, <1>3, <1>4 DEF Drawn
  <2> QED BY <1>1, <1>2, <2>1 DEF Drawn
<1>7. \A q \in Procs : /\ job'[q].file = job[q].file
                       /\ Fresh(q)' = Fresh(q)
                       /\ job'[q].at \in {"stored", "read"} => job[q].at \in {"stored", "read"}
  BY <1>2, <1>3, <1>4 DEF Fresh
<1>8. Unpublished'
  <2>1. ASSUME NEW q \in Procs, Fresh(q)
        PROVE  /\ job'[q].at \in {"stored", "read"} => job'[q].file \in disk'
               /\ \A v \in Users : url'[v] # job'[q].file
               /\ \A r \in Procs : job'[r].prev # job'[q].file
               /\ \A r \in Procs \ {q} : job'[r].file # job'[q].file
    <3>1. ASSUME NEW r \in Procs PROVE job'[r].prev # job[q].file
      BY <2>1, <1>2, <1>3, <1>4 DEF IInv, Unpublished
    <3> QED BY <2>1, <3>1, <1>2, <1>7 DEF IInv, Unpublished
  <2> QED BY <2>1, <1>7 DEF Unpublished
<1>9. Replaced'
  BY <1>2, <1>3, <1>4 DEF IInv, Replaced
<1>10. NothingForgotten'
  <2>1. \A q \in Procs, g \in Files : g \in Held(q) => g \in Held(q)'
    BY <1>2, <1>3, <1>4, HeldFact
  <2>2. disk \cup temps \subseteq Files
    BY <1>1 DEF TypeOK
  <2> QED BY <2>1, <2>2, <1>2, ForgottenFact DEF IInv
<1>11. \A q \in Procs : /\ job'[q].at = "temp" => job'[q].file # NoFile
                        /\ job'[q].at # "idle" => job'[q].user \in Users
                        /\ job'[q].at \in {"idle", "temp", "stored"} => job'[q].prev = NoFile
  BY <1>2, <1>3, <1>4 DEF IInv
<1>12. PicturesExist' /\ \A v, w \in Users : url'[v] = url'[w] => url'[v] = NoFile \/ v = w
  BY <1>2 DEF IInv, PicturesExist
<1>13. Temporary'
  BY <1>2, <1>3 DEF IInv, Temporary
<1> QED BY <1>5, <1>6, <1>8, <1>9, <1>10, <1>11, <1>12, <1>13 DEF IInv

(* The rename publishes the file's name to nobody yet. *)
LEMMA RenameStep ==
  ASSUME IInv, NEW p \in Procs, Rename(p)
  PROVE  IInv'
<1>1. TypeOK /\ Drawn
  BY DEF IInv
<1>2. /\ job[p].at = "temp" /\ job[p].file # NoFile /\ job[p].prev = NoFile
      /\ disk' = disk \cup {job[p].file} /\ temps' = temps \ {job[p].file}
      /\ UNCHANGED <<alive, url, drawn, debris>>
  BY DEF Rename, IInv
<1>3. \A q \in Procs : q # p => job'[q] = job[q]
  BY <1>1 DEF Rename, Goto, TypeOK
<1>4. /\ job'[p].at = "stored" /\ job'[p].user = job[p].user
      /\ job'[p].file = job[p].file /\ job'[p].prev = job[p].prev
  <2>1. job[p] \in Job
    BY <1>1 DEF TypeOK
  <2> QED BY <2>1, <1>1 DEF Rename, Goto, TypeOK, Job
<1>5. TypeOK'
  <2>1. job' = [job EXCEPT ![p] = [job[p] EXCEPT !.at = "stored"]]
    BY <1>1 DEF Rename, Goto, TypeOK
  <2>2. [job[p] EXCEPT !.at = "stored"] \in Job
    BY <1>1 DEF TypeOK, Job, Stages
  <2>3. job' \in [Procs -> Job]
    BY <1>1, <2>1, <2>2 DEF TypeOK
  <2>4. job[p].file \in Files
    BY <1>1, <1>2, JobFields DEF Files, NoFile
  <2> QED BY <1>1, <1>2, <2>3, <2>4 DEF TypeOK
<1>6. \A q \in Procs : /\ job'[q].file = job[q].file /\ job'[q].prev = job[q].prev
                       /\ Fresh(q)' = Fresh(q)
  BY <1>2, <1>3, <1>4 DEF Fresh
<1>7. Drawn'
  BY <1>1, <1>2, <1>6 DEF Drawn
<1>8. Unpublished'
  <2>1. ASSUME NEW q \in Procs, Fresh(q), job'[q].at \in {"stored", "read"}
        PROVE  job'[q].file \in disk'
    BY <2>1, <1>2, <1>3, <1>6 DEF IInv, Unpublished
  <2> QED BY <2>1, <1>2, <1>6 DEF IInv, Unpublished
<1>9. Replaced'
  BY <1>2, <1>3, <1>4 DEF IInv, Replaced
<1>10. NothingForgotten'
  <2>1. \A q \in Procs, g \in Files : g \in Held(q) => g \in Held(q)'
    BY <1>2, <1>3, <1>4, HeldFact
  <2>2. disk \cup temps \subseteq Files
    BY <1>1 DEF TypeOK
  <2>3. job[p].file \in Held(p)'
    BY <1>2, <1>4, HeldFact
  <2>4. \A g \in disk' \cup temps' : g \in disk \cup temps \/ g = job[p].file
    BY <1>2
  <2> QED BY <2>1, <2>2, <2>3, <2>4, <1>2, ForgottenFact DEF IInv
<1>11. \A q \in Procs : /\ job'[q].at = "temp" => job'[q].file # NoFile
                        /\ job'[q].at # "idle" => job'[q].user \in Users
                        /\ job'[q].at \in {"idle", "temp", "stored"} => job'[q].prev = NoFile
  BY <1>2, <1>3, <1>4 DEF IInv
<1>12. PicturesExist' /\ \A v, w \in Users : url'[v] = url'[w] => url'[v] = NoFile \/ v = w
  BY <1>2 DEF IInv, PicturesExist
<1>13. Temporary'
  BY <1>2, <1>3 DEF IInv, Temporary
<1> QED BY <1>5, <1>7, <1>8, <1>9, <1>10, <1>11, <1>12, <1>13 DEF IInv

(* The new name is published: it was nobody's, so it is nobody's previous     *)
(* picture either.                                                           *)
LEMMA UpdateStep ==
  ASSUME IInv, NEW p \in Procs, UpdateURL(p)
  PROVE  IInv'
<1> DEFINE u == job[p].user
           f == job[p].file
<1>1. TypeOK /\ Drawn
  BY DEF IInv
<1>2. /\ job[p].at = "read" /\ u \in Users
      /\ UNCHANGED <<alive, disk, temps, drawn>>
  BY DEF UpdateURL, IInv
<1>3. \A q \in Procs : q # p => job'[q] = job[q]
  BY <1>1 DEF UpdateURL, Goto, TypeOK
<1>4. job'[p].at = "set" /\ job'[p].user = u /\ job'[p].file = f /\ job'[p].prev = job[p].prev
  <2>1. job[p] \in Job
    BY <1>1 DEF TypeOK
  <2> QED BY <2>1, <1>1 DEF UpdateURL, Goto, TypeOK, Job
<1>5. job' \in [Procs -> Job]
  <2>1. job' = [job EXCEPT ![p] = [job[p] EXCEPT !.at = "set"]]
    BY <1>1 DEF UpdateURL, Goto, TypeOK
  <2>2. [job[p] EXCEPT !.at = "set"] \in Job
    BY <1>1 DEF TypeOK, Job, Stages
  <2> QED BY <1>1, <2>1, <2>2 DEF TypeOK
<1>6. \/ /\ u \in alive
         /\ url' = [url EXCEPT ![u] = f]
         /\ debris' = debris \cup ({url[u]} \ {job[p].prev, NoFile})
      \/ u \notin alive /\ url' = url /\ debris' = debris \cup ({f} \ {NoFile})
  BY DEF UpdateURL
<1>7. f \in 0..MaxFile
  BY <1>1, JobFields
<1>8. f = NoFile \/ ( /\ f \in disk
                      /\ \A v \in Users : url[v] # f
                      /\ \A q \in Procs : job[q].prev # f)
  BY <1>2 DEF IInv, Unpublished, Fresh
<1> HIDE DEF u, f
<1>9. \A v \in Users : \/ url'[v] = url[v] /\ (v = u => u \notin alive)
                       \/ v = u /\ u \in alive /\ url'[v] = f
  BY <1>1, <1>6 DEF TypeOK
<1>10. TypeOK'
  <2>1. url' \in [Users -> 0..MaxFile]
    BY <1>1, <1>6, <1>7 DEF TypeOK
  <2>2. debris' \subseteq Files
    <3>1. \A g \in 0..MaxFile : g # NoFile => g \in Files
      BY AvatarsAssumption DEF Files, NoFile
    <3>2. \A v \in Users : url[v] \in 0..MaxFile
      BY <1>1 DEF TypeOK
    <3> QED BY <3>1, <3>2, <1>1, <1>2, <1>6, <1>7 DEF TypeOK
  <2>3. \A v \in Users : url'[v] # NoFile => v \in alive'
    BY <1>1, <1>2, <1>9 DEF TypeOK
  <2> QED BY <1>1, <1>2, <1>5, <2>1, <2>2, <2>3 DEF TypeOK
<1>11. Drawn'
  <2>1. f <= drawn
    BY <1>1 DEF Drawn, f
  <2>2. \A q \in Procs : job'[q].file <= drawn /\ job'[q].prev <= drawn
    BY <2>1, <1>1, <1>3, <1>4 DEF Drawn
  <2>3. \A v \in Users : url'[v] <= drawn
    BY <2>1, <1>1, <1>9 DEF Drawn
  <2> QED BY <2>2, <2>3, <1>2 DEF Drawn
<1>12. \A v, w \in Users : url'[v] = url'[w] => url'[v] = NoFile \/ v = w
  BY <1>8, <1>9 DEF IInv
<1>13. Unpublished'
  <2>1. ASSUME NEW q \in Procs, Fresh(q)'
        PROVE  /\ job'[q].at \in {"stored", "read"} => job'[q].file \in disk'
               /\ \A v \in Users : url'[v] # job'[q].file
               /\ \A r \in Procs : job'[r].prev # job'[q].file
               /\ \A r \in Procs \ {q} : job'[r].file # job'[q].file
    <3>1. q # p
      BY <2>1, <1>4 DEF Fresh
    <3>2. job'[q] = job[q] /\ Fresh(q) /\ job[q].file # NoFile
      BY <2>1, <3>1, <1>3 DEF Fresh
    <3>3. /\ job[q].at \in {"stored", "read"} => job[q].file \in disk
          /\ \A v \in Users : url[v] # job[q].file
          /\ \A r \in Procs : job[r].prev # job[q].file
          /\ \A r \in Procs \ {q} : job[r].file # job[q].file
      BY <3>2 DEF IInv, Unpublished
    <3>4. f # job[q].file
      BY <3>1, <3>3 DEF f
    <3>5. \A v \in Users : url'[v] # job[q].file
      BY <3>3, <3>4, <1>9
    <3>6. \A r \in Procs : job'[r].prev = job[r].prev /\ job'[r].file = job[r].file
      BY <1>3, <1>4 DEF f
    <3> QED BY <3>2, <3>3, <3>5, <3>6, <1>2
  <2> QED BY <2>1 DEF Unpublished
<1>14. Replaced'
  <2>1. ASSUME NEW q \in Procs, NEW v \in Users,
               job'[q].prev # NoFile, url'[v] = job'[q].prev
        PROVE  job'[q].at = "read" /\ job'[q].user = v
    <3>1. job'[q].prev = job[q].prev
      BY <1>3, <1>4
    <3>2. url'[v] = url[v] /\ (v = u => u \notin alive)
      BY <2>1, <3>1, <1>8, <1>9
    <3>3. job[q].at = "read" /\ job[q].user = v
      BY <2>1, <3>1, <3>2 DEF IInv, Replaced
    <3>4. v \in alive
      BY <2>1, <3>2, <1>1 DEF TypeOK
    <3>5. q # p
      BY <3>2, <3>3, <3>4 DEF u
    <3> QED BY <3>3, <3>5, <1>3
  <2> QED BY <2>1 DEF Replaced
<1>15. PicturesExist'
  BY <1>2, <1>8, <1>9 DEF IInv, PicturesExist
<1>16. NothingForgotten'
  <2>1. ASSUME NEW g \in disk' \cup temps'
        PROVE  (\E v \in Users : url'[v] = g) \/ (\E q \in Procs : g \in Held(q)') \/ g \in debris'
    <3>1. g \in disk \cup temps /\ g \in Files /\ g # NoFile
      BY <1>1, <1>2 DEF TypeOK, Files, NoFile
    <3>2. CASE \E v \in Users : url[v] = g
      <4>1. PICK v \in Users : url[v] = g
        BY <3>2
      <4>2. CASE v = u /\ u \in alive
        <5>1. CASE g = job[p].prev
          <6>1. g \in Held(p)'
            BY <5>1, <3>1, <1>4, HeldFact
          <6> QED BY <6>1
        <5>2. CASE g # job[p].prev
          BY <4>1, <4>2, <5>2, <3>1, <1>6
        <5> QED BY <5>1, <5>2
      <4>3. CASE ~(v = u /\ u \in alive)
        BY <4>1, <4>3, <1>9
      <4> QED BY <4>2, <4>3
    <3>3. CASE \E q \in Procs : g \in Held(q)
      <4>1. PICK q \in Procs : g \in Held(q)
        BY <3>3
      <4>2. CASE q = p
        <5>1. g = f
          BY <4>1, <4>2, <1>2, HeldFact DEF f
        <5>2. CASE u \in alive
          <6>1. url'[u] = g
            BY <5>1, <5>2, <1>2, <1>9
          <6> QED BY <6>1, <1>2
        <5>3. CASE u \notin alive
          BY <5>1, <5>3, <3>1, <1>6
        <5> QED BY <5>2, <5>3
      <4>3. CASE q # p
        <5>1. g \in Held(q)'
          BY <4>1, <4>3, <1>3, HeldFact
        <5> QED BY <5>1
      <4> QED BY <4>2, <4>3
    <3>4. CASE g \in debris
      BY <3>4, <1>6
    <3> QED BY <3>1, <3>2, <3>3, <3>4, ForgottenFact DEF IInv
  <2> QED BY <2>1, ForgottenFact
<1>17. \A q \in Procs : /\ job'[q].at = "temp" => job'[q].file # NoFile
                        /\ job'[q].at # "idle" => job'[q].user \in Users
                        /\ job'[q].at \in {"idle", "temp", "stored"} => job'[q].prev = NoFile
  BY <1>2, <1>3, <1>4 DEF IInv
<1>18. Temporary'
  BY <1>2, <1>3, <1>6 DEF IInv, Temporary
<1> QED BY <1>10, <1>11, <1>12, <1>13, <1>14, <1>15, <1>16, <1>17, <1>18 DEF IInv

(* What a step that only ends requests, and deletes or writes off files no    *)
(* picture needs, has to show.                                               *)
LEMMA EndStep ==
  ASSUME IInv, NEW Ended \in SUBSET Procs, NEW gone,
         UNCHANGED <<alive, url, drawn>>,
         job' = [q \in Procs |-> IF q \in Ended THEN Idle ELSE job[q]],
         disk' = disk \ gone, temps' \subseteq temps,
         debris \subseteq debris', debris' \subseteq Files,
         \A v \in Users : url[v] # NoFile => url[v] \notin gone,
         \A q \in Procs \ Ended : Fresh(q) => job[q].file \notin gone,
         \A q \in Ended, g \in disk' \cup temps' : g \in Held(q) => g \in debris'
  PROVE  IInv'
<1>1. TypeOK /\ Drawn
  BY DEF IInv
<1>2. \A q \in Procs : job'[q] = IF q \in Ended THEN Idle ELSE job[q]
  OBVIOUS
<1>3. TypeOK'
  <2>1. Idle \in Job
    BY AvatarsAssumption DEF Idle, Job, Stages, NoFile
  <2>2. job' \in [Procs -> Job]
    BY <2>1, <1>1 DEF TypeOK
  <2> QED BY <2>2, <1>1 DEF TypeOK
<1>4. /\ Idle.at = "idle" /\ Idle.file = NoFile /\ Idle.prev = NoFile
      /\ \A q \in Ended : job'[q].at = "idle" /\ job'[q].file = NoFile /\ job'[q].prev = NoFile
      /\ \A q \in Procs \ Ended : job'[q] = job[q] /\ Fresh(q)' = Fresh(q)
  BY <1>2 DEF Idle, Fresh
<1>5. Drawn'
  <2>1. drawn \in Nat
    BY <1>1 DEF TypeOK
  <2>2. NoFile <= drawn
    BY <2>1 DEF NoFile
  <2> QED BY <2>2, <1>1, <1>4 DEF Drawn
<1>6. Unpublished'
  <2>1. ASSUME NEW q \in Procs, Fresh(q)'
        PROVE  /\ job'[q].at \in {"stored", "read"} => job'[q].file \in disk'
               /\ \A v \in Users : url'[v] # job'[q].file
               /\ \A r \in Procs : job'[r].prev # job'[q].file
               /\ \A r \in Procs \ {q} : job'[r].file # job'[q].file
    <3>1. q \in Procs \ Ended
      BY <2>1, <1>4 DEF Fresh
    <3>2. job'[q] = job[q] /\ Fresh(q) /\ job[q].file # NoFile
      BY <2>1, <3>1, <1>4 DEF Fresh
    <3>3. job[q].at \in {"stored", "read"} => job[q].file \in disk'
      BY <3>1, <3>2 DEF IInv, Unpublished
    <3>4. \A r \in Procs : job'[r].prev \in {job[r].prev, NoFile} /\ job'[r].file \in {job[r].file, NoFile}
      BY <1>4
    <3> QED BY <3>2, <3>3, <3>4 DEF IInv, Unpublished
  <2> QED BY <2>1 DEF Unpublished
<1>7. Replaced'
  BY <1>4 DEF IInv, Replaced
<1>8. PicturesExist'
  BY DEF IInv, PicturesExist
<1>9. NothingForgotten'
  <2>1. ASSUME NEW g \in disk' \cup temps'
        PROVE  (\E v \in Users : url'[v] = g) \/ (\E q \in Procs : g \in Held(q)') \/ g \in debris'
    <3>1. g \in disk \cup temps
      OBVIOUS
    <3>2. ASSUME NEW q \in Procs, g \in Held(q) PROVE g \in Held(q)' \/ g \in debris'
      <4>1. CASE q \in Ended
        BY <3>2, <4>1
      <4>2. CASE q \notin Ended
        BY <3>2, <4>2, <1>4, HeldFact
      <4> QED BY <4>1, <4>2
    <3> QED BY <3>1, <3>2, ForgottenFact DEF IInv
  <2> QED BY <2>1, ForgottenFact
<1>10. \A q \in Procs : /\ job'[q].at = "temp" => job'[q].file # NoFile
                        /\ job'[q].at # "idle" => job'[q].user \in Users
                        /\ job'[q].at \in {"idle", "temp", "stored"} => job'[q].prev = NoFile
  BY <1>4 DEF IInv
<1>11. \A v, w \in Users : url'[v] = url'[w] => url'[v] = NoFile \/ v = w
  BY DEF IInv
<1>12. Temporary'
  <2>1. ASSUME NEW t \in temps', t \notin debris'
        PROVE  \E q \in Procs : job'[q].at = "temp" /\ job'[q].file = t
    <3>1. PICK q \in Procs : job[q].at = "temp" /\ job[q].file = t
      BY <2>1 DEF IInv, Temporary
    <3>2. t \in Held(q)
      BY <3>1, HeldFact DEF IInv
    <3>3. q \notin Ended
      BY <2>1, <3>2
    <3> QED BY <3>1, <3>3, <1>4
  <2> QED BY <2>1 DEF Temporary
<1> QED BY <1>3, <1>5, <1>6, <1>7, <1>8, <1>9, <1>10, <1>11, <1>12 DEF IInv

(* What is removed after the update is nobody's picture by then.             *)
LEMMA RemoveStep ==
  ASSUME IInv, NEW p \in Procs, RemovePrevious(p)
  PROVE  IInv'
<1> DEFINE gone == disk \ disk'
<1>1. TypeOK
  BY DEF IInv
<1>2. /\ job[p].at = "set" /\ UNCHANGED <<alive, url, temps, drawn>>
      /\ \/ disk' = disk \ {job[p].prev} /\ debris' = debris
         \/ disk' = disk /\ debris' = debris \cup ({job[p].prev} \ {NoFile})
  BY DEF RemovePrevious
<1>3. job' = [q \in Procs |-> IF q \in {p} THEN Idle ELSE job[q]]
  BY <1>1 DEF RemovePrevious, Finish, TypeOK
<1>4. disk' = disk \ gone /\ gone \subseteq {job[p].prev}
  BY <1>2
<1> HIDE DEF gone
<1>5. job[p].prev = NoFile \/ \A v \in Users : url[v] # job[p].prev
  BY <1>2 DEF IInv, Replaced
<1>6. \A q \in Procs : Fresh(q) => job[q].file # job[p].prev
  BY DEF IInv, Unpublished
<1>7. debris' \subseteq Files
  <2>1. job[p].prev # NoFile => job[p].prev \in Files
    BY <1>1, JobFields, AvatarsAssumption DEF Files, NoFile
  <2> QED BY <2>1, <1>1, <1>2 DEF TypeOK
<1>8. \A g \in disk' \cup temps' : g \in Held(p) => g \in debris'
  <2>1. ASSUME NEW g \in disk' \cup temps', g \in Held(p) PROVE g \in debris'
    <3>1. g = job[p].prev /\ g # NoFile
      BY <2>1, <1>2, HeldFact
    <3>2. g \in debris' \/ g \in temps
      BY <2>1, <3>1, <1>2
    <3>3. g \notin temps \/ g \in debris
      <4>1. ASSUME NEW q \in Procs PROVE ~(job[q].at = "temp" /\ job[q].file = g)
        BY <3>1, <1>6 DEF Fresh
      <4> QED BY <4>1 DEF IInv, Temporary
    <3> QED BY <3>2, <3>3, <1>2
  <2> QED BY <2>1
<1>9. /\ {p} \in SUBSET Procs /\ temps' \subseteq temps /\ debris \subseteq debris'
      /\ UNCHANGED <<alive, url, drawn>>
  BY <1>2
<1>10. \A v \in Users : url[v] # NoFile => url[v] \notin gone
  BY <1>4, <1>5
<1>11. \A q \in Procs \ {p} : Fresh(q) => job[q].file \notin gone
  BY <1>4, <1>6
<1>12. \A q \in {p}, g \in disk' \cup temps' : g \in Held(q) => g \in debris'
  BY <1>8
<1> QED BY <1>3, <1>4, <1>7, <1>9, <1>10, <1>11, <1>12, EndStep

(* A failed upload takes its own file with it, or leaves it as debris.        *)
LEMMA FailStep ==
  ASSUME IInv, NEW p \in Procs, Fail(p)
  PROVE  IInv'
<1> DEFINE f == job[p].file
           gone == disk \ disk'
<1>1. TypeOK
  BY DEF IInv
<1>2. /\ job[p].at \in {"temp", "stored", "read"} /\ UNCHANGED <<alive, url, drawn>>
      /\ \/ temps' = temps \ {f} /\ disk' = disk \ {f} /\ debris' = debris
         \/ temps' = temps /\ disk' = disk /\ debris' = debris \cup ({f} \ {NoFile})
  BY DEF Fail
<1>3. job' = [q \in Procs |-> IF q \in {p} THEN Idle ELSE job[q]]
  BY <1>1 DEF Fail, Finish, TypeOK
<1>4. disk' = disk \ gone /\ gone \subseteq {f}
  BY <1>2
<1>5. NoFile \notin disk
  BY <1>1 DEF TypeOK, Files, NoFile
<1>6. f # NoFile => Fresh(p)
  BY <1>2 DEF Fresh
<1>7. debris' \subseteq Files
  <2>1. f # NoFile => f \in Files
    BY <1>1, JobFields, AvatarsAssumption DEF Files, NoFile
  <2> QED BY <2>1, <1>1, <1>2 DEF TypeOK
<1>8. \A q \in {p}, g \in disk' \cup temps' : g \in Held(q) => g \in debris'
  <2>1. \A g : g \in Held(p) => g = f /\ g # NoFile
    BY <1>2, HeldFact
  <2> QED BY <2>1, <1>2
<1>9. \A v \in Users : url[v] # NoFile => url[v] \notin gone
  BY <1>4, <1>6 DEF IInv, Unpublished
<1>10. \A q \in Procs \ {p} : Fresh(q) => job[q].file \notin gone
  <2>1. CASE f = NoFile
    <3>1. gone = {}
      BY <2>1, <1>4, <1>5
    <3> HIDE DEF gone
    <3> QED BY <3>1
  <2>2. CASE f # NoFile
    BY <2>2, <1>4, <1>6 DEF IInv, Unpublished
  <2> QED BY <2>1, <2>2
<1>11. /\ {p} \in SUBSET Procs /\ temps' \subseteq temps /\ debris \subseteq debris'
       /\ UNCHANGED <<alive, url, drawn>>
  BY <1>2
<1> HIDE DEF gone, f
<1> QED BY <1>3, <1>4, <1>7, <1>8, <1>9, <1>10, <1>11, EndStep

(* A crash ends every request and writes off what they held.                  *)
LEMMA CrashStep ==
  ASSUME IInv, Crash
  PROVE  IInv'
<1>1. TypeOK
  BY DEF IInv
<1>2. /\ UNCHANGED <<alive, url, disk, temps, drawn>>
      /\ debris' = debris \cup (UNION {Held(q) : q \in Procs})
      /\ job' = [q \in Procs |-> Idle]
  BY DEF Crash
<1>3. job' = [q \in Procs |-> IF q \in Procs THEN Idle ELSE job[q]]
  BY <1>2
<1>4. debris' \subseteq Files
  <2>1. ASSUME NEW q \in Procs, NEW g \in Held(q) PROVE g \in Files
    BY <2>1, <1>1, JobFields, HeldFact, AvatarsAssumption DEF Files, NoFile
  <2> QED BY <2>1, <1>1, <1>2 DEF TypeOK
<1>5. \A q \in Procs, g \in disk' \cup temps' : g \in Held(q) => g \in debris'
  BY <1>2
<1>6. UNCHANGED <<alive, url, drawn>> /\ temps' \subseteq temps /\ debris \subseteq debris'
  BY <1>2
<1> DEFINE gone == {}
<1>7. /\ disk' = disk \ gone
      /\ \A v \in Users : url[v] # NoFile => url[v] \notin gone
      /\ \A q \in Procs \ Procs : Fresh(q) => job[q].file \notin gone
  BY <1>2
<1>8. Procs \in SUBSET Procs
  OBVIOUS
<1> HIDE DEF gone
<1> QED BY <1>3, <1>4, <1>5, <1>6, <1>7, <1>8, EndStep

(* The account's picture becomes debris; every other one is as it was.        *)
LEMMA DeleteUserStep ==
  ASSUME IInv, NEW u \in Users, DeleteUser(u)
  PROVE  IInv'
<1>1. TypeOK /\ Drawn
  BY DEF IInv
<1>2. /\ u \in alive /\ alive' = alive \ {u} /\ url' = [url EXCEPT ![u] = NoFile]
      /\ debris' = debris \cup ({url[u]} \ {NoFile})
      /\ UNCHANGED <<disk, temps, drawn, job>>
  BY DEF DeleteUser
<1>3. \A v \in Users : url'[v] = IF v = u THEN NoFile ELSE url[v]
  BY <1>1, <1>2 DEF TypeOK
<1>4. NoFile \in 0..MaxFile /\ url[u] \in 0..MaxFile
  BY <1>1, AvatarsAssumption DEF TypeOK, NoFile
<1>5. TypeOK'
  <2>1. url' \in [Users -> 0..MaxFile]
    BY <1>1, <1>2, <1>4 DEF TypeOK
  <2>2. url[u] # NoFile => url[u] \in Files
    BY <1>4, AvatarsAssumption DEF Files, NoFile
  <2>3. debris' \subseteq Files
    BY <1>1, <1>2, <2>2 DEF TypeOK
  <2>4. \A v \in Users : url'[v] # NoFile => v \in alive'
    BY <1>1, <1>2, <1>3 DEF TypeOK
  <2> QED BY <1>1, <1>2, <2>1, <2>3, <2>4 DEF TypeOK
<1>6. Drawn'
  <2>1. NoFile <= drawn
    BY <1>1 DEF TypeOK, NoFile
  <2> QED BY <2>1, <1>1, <1>2, <1>3 DEF Drawn
<1>7. Unpublished'
  <2>1. \A q \in Procs : Fresh(q)' = Fresh(q)
    BY <1>2 DEF Fresh
  <2>2. \A q \in Procs, v \in Users : Fresh(q) => url'[v] # job[q].file
    BY <1>3 DEF IInv, Unpublished, Fresh
  <2> QED BY <1>2, <2>1, <2>2 DEF IInv, Unpublished
<1>8. Replaced'
  BY <1>2, <1>3 DEF IInv, Replaced
<1>9. Temporary' /\ PicturesExist'
  BY <1>2, <1>3 DEF IInv, Temporary, PicturesExist
<1>10. NothingForgotten'
  <2>1. ASSUME NEW g \in disk' \cup temps'
        PROVE  (\E v \in Users : url'[v] = g) \/ (\E q \in Procs : g \in Held(q)') \/ g \in debris'
    <3>1. g \in disk \cup temps /\ g # NoFile
      BY <1>1, <1>2 DEF TypeOK, Files, NoFile
    <3>2. \A q \in Procs : g \in Held(q)' <=> g \in Held(q)
      BY <1>2, HeldFact
    <3>3. \A v \in Users : url[v] = g => url'[v] = g \/ g \in debris'
      BY <1>2, <1>3, <3>1
    <3> QED BY <1>2, <3>1, <3>2, <3>3, ForgottenFact DEF IInv
  <2> QED BY <2>1, ForgottenFact
<1>11. \A v, w \in Users : url'[v] = url'[w] => url'[v] = NoFile \/ v = w
  BY <1>3 DEF IInv
<1>12. \A q \in Procs : /\ job'[q].at = "temp" => job'[q].file # NoFile
                        /\ job'[q].at # "idle" => job'[q].user \in Users
                        /\ job'[q].at \in {"idle", "temp", "stored"} => job'[q].prev = NoFile
  BY <1>2 DEF IInv
<1> QED BY <1>5, <1>6, <1>7, <1>8, <1>9, <1>10, <1>11, <1>12 DEF IInv

LEMMA StutterStep == IInv /\ UNCHANGED vars => IInv'
<1> SUFFICES ASSUME IInv, UNCHANGED vars PROVE IInv'
  OBVIOUS
<1>1. UNCHANGED <<alive, url, disk, temps, drawn, job, debris>>
  BY DEF vars
<1>2. NothingForgotten'
  BY <1>1, HeldFact, ForgottenFact DEF IInv
<1> QED BY <1>1, <1>2
        DEF IInv, TypeOK, Drawn, Unpublished, Replaced, Temporary, Fresh, PicturesExist

LEMMA NextIInv == IInv /\ [Next]_vars => IInv'
<1> SUFFICES ASSUME IInv, [Next]_vars PROVE IInv'
  OBVIOUS
<1>1. ASSUME NEW p \in Procs, NEW u \in Users, BeginUpload(p, u) \/ BeginClear(p, u)
      PROVE  IInv'
  BY <1>1, BeginStep
<1>2. ASSUME NEW p \in Procs, Rename(p)
      PROVE  IInv'
  BY <1>2, RenameStep
<1>3. ASSUME NEW p \in Procs, ReadCurrent(p)
      PROVE  IInv'
  BY <1>3, ReadStep
<1>4. ASSUME NEW p \in Procs, UpdateURL(p)
      PROVE  IInv'
  BY <1>4, UpdateStep
<1>5. ASSUME NEW p \in Procs, RemovePrevious(p)
      PROVE  IInv'
  BY <1>5, RemoveStep
<1>6. ASSUME NEW p \in Procs, Fail(p)
      PROVE  IInv'
  BY <1>6, FailStep
<1>7. CASE Crash
  BY <1>7, CrashStep
<1>8. ASSUME NEW u \in Users, DeleteUser(u)
      PROVE  IInv'
  BY <1>8, DeleteUserStep
<1>9. CASE UNCHANGED vars
  BY <1>9, StutterStep
<1> QED BY <1>1, <1>2, <1>3, <1>4, <1>5, <1>6, <1>7, <1>8, <1>9 DEF Next

-----------------------------------------------------------------------------
(* Theorems *)

(* The inductive invariant holds throughout.                                 *)
THEOREM Invariance == Spec => []IInv
<1> QED BY InitIInv, NextIInv, PTL DEF Spec

(* The state is well typed, and avatar_url is set only in profiles of        *)
(* accounts that exist (migration 0006's ON DELETE CASCADE).                 *)
THEOREM TypeCorrect == Spec => []TypeOK
<1>1. IInv => TypeOK
  BY DEF IInv
<1> QED BY <1>1, Invariance, PTL

(* No page names a picture that is not in the directory, however many        *)
(* uploads and removals overlap: handleUploadAvatar removes the file that    *)
(* SetAvatarURL read, and nobody's profile names that file after the update. *)
THEOREM PicturesThere == Spec => []PicturesExist
<1>1. IInv => PicturesExist
  BY DEF IInv
<1> QED BY <1>1, Invariance, PTL

(* Every file under the directory is a picture, in the hands of a request,   *)
(* or debris of one of the accidents named in Avatars: overlapping changes,  *)
(* a deleted account, a failed removal, a crash.                             *)
THEOREM DirectoryAccountedFor == Spec => []NothingForgotten
<1>1. IInv => NothingForgotten
  BY DEF IInv
<1> QED BY <1>1, Invariance, PTL

-----------------------------------------------------------------------------
(* The life of a serving process *)

LEMMA LifeStep == LifeNext \/ UNCHANGED allVars => [Next]_vars
<1> SUFFICES ASSUME LifeNext \/ UNCHANGED allVars PROVE [Next]_vars
  OBVIOUS
<1>1. ASSUME NEW p \in Procs, Accept(p) \/ Handle(p) PROVE Next
  BY <1>1 DEF Accept, Handle, Next
<1>2. ASSUME NEW u \in Users, Delete(u) PROVE Next
  BY <1>2 DEF Delete, Next
<1>3. CASE Kill \/ Exit
  BY <1>3 DEF Kill, Exit, Down, Next
<1>4. CASE Signal \/ ListenFails \/ Boot \/ ServeReturns \/ Wake \/ Drained \/ GraceOver
           \/ Join \/ CloseStore
  BY <1>4 DEF Signal, ListenFails, Boot, ServeReturns, Wake, Drained, GraceOver, Join, CloseStore
<1>5. CASE UNCHANGED allVars
  BY <1>5 DEF allVars
<1> QED BY <1>1, <1>2, <1>3, <1>4, <1>5 DEF LifeNext, Proceed

(* Shutdown implements Avatars: signals, the grace and the end of the        *)
(* process do nothing to the pictures that a request, or a crash, may not.   *)
THEOREM LifeImplementsAvatars == LifeSpec => Spec
<1>1. LifeInit => Init
  BY DEF LifeInit
<1>2. [LifeNext]_allVars => [Next]_vars
  BY LifeStep
<1> QED BY <1>1, <1>2, PTL DEF LifeSpec, Spec

(* Pictures and files stay accounted for from the first request to the last, *)
(* and from one life of the process to the next.                             *)
THEOREM PicturesThroughLife == LifeSpec => [](TypeOK /\ PicturesExist /\ NothingForgotten)
<1>1. IInv => TypeOK /\ PicturesExist /\ NothingForgotten
  BY DEF IInv
<1> QED BY <1>1, Invariance, LifeImplementsAvatars, PTL

Ending == {"joining", "returning", "closed"}

(* No request comes in once the process is on its way to the end, and the    *)
(* ones that were there are gone, or cut off.                                *)
Closing ==
  /\ main \in {"draining", "joining"} => ~listening
  /\ main \in Ending => ~listening \/ serveErr = "error"
  /\ main \in Ending /\ ~Idling => cut \/ serveErr = "error"

(* A request that is idle does nothing until it is accepted. *)
LEMMA IdleStays ==
  ASSUME NEW p \in Procs, Handle(p), Idling
  PROVE  FALSE
BY DEF Handle, Idling, Idle, Rename, ReadCurrent, UpdateURL, RemovePrevious, Fail

LEMMA ClosingStep == Closing /\ [LifeNext]_allVars => Closing'
<1> SUFFICES ASSUME Closing, [LifeNext]_allVars PROVE Closing'
  OBVIOUS
<1>1. ASSUME NEW p \in Procs, Accept(p) PROVE Closing'
  BY <1>1 DEF Accept, Closing, process, Ending
<1>2. ASSUME NEW p \in Procs, Handle(p) PROVE Closing'
  <2>1. ~Idling /\ UNCHANGED process
    BY <1>2, IdleStays DEF Handle
  <2> QED BY <2>1 DEF Closing, process
<1>3. ASSUME NEW u \in Users, Delete(u) PROVE Closing'
  BY <1>3 DEF Delete, DeleteUser, Closing, process, Idling
<1>4. CASE Signal \/ ListenFails \/ ServeReturns
  BY <1>4 DEF Signal, ListenFails, ServeReturns, Closing, Idling, vars, Ending
<1>5. CASE Wake
  BY <1>5 DEF Wake, Closing, Idling, vars, Ending
<1>6. CASE Drained \/ GraceOver
  BY <1>6 DEF Drained, GraceOver, Closing, Idling, vars, Ending
<1>7. CASE Join \/ CloseStore
  BY <1>7 DEF Join, CloseStore, Closing, Idling, vars, Ending
<1>8. CASE Kill \/ Exit \/ Boot
  BY <1>8 DEF Kill, Exit, Down, Boot, Closing, Ending
<1>9. CASE UNCHANGED allVars
  BY <1>9 DEF allVars, process, vars, Closing, Idling
<1> QED BY <1>1, <1>2, <1>3, <1>4, <1>5, <1>6, <1>7, <1>8, <1>9 DEF LifeNext, Proceed

(* "then the database is closed cleanly": when run() closes the store, no    *)
(* request is left unless the grace ran out or the listener failed.          *)
THEOREM ClosedWhenDrained == LifeSpec => []DrainedBeforeClosed
<1>1. LifeInit => Closing
  BY DEF LifeInit, Closing, Ending
<1>2. Closing /\ [LifeNext]_allVars => Closing'
  BY ClosingStep
<1>3. Closing => DrainedBeforeClosed
  BY DEF Closing, DrainedBeforeClosed, Ending
<1> QED BY <1>1, <1>2, <1>3, PTL DEF LifeSpec
=============================================================================
