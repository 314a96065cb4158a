------------------------------ MODULE Avatars -------------------------------
(***************************************************************************)
(* Profile pictures: the upload directory and profiles.avatar_url, which   *)
(* no transaction spans.  An upload writes a temporary file, renames it to *)
(* a fresh random name, reads the current avatar_url, writes the new one   *)
(* and removes the file it has replaced; removing the picture does the     *)
(* last three.  Other requests, deletions of the account and a crash can   *)
(* come between any two of them.                                           *)
(***************************************************************************)
EXTENDS Integers

CONSTANTS
  Users,     \* accounts with a profile
  Procs,     \* concurrent requests
  NoUser,    \* no account
  MaxFile    \* bound: names drawn for uploads (avatar-<random>, never twice)

ASSUME AvatarsAssumption == NoUser \notin Users /\ MaxFile \in Nat

VARIABLES
  alive,     \* accounts that exist
  url,       \* url[u]: the file avatar_url names, NoFile for ''
  disk,      \* files in the directory under their final name
  temps,     \* temporary files, by the name they are to get
  drawn,     \* names drawn so far
  job,       \* what each request is doing
  debris     \* history: files left behind by one of the known accidents

vars == <<alive, url, disk, temps, drawn, job, debris>>

Files == 1..MaxFile
NoFile == 0

Stages == {"idle", "temp", "stored", "read", "set"}
Job == [at : Stages, user : Users \cup {NoUser}, file : 0..MaxFile, prev : 0..MaxFile]
Idle == [at |-> "idle", user |-> NoUser, file |-> NoFile, prev |-> NoFile]

Init ==
  /\ alive = Users
  /\ url = [u \in Users |-> NoFile]
  /\ disk = {}
  /\ temps = {}
  /\ drawn = 0
  /\ job = [p \in Procs |-> Idle]
  /\ debris = {}

Goto(p, at) == job' = [job EXCEPT ![p].at = at]
Finish(p) == job' = [job EXCEPT ![p] = Idle]

-----------------------------------------------------------------------------
(* One request *)

(* The checks of size and format have passed; CreateTemp, Write, Sync. *)
BeginUpload(p, u) ==
  /\ job[p] = Idle
  /\ u \in alive
  /\ drawn < MaxFile
  /\ drawn' = drawn + 1
  /\ temps' = temps \cup {drawn + 1}
  /\ job' = [job EXCEPT ![p] = [at |-> "temp", user |-> u, file |-> drawn + 1, prev |-> NoFile]]
  /\ UNCHANGED <<alive, url, disk, debris>>

Rename(p) ==
  /\ job[p].at = "temp"
  /\ temps' = temps \ {job[p].file}
  /\ disk' = disk \cup {job[p].file}
  /\ Goto(p, "stored")
  /\ UNCHANGED <<alive, url, drawn, debris>>

(* handleDeleteAvatar: SetAvatarURL with the empty string. *)
BeginClear(p, u) ==
  /\ job[p] = Idle
  /\ u \in alive
  /\ job' = [job EXCEPT ![p] = [at |-> "stored", user |-> u, file |-> NoFile, prev |-> NoFile]]
  /\ UNCHANGED <<alive, url, disk, temps, drawn, debris>>

(* SetAvatarURL, first half: the current value. *)
ReadCurrent(p) ==
  /\ job[p].at = "stored"
  /\ job[p].user \in alive
  /\ job' = [job EXCEPT ![p].at = "read", ![p].prev = url[job[p].user]]
  /\ UNCHANGED <<alive, url, disk, temps, drawn, debris>>

(* Second half: UPDATE ... WHERE user_id.  No row is not an error.  A value  *)
(* that another request has written since the read is overwritten unseen.    *)
UpdateURL(p) ==
  LET j == job[p] IN
  /\ j.at = "read"
  /\ IF j.user \in alive
     THEN /\ url' = [url EXCEPT ![j.user] = j.file]
          /\ debris' = debris \cup ({url[j.user]} \ {j.prev, NoFile})
     ELSE /\ debris' = debris \cup ({j.file} \ {NoFile})
          /\ UNCHANGED url
  /\ Goto(p, "set")
  /\ UNCHANGED <<alive, disk, temps, drawn>>

(* Mutant: the file removed is the one the profile names now. *)
RemovePreviousCurrent(p) ==
  LET j == job[p] IN
  /\ j.at = "set"
  /\ disk' = disk \ {IF j.user \in alive THEN url[j.user] ELSE j.prev}
  /\ Finish(p)
  /\ UNCHANGED <<alive, url, temps, drawn, debris>>

(* removeManagedUpload; a failure to remove is only logged. *)
RemovePrevious(p) ==
  LET j == job[p] IN
  /\ j.at = "set"
  /\ \/ disk' = disk \ {j.prev} /\ UNCHANGED debris
     \/ disk' = disk /\ debris' = debris \cup ({j.prev} \ {NoFile})
  /\ Finish(p)
  /\ UNCHANGED <<alive, url, temps, drawn>>

-----------------------------------------------------------------------------
(* Failures *)

(* Mutant: the new file is not removed when SetAvatarURL fails. *)
FailLeaving(p) ==
  /\ job[p].at \in {"temp", "stored", "read"}
  /\ temps' = temps \ {job[p].file}
  /\ Finish(p)
  /\ UNCHANGED <<alive, url, disk, drawn, debris>>

(* A step before the UPDATE fails (disk, database, cancelled request, the     *)
(* account is gone): the deferred removal of the temporary file, or of the   *)
(* stored one, which can itself fail.                                        *)
Fail(p) ==
  LET f == job[p].file IN
  /\ job[p].at \in {"temp", "stored", "read"}
  /\ \/ temps' = temps \ {f} /\ disk' = disk \ {f} /\ UNCHANGED debris
     \/ UNCHANGED <<temps, disk>> /\ debris' = debris \cup ({f} \ {NoFile})
  /\ Finish(p)
  /\ UNCHANGED <<alive, url, drawn>>

(* What a request holds that nothing else refers to. *)
Held(p) ==
  (CASE job[p].at \in {"temp", "stored", "read"} -> {job[p].file}
     [] job[p].at = "set" -> {job[p].prev}
     [] OTHER -> {}) \ {NoFile}

(* The process dies and starts again; nothing sweeps the directory. *)
Crash ==
  /\ job' = [p \in Procs |-> Idle]
  /\ debris' = debris \cup (UNION {Held(p) : p \in Procs})
  /\ UNCHANGED <<alive, url, disk, temps, drawn>>

(* Mutant: the profile row survives its account. *)
DeleteUserOnly(u) ==
  /\ u \in alive
  /\ alive' = alive \ {u}
  /\ UNCHANGED <<url, disk, temps, drawn, job, debris>>

(* DELETE FROM users, profiles by cascade; the picture stays on disk. *)
DeleteUser(u) ==
  /\ u \in alive
  /\ alive' = alive \ {u}
  /\ url' = [url EXCEPT ![u] = NoFile]
  /\ debris' = debris \cup ({url[u]} \ {NoFile})
  /\ UNCHANGED <<disk, temps, drawn, job>>

Next ==
  \/ \E p \in Procs, u \in Users : BeginUpload(p, u) \/ BeginClear(p, u)
  \/ \E p \in Procs : \/ Rename(p)
                      \/ ReadCurrent(p)
                      \/ UpdateURL(p)
                      \/ RemovePrevious(p)
                      \/ Fail(p)
  \/ Crash
  \/ \E u \in Users : DeleteUser(u)

Spec == Init /\ [][Next]_vars

-----------------------------------------------------------------------------
(* Properties *)

(* Types, and avatar_url only in profiles of accounts that exist. *)
TypeOK ==
  /\ alive \subseteq Users
  /\ url \in [Users -> 0..MaxFile]
  /\ \A u \in Users : url[u] # NoFile => u \in alive
  /\ disk \subseteq Files /\ temps \subseteq Files
  /\ drawn \in 0..MaxFile
  /\ job \in [Procs -> Job]
  /\ debris \subseteq Files

(* No page ever names a picture that is not there: uploads and removals of   *)
(* one account may overlap in any way, and each removes what it read, not    *)
(* what the profile names by then.                                           *)
PicturesExist == \A u \in Users : url[u] # NoFile => url[u] \in disk

(* The directory is consistent with the database, but for the known ways to  *)
(* leave a file behind: two changes of one picture overlap, the account is   *)
(* deleted, a removal fails, the process dies.  Every other file is either   *)
(* some account's picture or held by a request that will deal with it.       *)
NothingForgotten ==
  disk \cup temps \subseteq
    {url[u] : u \in Users} \cup (UNION {Held(p) : p \in Procs}) \cup debris
=============================================================================
