----------------------------- MODULE PublicPage -----------------------------
(***************************************************************************)
(* The public page beside the accounts and links it is put together from.  *)
(* A page is three reads: the profile by its handle, the account by the    *)
(* handle of that profile, and the account's links.  The landing page reads *)
(* the featured account before its profile.  Handles may be changed and    *)
(* freed between any two of them.                                          *)
(***************************************************************************)
EXTENDS Links

CONSTANTS
  Handles,   \* handles that validateHandle lets through, in lower case
  NoHandle,  \* profiles.username where there is no row
  Visits     \* pages being answered

ASSUME PublicPageAssumption == NoHandle \notin Handles

VARIABLES
  handle,    \* handle[u]: profiles.username of u, NoHandle if there is no row
  visit      \* what each visit has read

pageVars == <<handle, visit>>

(* `of` is the account of the profile that was read, `name` its handle then, *)
(* `account` the account that was found by it, or that the landing page's    *)
(* pointer named.  `left` (history) says that the account of the profile has *)
(* given up the handle since.                                                *)
Visit == [at : {"idle", "pointer", "profile", "account"}, name : Handles \cup {NoHandle},
          of : Users \cup {NoUser}, account : Users \cup {NoUser}, left : BOOLEAN]
Unread == [at |-> "idle", name |-> NoHandle, of |-> NoUser, account |-> NoUser,
           left |-> FALSE]

Holders(h) == {u \in Users : handle[u] = h}

(* profiles.username is UNIQUE. *)
Apart == \A u, w \in Users : handle[u] # NoHandle /\ handle[u] = handle[w] => u = w

(* Accounts are created with a profile, but an account that an upgrade found *)
(* (0006) or whose claim of the page was torn (claimProfile) may have none.  *)
PageInit ==
  /\ Init
  /\ handle \in [Users -> Handles \cup {NoHandle}]
  /\ Apart
  /\ visit = [v \in Visits |-> Unread]

(* The profile of u changed its handle or is gone. *)
Leave(u) ==
  visit' = [v \in Visits |-> IF visit[v].of = u THEN [visit[v] EXCEPT !.left = TRUE]
                             ELSE visit[v]]

-----------------------------------------------------------------------------
(* The account's side *)

(* Mutant: without the UNIQUE constraint. *)
UpdateProfileLoose(u, h) ==
  /\ u \in alive /\ handle[u] # NoHandle
  /\ handle' = [handle EXCEPT ![u] = h]
  /\ IF h = handle[u] THEN UNCHANGED visit ELSE Leave(u)

(* UPDATE profiles of the caller; a handle that is taken is a conflict and   *)
(* changes nothing, and so does a caller without a profile (404).  The other *)
(* fields are left out.                                                      *)
UpdateProfile(u, h) ==
  /\ u \in alive /\ handle[u] # NoHandle
  /\ Holders(h) \subseteq {u}
  /\ handle' = [handle EXCEPT ![u] = h]
  /\ IF h = handle[u] THEN UNCHANGED visit ELSE Leave(u)

(* Mutant: the profile outlives its account. *)
DeleteProfileLate(u) == UNCHANGED pageVars

(* profiles.user_id ... ON DELETE CASCADE, with the account. *)
DeleteProfile(u) ==
  /\ handle' = [handle EXCEPT ![u] = NoHandle]
  /\ Leave(u)

-----------------------------------------------------------------------------
(* The visitor's side *)

Found(v, u) ==
  visit' = [visit EXCEPT ![v] = [Unread EXCEPT !.at = "profile", !.name = handle[u],
                                               !.of = u]]

(* /<handle>: an unknown handle is answered with 404, nothing is read on. *)
ProfileByHandle(v, h) ==
  /\ visit[v] = Unread
  /\ \E u \in Holders(h) : Found(v, u)
  /\ UNCHANGED handle

(* The landing page, first statement: whichever account holds the page       *)
(* pointer.  A NULL pointer is answered with an error.                       *)
FeaturedAccount(v) ==
  /\ visit[v] = Unread
  /\ \E u \in alive :
       visit' = [visit EXCEPT ![v] = [Unread EXCEPT !.at = "pointer", !.account = u]]
  /\ UNCHANGED handle

(* Second statement: that account's profile, or 404. *)
FeaturedProfile(v) ==
  /\ visit[v].at = "pointer"
  /\ IF handle[visit[v].account] = NoHandle
     THEN visit' = [visit EXCEPT ![v] = Unread]
     ELSE Found(v, visit[v].account)
  /\ UNCHANGED handle

(* The account behind the profile's handle, or 404. *)
UserByProfileHandle(v) ==
  /\ visit[v].at = "profile"
  /\ IF Holders(visit[v].name) = {}
     THEN visit' = [visit EXCEPT ![v] = Unread]
     ELSE \E u \in Holders(visit[v].name) :
            visit' = [visit EXCEPT ![v].at = "account", ![v].account = u]
  /\ UNCHANGED handle

(* The account's enabled links (Own(account) \cap enabled) and the answer;   *)
(* or the visitor has gone at any step.                                      *)
Answer(v) ==
  /\ visit[v] # Unread
  /\ visit' = [visit EXCEPT ![v] = Unread]
  /\ UNCHANGED handle

(* The operations of Links; of these only a deletion touches a profile. *)
LinkStep ==
  \/ /\ \/ \E p \in Procs, u \in Users : Measure(p, u)
        \/ \E p \in Procs, on \in BOOLEAN : CreateLink(p, on)
        \/ \E p \in Procs : Cancel(p)
        \/ \E u \in Users, i \in Ids, on \in BOOLEAN : UpdateLink(u, i, on)
        \/ \E u \in Users, i \in Ids : DeleteLink(u, i)
        \/ \E u \in Users, n \in 1..MaxId : \E ids \in [1..n -> Ids] : ReorderLinks(u, ids)
     /\ UNCHANGED pageVars
  \/ \E u \in Users : DeleteUser(u) /\ DeleteProfile(u)

PageStep ==
  /\ \/ \E u \in Users, h \in Handles : UpdateProfile(u, h)
     \/ \E v \in Visits :
          \/ \E h \in Handles : ProfileByHandle(v, h)
          \/ FeaturedAccount(v)
          \/ FeaturedProfile(v)
          \/ UserByProfileHandle(v)
          \/ Answer(v)
  /\ UNCHANGED vars

PageNext == LinkStep \/ PageStep

PageSpec == PageInit /\ [][PageNext]_<<vars, pageVars>>

-----------------------------------------------------------------------------
(* Properties *)

(* Types of the page; a profile belongs to an account that exists, and no    *)
(* two profiles have the same handle.                                        *)
PageTypeOK ==
  /\ handle \in [Users -> Handles \cup {NoHandle}]
  /\ \A u \in Users : handle[u] # NoHandle => u \in alive
  /\ Apart
  /\ visit \in [Visits -> Visit]

(* public.go: a page never mixes the profile of one account with the links   *)
(* of another, and is never cut short by a 404, unless the account gave up   *)
(* its handle between the reads: until then the handle leads to the account  *)
(* of the profile and to no other.                                           *)
OneAccount ==
  \A v \in Visits :
    ~visit[v].left =>
      /\ visit[v].at = "profile" => Holders(visit[v].name) = {visit[v].of}
      /\ visit[v].at = "account" => visit[v].account = visit[v].of
=============================================================================
