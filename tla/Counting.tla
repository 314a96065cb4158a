------------------------------ MODULE Counting ------------------------------
(***************************************************************************)
(* Page views and link clicks.  A beacon that passes the request filters   *)
(* claims its fingerprint (visitor and what is counted) for a window of    *)
(* time, and only then updates the counters: two statements, with other    *)
(* beacons, the purge of expired claims and edits of the links in between. *)
(* A statement that compares times uses a clock reading taken before it is *)
(* executed.                                                               *)
(***************************************************************************)
EXTENDS Integers

CONSTANTS
  Visitors,    \* client address and user agent
  Links,       \* links that exist at the start
  View,        \* the scope of a page view; the other scopes are the links
  Procs,       \* concurrent beacons
  NoOne,       \* fingerprint of no beacon
  ViewWindow,  \* ticks a view is de-duplicated (PHS_VIEW_WINDOW)
  ClickWindow, \* ticks a click is de-duplicated (clickWindow)
  Lag,         \* bound: ticks from a beacon's clock reading to its end
  MaxTime      \* bound: clock

Scopes == Links \cup {View}
Fingerprints == Visitors \X Scopes
Window(f) == IF f[2] = View THEN ViewWindow ELSE ClickWindow

ASSUME CountingAssumption ==
  /\ View \notin Links /\ NoOne \notin Fingerprints
  /\ ViewWindow \in Nat /\ ClickWindow \in Nat /\ Lag \in Nat /\ MaxTime \in Nat
  /\ Lag < ViewWindow /\ Lag < ClickWindow

VARIABLES
  now,        \* the clock
  events,     \* events[f]: expires_at of f's row in view_events, 0 if none
  present,    \* links that exist
  enabled,    \* links that are shown
  linkClicks, \* links.clicks
  total,      \* metrics: page_views and link_clicks
  daily,      \* daily_stats, summed over the days
  job,        \* beacons in flight
  sweep,      \* clock reading of a purge under way, NoSweep if none
  countedAt,  \* history: when f was last counted, Never if it was not
  lost        \* history: fingerprints whose last claim was not counted, because
              \* its beacon failed or its link was hidden or gone

counters == <<linkClicks, total, daily, countedAt>>

vars == <<now, events, present, enabled, counters, job, sweep, lost>>

NoSweep == -1
Never == -1
Counts == [views : Nat, clicks : Nat]
Zero == [views |-> 0, clicks |-> 0]

Job == [at : {"idle", "timed", "claimed"}, fp : Fingerprints \cup {NoOne}, stamp : Nat]
Idle == [at |-> "idle", fp |-> NoOne, stamp |-> 0]

Init ==
  /\ now = 1
  /\ events = [f \in Fingerprints |-> 0]
  /\ present = Links
  /\ enabled \in SUBSET Links
  /\ linkClicks = [l \in Links |-> 0]
  /\ total = Zero
  /\ daily = Zero
  /\ job = [p \in Procs |-> Idle]
  /\ sweep = NoSweep
  /\ countedAt = [f \in Fingerprints |-> Never]
  /\ lost = {}

-----------------------------------------------------------------------------
(* Beacons *)

(* A beacon passes countingAllowed; ClaimEvent reads the clock.  (One that   *)
(* does not pass is answered and changes nothing.)                           *)
Beacon(p, f) ==
  /\ job[p] = Idle
  /\ job' = [job EXCEPT ![p] = [at |-> "timed", fp |-> f, stamp |-> now]]
  /\ UNCHANGED <<now, events, present, enabled, counters, sweep, lost>>

(* Mutant: the upsert without its WHERE clause. *)
ClaimEventAlways(p) ==
  LET f == job[p].fp
      s == job[p].stamp
  IN
  /\ job[p].at = "timed"
  /\ events' = [events EXCEPT ![f] = s + Window(f)]
  /\ job' = [job EXCEPT ![p] = [at |-> "claimed", fp |-> f, stamp |-> s]]
  /\ lost' = lost \ {f}
  /\ UNCHANGED <<now, present, enabled, counters, sweep>>

(* Mutant: the fingerprint does not tell what is counted. *)
ClaimEventOfVisitor(p) ==
  LET f == job[p].fp
      s == job[p].stamp
  IN
  /\ job[p].at = "timed"
  /\ IF events[f] <= s
     THEN /\ events' = [g \in Fingerprints |-> IF g[1] = f[1] THEN s + Window(g) ELSE events[g]]
          /\ job' = [job EXCEPT ![p] = [at |-> "claimed", fp |-> f, stamp |-> s]]
          /\ lost' = lost \ {f}
     ELSE /\ job' = [job EXCEPT ![p] = Idle]
          /\ UNCHANGED <<events, lost>>
  /\ UNCHANGED <<now, present, enabled, counters, sweep>>

(* INSERT ... ON CONFLICT DO UPDATE ... WHERE expires_at <= now: the claim    *)
(* is won unless a row for the fingerprint is still valid.                   *)
ClaimEvent(p) ==
  LET f == job[p].fp
      s == job[p].stamp
  IN
  /\ job[p].at = "timed"
  /\ IF events[f] <= s
     THEN /\ events' = [events EXCEPT ![f] = s + Window(f)]
          /\ job' = [job EXCEPT ![p] = [at |-> "claimed", fp |-> f, stamp |-> s]]
          /\ lost' = lost \ {f}
     ELSE /\ job' = [job EXCEPT ![p] = Idle]
          /\ UNCHANGED <<events, lost>>
  /\ UNCHANGED <<now, present, enabled, counters, sweep>>

RegisterView(p) ==
  LET f == job[p].fp IN
  /\ job[p].at = "claimed"
  /\ f[2] = View
  /\ total' = [total EXCEPT !.views = @ + 1]
  /\ daily' = [daily EXCEPT !.views = @ + 1]
  /\ countedAt' = [countedAt EXCEPT ![f] = now]
  /\ job' = [job EXCEPT ![p] = Idle]
  /\ UNCHANGED <<now, events, present, enabled, linkClicks, sweep, lost>>

(* One transaction.  A link that is hidden or gone is not counted; the claim *)
(* is not given back.                                                        *)
RegisterClick(p) ==
  LET f == job[p].fp IN
  /\ job[p].at = "claimed"
  /\ f[2] # View
  /\ IF f[2] \in enabled
     THEN /\ linkClicks' = [linkClicks EXCEPT ![f[2]] = @ + 1]
          /\ total' = [total EXCEPT !.clicks = @ + 1]
          /\ daily' = [daily EXCEPT !.clicks = @ + 1]
          /\ countedAt' = [countedAt EXCEPT ![f] = now]
          /\ UNCHANGED lost
     ELSE lost' = lost \cup {f} /\ UNCHANGED counters
  /\ job' = [job EXCEPT ![p] = Idle]
  /\ UNCHANGED <<now, events, present, enabled, sweep>>

(* A failed statement or a cancelled request, also between the two; the      *)
(* claim is not given back.                                                  *)
Fail(p) ==
  /\ job[p] # Idle
  /\ job' = [job EXCEPT ![p] = Idle]
  /\ lost' = IF job[p].at = "claimed" THEN lost \cup {job[p].fp} ELSE lost
  /\ UNCHANGED <<now, events, present, enabled, counters, sweep>>

-----------------------------------------------------------------------------
(* Links, purge and time *)

SetEnabled(l, on) ==
  /\ l \in present
  /\ enabled' = IF on THEN enabled \cup {l} ELSE enabled \ {l}
  /\ UNCHANGED <<now, events, present, counters, job, sweep, lost>>

(* Mutant: the deleted link stays on the page. *)
DeleteLinkShown(l) ==
  /\ l \in present
  /\ present' = present \ {l}
  /\ linkClicks' = [linkClicks EXCEPT ![l] = 0]
  /\ UNCHANGED <<now, events, enabled, total, daily, countedAt, job, sweep, lost>>

DeleteLink(l) ==
  /\ l \in present
  /\ present' = present \ {l}
  /\ enabled' = enabled \ {l}
  /\ linkClicks' = [linkClicks EXCEPT ![l] = 0]
  /\ UNCHANGED <<now, events, total, daily, countedAt, job, sweep, lost>>

BeginPurge ==
  /\ sweep = NoSweep
  /\ sweep' = now
  /\ UNCHANGED <<now, events, present, enabled, counters, job, lost>>

(* Mutant: the rows still valid are the ones that go. *)
PurgeValidEvents ==
  /\ sweep # NoSweep
  /\ events' = [f \in Fingerprints |-> IF events[f] > sweep THEN 0 ELSE events[f]]
  /\ sweep' = NoSweep
  /\ UNCHANGED <<now, present, enabled, counters, job, lost>>

PurgeExpiredEvents ==
  /\ sweep # NoSweep
  /\ events' = [f \in Fingerprints |-> IF events[f] <= sweep THEN 0 ELSE events[f]]
  /\ sweep' = NoSweep
  /\ UNCHANGED <<now, present, enabled, counters, job, lost>>

(* No beacon runs longer than Lag on its clock reading. *)
Tick ==
  /\ now < MaxTime
  /\ \A p \in Procs : job[p] # Idle => now + 1 - job[p].stamp <= Lag
  /\ now' = now + 1
  /\ UNCHANGED <<events, present, enabled, counters, job, sweep, lost>>

Next ==
  \/ \E p \in Procs, f \in Fingerprints : Beacon(p, f)
  \/ \E p \in Procs : ClaimEvent(p) \/ RegisterView(p) \/ RegisterClick(p) \/ Fail(p)
  \/ \E l \in Links, on \in BOOLEAN : SetEnabled(l, on)
  \/ \E l \in Links : DeleteLink(l)
  \/ BeginPurge \/ PurgeExpiredEvents
  \/ Tick

Spec == Init /\ [][Next]_vars

(* Maintain's ticker keeps firing and its DELETE is executed. *)
FairSpec == Spec /\ WF_vars(BeginPurge) /\ WF_vars(PurgeExpiredEvents)

-----------------------------------------------------------------------------
(* Properties *)

(* Types; only links that exist are shown or have clicks. *)
TypeOK ==
  /\ now \in Nat
  /\ events \in [Fingerprints -> Nat]
  /\ enabled \subseteq present /\ present \subseteq Links
  /\ linkClicks \in [Links -> Nat]
  /\ \A l \in Links \ present : linkClicks[l] = 0
  /\ total \in Counts /\ daily \in Counts
  /\ job \in [Procs -> Job]
  /\ sweep \in Nat \cup {NoSweep}
  /\ countedAt \in [Fingerprints -> Nat \cup {Never}]
  /\ lost \subseteq Fingerprints

(* "The same visitor is counted at most once per window" (integrity.go): a   *)
(* beacon that counts a fingerprint does so a window, less the Lag by which  *)
(* the clock readings may be old, after it was last counted, whatever        *)
(* beacons, failures and purges overlap.                                     *)
CountedApart ==
  [][\A p \in Procs :
       LET f == job[p].fp IN
       job[p].at = "claimed" /\ job'[p] # job[p] /\ total' # total /\ countedAt[f] # Never =>
         now - countedAt[f] >= Window(f) - Lag]_vars

(* The claim commits before the count (public.go): a claim keeps further     *)
(* beacons of its fingerprint away only if it has been counted, is about to  *)
(* be, or was lost in one of two ways: its beacon failed, or its link was    *)
(* hidden or gone when it came to counting.                                  *)
LossExplained ==
  \A f \in Fingerprints : events[f] # 0 =>
    \/ \E p \in Procs : job[p].at = "claimed" /\ job[p].fp = f
    \/ countedAt[f] # Never /\ events[f] <= countedAt[f] + Window(f)
    \/ f \in lost

(* PurgeExpiredEvents: "nothing is kept for long": an expired claim is       *)
(* dropped or renewed.                                                       *)
ExpiredEventsLeave ==
  \A f \in Fingerprints :
    (events[f] # 0 /\ events[f] <= now) ~> (events[f] = 0 \/ events[f] > now)
=============================================================================
