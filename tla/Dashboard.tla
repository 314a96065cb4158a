----------------------------- MODULE Dashboard ------------------------------
(***************************************************************************)
(* The administrator's dashboard.  Stats puts it together from three reads *)
(* that are not one transaction (the totals, every link, the chart of the  *)
(* last days), while beacons are counted, links are edited and midnight    *)
(* passes.  The totals and the links are for all time; the chart leaves    *)
(* out the rows of daily_stats older than its days.                        *)
(***************************************************************************)
EXTENDS Counting, FiniteSets

CONSTANTS
  Days,    \* the days of the chart
  MaxDay   \* bound: days that pass

ASSUME DashAssumption == Days \in Nat \ {0} /\ MaxDay \in Nat \ {0}

VARIABLES
  board,   \* the dashboard being put together
  today,   \* the date, counted from the first row of daily_stats
  dawn     \* daily_stats as running totals: dawn[d] is the sum of the rows
           \* before day d (the row of d is what is added up to dawn[d + 1])

dashVars == <<vars, board, today, dawn>>

(* The reads go from "none" over "totals" and "links" to "done". *)
NoBoard ==
  [at |-> "none", total |-> Zero, perLink |-> <<>>, daily |-> Zero, day |-> 1]

DashInit ==
  /\ Init
  /\ board = NoBoard
  /\ today = 1
  /\ dawn = [d \in 1..MaxDay |-> Zero]

Plus(a, b) == [views |-> a.views + b.views, clicks |-> a.clicks + b.clicks]
Minus(a, b) == [views |-> a.views - b.views, clicks |-> a.clicks - b.clicks]

(* What a step counts goes to the row of the day that its transaction read,  *)
(* which is the day before for a beacon that midnight overtakes.             *)
Overtaken == \E p \in Procs : job'[p] # job[p] /\ job[p].stamp < now

Booked ==
  IF daily' = daily
  THEN dawn' = dawn
  ELSE \E d \in {today} \cup (IF Overtaken THEN {today - 1} \ {0} ELSE {}) :
         dawn' = [e \in 1..MaxDay |->
                    IF d < e /\ e <= today THEN Plus(dawn[e], Minus(daily', daily))
                                          ELSE dawn[e]]

(* A tick of the clock to the next day. *)
Midnight ==
  /\ Tick
  /\ today < MaxDay
  /\ today' = today + 1
  /\ dawn' = [dawn EXCEPT ![today + 1] = daily]
  /\ UNCHANGED board

(* The first day of a chart drawn on day d: date('now', '-(days - 1) days'). *)
FirstDay(d) == IF d > Days THEN d - Days + 1 ELSE 1

ReadTotals ==
  /\ board.at = "none"
  /\ board' = [board EXCEPT !.at = "totals", !.total = total]
  /\ UNCHANGED <<vars, today, dawn>>

(* AllLinks, hidden ones included. *)
ReadLinks ==
  /\ board.at = "totals"
  /\ board' = [board EXCEPT !.at = "links",
                            !.perLink = [l \in present |-> linkClicks[l]]]
  /\ UNCHANGED <<vars, today, dawn>>

(* Mutant: the first day of the chart is left out, day > date('now', ...). *)
ReadChartShort ==
  /\ board.at = "links"
  /\ board' = [board EXCEPT
       !.at = "done", !.day = today,
       !.daily = Minus(daily, IF FirstDay(today) < today THEN dawn[FirstDay(today) + 1]
                                                         ELSE daily)]
  /\ UNCHANGED <<vars, today, dawn>>

(* The rows of daily_stats from the first day of the chart on, added up. *)
ReadChart ==
  /\ board.at = "links"
  /\ board' = [board EXCEPT !.at = "done", !.day = today,
                            !.daily = Minus(daily, dawn[FirstDay(today)])]
  /\ UNCHANGED <<vars, today, dawn>>

DashNext ==
  \/ Next /\ Booked /\ UNCHANGED <<board, today>>
  \/ Midnight
  \/ ReadTotals \/ ReadLinks \/ ReadChart

DashSpec == DashInit /\ [][DashNext]_dashVars

(* With the ticker of Maintain, as in Counting. *)
FairDashSpec ==
  /\ DashSpec
  /\ WF_vars(BeginPurge)
  /\ WF_vars(PurgeExpiredEvents)

-----------------------------------------------------------------------------
(* Properties *)

(* The clicks that a list of links shows, one by one. *)
Clicks(perLink) == UNION {{l} \X (1..perLink[l]) : l \in DOMAIN perLink}

(* A total, or links, that show more views or clicks than the chart adds up  *)
(* to do so only for counts of days before the chart's first: whatever is     *)
(* counted or edited between the reads of Stats, and whenever midnight        *)
(* passes, the chart is the last of them and misses nothing of its days.      *)
ChartCoversTotals ==
  board.at = "done" =>
    LET covered == Plus(board.daily, dawn[FirstDay(board.day)]) IN
    /\ board.total.views <= covered.views
    /\ board.total.clicks <= covered.clicks
    /\ Cardinality(Clicks(board.perLink)) <= covered.clicks
=============================================================================
