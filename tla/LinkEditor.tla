----------------------------- MODULE LinkEditor -----------------------------
(***************************************************************************)
(* The link page of the panel and its calls to the API.  The page keeps    *)
(* its own copy of the list and patches it with each answer; a move is     *)
(* shown before it is sent and undone when it fails.  Calls overlap, the   *)
(* server handles them in any order, answers come back in any order, and   *)
(* each can get lost before or after it has taken effect.  One account,    *)
(* one open page; a page that was left can still have calls under way.     *)
(* Of a link's fields only `enabled` is kept, for all that a call sends.   *)
(***************************************************************************)
EXTENDS Integers, SequencesExt

CONSTANTS
  Calls,     \* API calls in flight at once (a bound)
  First,     \* bound: links 1..First exist at the start
  MaxId,     \* bound: link ids handed out
  Drafts,    \* bound: the values of `enabled` in a draft that is saved
  Drags      \* bound: places in the list where a drag begins

ASSUME LinkEditorAssumption ==
  /\ First \in Nat /\ MaxId \in Nat /\ First <= MaxId
  /\ Drafts \subseteq BOOLEAN /\ Drags \subseteq Nat \ {0}

VARIABLES
  list,      \* the server's links in display order
  on,        \* the enabled ones
  lastId,    \* last id handed out
  rows,      \* the page's list: links()
  busy,      \* busyId(), 0 for null
  drag,      \* dragIndex(), 0 for null: where the dragged row was at dragstart
  call,      \* calls in flight
  clashed,   \* history: since the page was opened, calls that touch the same
             \* thing have overlapped
  missed     \* history: it missed the list, or the answer to a call that took effect

vars == <<list, on, lastId, rows, busy, drag, call, clashed, missed>>

Shown(i) == [id |-> i, on |-> i \in on]
Answer == [k \in DOMAIN list |-> Shown(list[k])]
IdsOf(rs) == [k \in DOMAIN rs |-> rs[k].id]

(* What a filter leaves of s: the entries at the places ks, in their order. *)
Nth(ks, j) == CHOOSE k \in ks : Cardinality({m \in ks : m <= k}) = j
Kept(s, ks) == [j \in 1..Cardinality(ks) |-> s[Nth(ks, j)]]
Without(rs, i) == Kept(rs, {k \in DOMAIN rs : rs[k].id # i})

(* A row that shows no link: its id is undefined. *)
Undefined == -1
NoLink == [id |-> Undefined, on |-> FALSE]

(* A call: what it asks (link, new `enabled`, order), what the page shows    *)
(* again if a move fails, the rows of the answer, and whether the page that  *)
(* made it is still open.                                                    *)
Idle == [op |-> "none", at |-> "idle", id |-> 0, on |-> FALSE, ids |-> <<>>,
         previous |-> <<>>, answer |-> <<>>, live |-> FALSE]
Flying == {c \in Calls : call[c] # Idle}

WholeList == {"load", "reorder"}
Conflict(x, y) == {x.op, y.op} \cap WholeList # {} \/ x.id = y.id

Init ==
  /\ list = [k \in 1..First |-> k]
  /\ on = 1..First
  /\ lastId = First
  /\ rows = <<>>
  /\ busy = 0
  /\ drag = 0
  /\ call = [c \in Calls |-> Idle]
  /\ clashed = FALSE
  /\ missed = TRUE

-----------------------------------------------------------------------------
(* The page *)

Send(c, x) ==
  /\ call[c] = Idle
  /\ call' = [call EXCEPT ![c] = x]
  /\ clashed' = (clashed \/ \E d \in Flying : Conflict(call[d], x))
  /\ missed' = missed

Request(op) == [Idle EXCEPT !.op = op, !.at = "sent", !.live = TRUE]

(* Of a page that is left only the calls go on that the server has not       *)
(* handled: nothing is seen of the rest.                                     *)
Left(x) ==
  IF x.at = "sent" /\ x.op # "load" THEN [x EXCEPT !.live = FALSE, !.previous = <<>>] ELSE Idle

(* A new LinksPage: ngOnInit loads.  Calls of the page left before go on.    *)
Open(c) ==
  /\ call[c] = Idle
  /\ call' = [d \in Calls |-> IF d = c THEN Request("load") ELSE Left(call[d])]
  /\ rows' = <<>>
  /\ busy' = 0
  /\ drag' = 0
  /\ clashed' = (\E d \in Calls : Left(call[d]) # Idle)
  /\ missed' = FALSE
  /\ UNCHANGED <<list, on, lastId>>

(* The rows are not there while the page loads. *)
Loading == \E d \in Flying : call[d].live /\ call[d].op = "load"

(* Bound: during a drag a call is kept free for its drop. *)
Spare(c) == drag = 0 \/ \E d \in Calls \ {c} : call[d] = Idle

(* save: one at a time; `enabled` comes from a draft that may be old.  Only   *)
(* the form for a new link (id 0) is there while the page loads.             *)
Save(c, i, e) ==
  /\ Spare(c)
  /\ Loading => i = 0
  /\ ~ \E d \in Flying : call[d].live /\ call[d].op \in {"create", "save"}
  /\ Send(c, IF i = 0 THEN [Request("create") EXCEPT !.on = e]
                      ELSE [Request("save") EXCEPT !.id = i, !.on = e])
  /\ UNCHANGED <<list, on, lastId, rows, busy, drag>>

(* toggleEnabled: the row's switch is off while busyId is this link's. *)
Toggle(c, k) ==
  /\ Spare(c) /\ ~Loading
  /\ busy # rows[k].id
  /\ busy' = rows[k].id
  /\ Send(c, [Request("toggle") EXCEPT !.id = rows[k].id, !.on = ~rows[k].on])
  /\ UNCHANGED <<list, on, lastId, rows, drag>>

(* remove, after the question whether to; same guard. *)
RemoveLink(c, k) ==
  /\ Spare(c) /\ ~Loading
  /\ busy # rows[k].id
  /\ busy' = rows[k].id
  /\ Send(c, [Request("delete") EXCEPT !.id = rows[k].id])
  /\ UNCHANGED <<list, on, lastId, rows, drag>>

(* reorder: the row at one place goes to another. *)
Moved(rs, from, to) == InsertAt(RemoveAt(rs, from), to, rs[from])

(* applyOrder: the new order is shown, then sent. *)
ApplyOrder(c, next) ==
  /\ rows' = next
  /\ Send(c, [Request("reorder") EXCEPT !.ids = IdsOf(next), !.previous = rows])
  /\ UNCHANGED <<list, on, lastId, busy>>

(* move: the up and down buttons of a row. *)
Move(c, k, to) ==
  /\ Spare(c) /\ ~Loading
  /\ to \in {k - 1, k + 1}
  /\ ApplyOrder(c, Moved(rows, k, to))
  /\ UNCHANGED drag

DragStart(k) ==
  /\ ~Loading /\ Flying # Calls
  /\ drag' = k
  /\ UNCHANGED <<list, on, lastId, rows, busy, call, clashed, missed>>

(* onDragEnd, or onDrop at the place where the drag began. *)
DragEnd ==
  /\ drag' = 0
  /\ UNCHANGED <<list, on, lastId, rows, busy, call, clashed, missed>>

(* onDrop: the row that is now where the drag began goes where it ends. *)
Drop(c, to) ==
  /\ drag \in DOMAIN rows \ {to}
  /\ drag' = 0
  /\ ApplyOrder(c, Moved(rows, drag, to))

(* onDrop after the list got shorter than where the drag began: splice finds *)
(* no row and inserts undefined; applyOrder shows it as a row of its own and *)
(* then throws on its id, before anything is sent.                           *)
DropNothing(to) ==
  /\ drag > Len(rows)
  /\ drag' = 0
  /\ rows' = InsertAt(rows, to, NoLink)
  /\ UNCHANGED <<list, on, lastId, busy, call, clashed, missed>>

(* Mutant: a failed move stays on the page. *)
ReceiveKeeping(c) ==
  LET x == call[c]
      patch(rs) ==
        CASE x.at = "failed" -> rs
          [] x.op \in WholeList -> x.answer
          [] x.op = "create" -> rs \o x.answer
          [] x.op \in {"save", "toggle"} ->
               [k \in DOMAIN rs |-> IF rs[k].id = x.id THEN x.answer[1] ELSE rs[k]]
          [] x.op = "delete" -> Without(rs, x.id)
  IN
  /\ x.at \in {"answered", "failed"}
  /\ rows' = IF x.live THEN patch(rows) ELSE rows
  /\ busy' = IF x.live /\ x.op \in {"toggle", "delete"} THEN 0 ELSE busy
  /\ call' = [call EXCEPT ![c] = Idle]
  /\ UNCHANGED <<list, on, lastId, drag, clashed, missed>>

(* The subscriptions' next and error handlers. *)
Receive(c) ==
  LET x == call[c]
      patch(rs) ==
        CASE x.at = "failed" -> IF x.op = "reorder" THEN x.previous ELSE rs
          [] x.at = "answered" /\ x.op \in WholeList -> x.answer
          [] x.at = "answered" /\ x.op = "create" -> rs \o x.answer
          [] x.at = "answered" /\ x.op \in {"save", "toggle"} ->
               [k \in DOMAIN rs |-> IF rs[k].id = x.id THEN x.answer[1] ELSE rs[k]]
          [] x.at = "answered" /\ x.op = "delete" -> Without(rs, x.id)
  IN
  /\ x.at \in {"answered", "failed"}
  /\ rows' = IF x.live THEN patch(rows) ELSE rows
  /\ busy' = IF x.live /\ x.op \in {"toggle", "delete"} THEN 0 ELSE busy
  /\ call' = [call EXCEPT ![c] = Idle]
  /\ UNCHANGED <<list, on, lastId, drag, clashed, missed>>

-----------------------------------------------------------------------------
(* The server *)

To(c, at, answer) == call' = [call EXCEPT ![c].at = at, ![c].answer = answer]

(* Mutant: the list of ids is not checked for duplicates. *)
AcceptableTwice(ids) == ids # <<>> /\ ToSet(ids) = ToSet(list)

(* Empty lists are refused by the handler, the rest by ReorderLinks. *)
Acceptable(ids) ==
  ids # <<>> /\ Len(ids) = Len(list) /\ ToSet(ids) = ToSet(list)

List(c) ==
  /\ call[c].op = "load"
  /\ To(c, "answered", Answer)
  /\ UNCHANGED <<list, on, lastId>>

(* With no other creation under way a new link is the last (see Links). *)
Create(c) ==
  /\ call[c].op = "create"
  /\ lastId < MaxId
  /\ lastId' = lastId + 1
  /\ list' = Append(list, lastId + 1)
  /\ on' = IF call[c].on THEN on \cup {lastId + 1} ELSE on
  /\ call' = [call EXCEPT ![c].at = "written", ![c].id = lastId + 1]

Update(c) ==
  LET x == call[c] IN
  /\ x.op \in {"save", "toggle"}
  /\ IF Contains(list, x.id)
     THEN /\ on' = IF x.on THEN on \cup {x.id} ELSE on \ {x.id}
          /\ To(c, "written", <<>>)
     ELSE on' = on /\ To(c, "failed", <<>>)
  /\ UNCHANGED <<list, lastId>>

Delete(c) ==
  LET x == call[c] IN
  /\ x.op = "delete"
  /\ list' = Kept(list, {k \in DOMAIN list : list[k] # x.id})
  /\ on' = on \ {x.id}
  /\ To(c, IF Contains(list, x.id) THEN "answered" ELSE "failed", <<>>)
  /\ UNCHANGED lastId

Reorder(c) ==
  LET x == call[c] IN
  /\ x.op = "reorder"
  /\ IF Acceptable(x.ids)
     THEN list' = x.ids /\ To(c, "written", <<>>)
     ELSE list' = list /\ To(c, "failed", <<>>)
  /\ UNCHANGED <<on, lastId>>

Handle(c) ==
  /\ call[c].at = "sent"
  /\ List(c) \/ Create(c) \/ Update(c) \/ Delete(c) \/ Reorder(c)
  /\ UNCHANGED <<rows, busy, drag, clashed, missed>>

(* After the write the answer is read by a statement of its own. *)
ReadBack(c) ==
  LET x == call[c] IN
  /\ x.at = "written"
  /\ IF x.op = "reorder" THEN To(c, "answered", Answer)
     ELSE IF Contains(list, x.id) THEN To(c, "answered", <<Shown(x.id)>>)
     ELSE To(c, "failed", <<>>)
  /\ UNCHANGED <<list, on, lastId, rows, busy, drag, clashed, missed>>

(* The connection breaks or the server fails: before the call has had any    *)
(* effect, or after it.                                                      *)
Break(c) ==
  /\ call[c].at \in {"sent", "written", "answered"}
  /\ To(c, "failed", <<>>)
  /\ missed' = (missed \/ call[c].at # "sent" \/ call[c].op = "load")
  /\ UNCHANGED <<list, on, lastId, rows, busy, drag, clashed>>

Next ==
  \/ \E c \in Calls :
       \/ Open(c)
       \/ \E k \in DOMAIN rows, e \in Drafts : Save(c, rows[k].id, e)
       \/ \E e \in Drafts : Save(c, 0, e)
       \/ \E k \in DOMAIN rows : Toggle(c, k) \/ RemoveLink(c, k)
       \/ \E k, to \in DOMAIN rows : Move(c, k, to)
       \/ \E to \in DOMAIN rows : Drop(c, to)
       \/ Receive(c) \/ Handle(c) \/ ReadBack(c) \/ Break(c)
  \/ \E k \in DOMAIN rows \cap Drags : DragStart(k)
  \/ \E to \in DOMAIN rows : DropNothing(to)
  \/ DragEnd

Spec == Init /\ [][Next]_vars

-----------------------------------------------------------------------------
(* Properties *)

(* Types; the server's list names each link once. *)
TypeOK ==
  /\ lastId \in 0..MaxId
  /\ IsInjective(list) /\ ToSet(list) \subseteq 1..lastId
  /\ on \subseteq ToSet(list)
  /\ \A k \in DOMAIN rows :
       rows[k].id \in (1..lastId) \cup {Undefined} /\ rows[k].on \in BOOLEAN
  /\ busy \in (0..lastId) \cup {Undefined} /\ drag \in Nat
  /\ clashed \in BOOLEAN /\ missed \in BOOLEAN

(* When nothing is in flight the page shows the server's list, give or take  *)
(* rows of no link: calls about different links may overlap and be answered  *)
(* in any order, any of them may fail before it has taken effect, and a drag *)
(* may end on a list that is not the one it began on.  Excepted are calls    *)
(* that overlap and are about one link or, one of them, about the whole      *)
(* list; answers lost after the effect; and a list that failed to load.      *)
PageAgrees ==
  Flying = {} /\ ~clashed /\ ~missed => Without(rows, Undefined) = Answer

(* The server's list as what Links implements: a set of links, each above or *)
(* below the others.                                                         *)
Above(l) ==
  {r \in ToSet(l) \X ToSet(l) :
     \E p, q \in DOMAIN l : p < q /\ l[p] = r[1] /\ l[q] = r[2]}

LO == INSTANCE LinkOrder
        WITH Users <- {"account"}, Ids <- 1..MaxId,
             members <- [u \in {"account"} |-> ToSet(list)],
             before <- [u \in {"account"} |-> Above(list)]

(* Whatever the page sends, and however late, the server's list does what    *)
(* the table of Links is proved to do: a stale or repeated order is refused  *)
(* or is a rearrangement of all the links there are, and nothing else moves  *)
(* a link past another.                                                      *)
ServerKeepsOrder == [][list' # list => LO!Next]_vars

(* links.page.ts: on failure applyOrder rolls "back to the server's last     *)
(* known order": a move that failed, undone by a page that has missed no     *)
(* answer and waits for none, leaves the server's order on the page.         *)
RollbackToServer ==
  [][\A c \in Calls :
       /\ call[c].live /\ call[c].op = "reorder" /\ call[c].at = "failed"
       /\ ~missed /\ Flying = {c} /\ call' = [call EXCEPT ![c] = Idle]
       => IdsOf(rows') = list]_vars
=============================================================================
