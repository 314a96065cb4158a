----------------------------- MODULE LinkOrder ------------------------------
(***************************************************************************)
(* What a link list promises, whatever numbers the rows hold: every        *)
(* account has a set of links in a strict total order; a new link enters   *)
(* without disturbing the others, a removed one leaves without disturbing  *)
(* them, and only a reorder changes how two links stand to each other.     *)
(***************************************************************************)
CONSTANTS Users, Ids

VARIABLES
  members,   \* members[u]: the links of account u
  before     \* before[u]: pairs <<a, b>> with a shown above b

vars == <<members, before>>

TotalOrder(r, S) ==
  /\ r \subseteq S \X S
  /\ \A a \in S : <<a, a>> \notin r
  /\ \A a, b \in S : a # b => <<a, b>> \in r \/ <<b, a>> \in r
  /\ \A a, b, c \in S : <<a, b>> \in r /\ <<b, c>> \in r => <<a, c>> \in r

Init == members = [u \in Users |-> {}] /\ before = [u \in Users |-> {}]

OthersKeep(u) ==
  \A v \in Users \ {u} : members'[v] = members[v] /\ before'[v] = before[v]

Insert(u, x) ==
  /\ \A v \in Users : x \notin members[v]
  /\ members'[u] = members[u] \cup {x}
  /\ TotalOrder(before'[u], members'[u])
  /\ before'[u] \cap (members[u] \X members[u]) = before[u]
  /\ OthersKeep(u)

Remove(u, x) ==
  /\ x \in members[u]
  /\ members'[u] = members[u] \ {x}
  /\ before'[u] = before[u] \cap (members'[u] \X members'[u])
  /\ OthersKeep(u)

Reorder(u) ==
  /\ members'[u] = members[u]
  /\ TotalOrder(before'[u], members[u])
  /\ OthersKeep(u)

Drop(u) ==
  /\ members'[u] = {} /\ before'[u] = {}
  /\ OthersKeep(u)

Next ==
  \E u \in Users :
    \/ \E x \in Ids : Insert(u, x) \/ Remove(u, x)
    \/ Reorder(u)
    \/ Drop(u)

Spec == Init /\ [][Next]_vars
=============================================================================
