----------------------------- MODULE LeafLists -----------------------------
(***************************************************************************)
(* The lists of the things that stand in each leaf of the map              *)
(* (World._list_insert, _list_remove; sim.leaf_link, sim.leaf_unlink):     *)
(* lists of things 1, 2, .. linked through `next`, ascending, 0 the end.   *)
(***************************************************************************)
EXTENDS Integers

(* Where a walk of the list stands after each step, 0 past the end.        *)
Walk(ls, leaf) ==
  LET w[i \in {0} \union DOMAIN ls.next] ==
        IF i = 0 THEN ls.head[leaf] ELSE IF w[i - 1] = 0 THEN 0 ELSE ls.next[w[i - 1]]
  IN  w

(* The first step that stands on one of `stops`.                           *)
FirstStep(w, stops) ==
  CHOOSE i \in DOMAIN w : w[i] \in stops /\ \A j \in 0 .. i - 1 : w[j] \notin stops

(* _list_insert: before the first thing past t.                            *)
Link(ls, leaf, t) ==
  LET w == Walk(ls, leaf)
      i == FirstStep(w, {0} \union {u \in DOMAIN ls.next : u > t})
  IN  IF i = 0 THEN [ls EXCEPT !.next[t] = w[0], !.head[leaf] = t]
      ELSE [ls EXCEPT !.next = [@ EXCEPT ![t] = w[i], ![w[i - 1]] = t]]

(* _list_remove: a thing that is not in the list is an assertion of the    *)
(* model and a walk to the end in the emitted code; nothing changes.       *)
Unlink(ls, leaf, t) ==
  LET w == Walk(ls, leaf)
      i == FirstStep(w, {0, t})
  IN  IF w[i] = 0 THEN ls
      ELSE IF i = 0 THEN [ls EXCEPT !.head[leaf] = ls.next[t], !.next[t] = 0]
      ELSE [ls EXCEPT !.next = [@ EXCEPT ![w[i - 1]] = ls.next[t], ![t] = 0]]

(* The first thing of a set, 0 if it has none.                             *)
FirstOf(S) == IF S = {} THEN 0 ELSE CHOOSE t \in S : \A u \in S : t <= u

Past(S, t) == {u \in S : u > t}

(* leaf_lists_from_scratch: the list holds the things of S and no other,   *)
(* from its first in ascending order.                                      *)
IsListOf(ls, leaf, S) ==
  ls.head[leaf] = FirstOf(S) /\ \A t \in S : ls.next[t] = FirstOf(Past(S, t))
=============================================================================
