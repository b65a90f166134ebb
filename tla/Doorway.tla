------------------------------- MODULE Doorway -------------------------------
(***************************************************************************)
(* What a door promises the level: things pass through a doorway that is   *)
(* passable, and it stops being passable only while nothing live is in it. *)
(* Doors implements it for every door (Doors!Way).                         *)
(***************************************************************************)
CONSTANTS
  Thing,        (* what can stand in the doorway                           *)
  StartOpen,    (* is it passable at the level start                       *)
  StartInside   (* who stands in it at the level start                     *)

VARIABLES passable, inside

way == <<passable, inside>>

Init == passable = StartOpen /\ inside = StartInside

Enter(t) == passable /\ inside' = inside \union {t} /\ UNCHANGED passable

Leave(t) == inside' = inside \ {t} /\ UNCHANGED passable

Open == passable' = TRUE /\ UNCHANGED inside

Shut == inside = {} /\ passable' = FALSE /\ UNCHANGED inside

(* The level starts again.                                                 *)
Reset == passable' = StartOpen /\ inside' = StartInside

Next ==
  \/ \E t \in Thing : Enter(t) \/ Leave(t)
  \/ Open \/ Shut \/ Reset

Spec == Init /\ [][Next]_way
=============================================================================
