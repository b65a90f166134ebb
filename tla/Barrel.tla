------------------------------- MODULE Barrel -------------------------------
(***************************************************************************)
(* What a barrel promises (linuxdoom's, as combat's damage_barrel and      *)
(* barrels phase keep it): it stands, it burns once it is killed, it       *)
(* blasts once, it is gone.  Only a new game puts it back.                 *)
(***************************************************************************)
VARIABLES
  fate,          (* "stands", "burns", "spent" or "gone"                   *)
  atStart        (* "stands", or "gone" on a skill without it: never       *)
                 (* changes                                                *)

barrel == <<fate, atStart>>

Kill  == fate = "stands" /\ fate' = "burns"
Blast == fate = "burns" /\ fate' = "spent"
Go    == fate = "spent" /\ fate' = "gone"

Placed == fate = atStart
Ends   == (Kill \/ Blast \/ Go) /\ UNCHANGED atStart
Reborn == fate' = atStart /\ UNCHANGED atStart
=============================================================================
