--------------------------- MODULE MCPlayerPlasma ---------------------------
(***************************************************************************)
(* A map with a plasma rifle where a shot kills him: Player for TLC, where *)
(* the emitted kill numbers the weapon's state as on a map without one.    *)
(***************************************************************************)
EXTENDS Player

Caps  == [clip |-> 4, shell |-> 2, cell |-> 2, misl |-> 1]
Clips == [clip |-> 2, shell |-> 1, cell |-> 1, misl |-> 1]

Kinds == [chaingun |-> "MGUN", launcher |-> "LAUN"]

Lethal == {<<4, 0>>}

FairSpec == Spec /\ WF_turn(Advance)
=============================================================================
