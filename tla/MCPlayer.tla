------------------------------ MODULE MCPlayer ------------------------------
(***************************************************************************)
(* Three small levels for Player, one in each behaviour: one of armor,     *)
(* suits and nukage where he has no bullets, one of the light weapons and  *)
(* one of the heavy ones.  They share the game's tables and differ in what *)
(* the map holds, in the keys pressed and in what hurts; the constants of  *)
(* the cfg bound those of every level.                                     *)
(***************************************************************************)
EXTENDS Player

VARIABLE level

Caps  == [clip |-> 4, shell |-> 2, cell |-> 2, misl |-> 1]
Clips == [clip |-> 2, shell |-> 1, cell |-> 1, misl |-> 1]

Kinds == [shotgun |-> "SHOTdropped", saw |-> "CSAW", berserk |-> "PSTR", shells |-> "SHEL",
          launcher |-> "LAUN", chaingun |-> "MGUN", plasma |-> "PLAS", pack |-> "BPAK",
          blue |-> "ARM2", bonus |-> "BON2", suit |-> "SUIT"]

Lethal  == {<<4, 0>>}
Attacks == {<<3, 1>>}

Body == INSTANCE Player WITH
  PlasmaMap <- FALSE, Items <- {"blue", "bonus", "suit", "berserk"}, INITIAL_BULLETS <- 0,
  Keys <- {"nochange"}, Fires <- {FALSE}, Hits <- Attacks, TICS_BOUND <- 1

Light == INSTANCE Player WITH
  PlasmaMap <- FALSE, Items <- {"shotgun", "saw", "berserk", "shells"},
  Keys <- {"nochange", "fist", "shotgun"}, Uses <- {FALSE},
  FloorHurts <- {0}, Hits <- Lethal, TICS_BOUND <- 1, WEAPON_TICS <- 1,
  BONUS_CAP <- 1, STRENGTH_CAP <- 1, IRONTICS <- 1, DC_CAP <- 1, VIEW_DROP_MAX <- 0

(* Nothing hits him here: what his death does on a map with a plasma rifle *)
(* is another run's matter.                                                *)
Heavy == INSTANCE Player WITH
  Items <- {"launcher", "chaingun", "plasma", "pack"},
  Keys <- {"nochange", "chaingun", "missile", "plasma"}, Uses <- {FALSE},
  FloorHurts <- {0}, Hits <- {},
  BONUS_CAP <- 1, STRENGTH_CAP <- 1, IRONTICS <- 1, DC_CAP <- 1, VIEW_DROP_MAX <- 0

MCInit ==
  /\ level \in {"body", "light", "heavy"}
  /\ CASE level = "body" -> Body!Init [] level = "light" -> Light!Init [] level = "heavy" -> Heavy!Init

MCNext ==
  /\ \/ level = "body" /\ Body!Next
     \/ level = "light" /\ Light!Next
     \/ level = "heavy" /\ Heavy!Next
  /\ UNCHANGED level

MCSpec == MCInit /\ [][MCNext]_<<vars, level>> /\ WF_turn(Advance)
=============================================================================
