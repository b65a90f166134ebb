-------------------------- MODULE MCMonsterScheduler --------------------------
(***************************************************************************)
(* MonsterScheduler on a small level: four slots and one heavy slot a pass *)
(* (so a monster may wait three passes), one of the four a lost soul.      *)
(***************************************************************************)
EXTENDS MonsterScheduler

MCTics == [s \in State |-> IF s = "corpse" THEN TICS_FOREVER ELSE IF s = "face" THEN 2 ELSE 1]
MCFirst == [m \in Slot |-> 1]
=============================================================================
