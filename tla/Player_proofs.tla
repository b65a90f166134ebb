---------------------------- MODULE Player_proofs ----------------------------
(***************************************************************************)
(* Proofs about Player, Psprites and Inventory: the weapon up is his, the  *)
(* emitted cells are the model's, the dead fire nothing, and the device    *)
(* shows the palette of the frame.                                         *)
(*                                                                         *)
(* Good bounds what the player holds. At says how the psprite and the rest *)
(* of him go together: whose weapon's state it is in, how high the weapon  *)
(* stands, that a shot to come has its round, that a living man's weapon   *)
(* goes down for another. At is what makes the emitted tests the model's:  *)
(* where a byte would wrap, a nibble would be counted past 0 or a nested   *)
(* P_SetPsprite would not end where a jump does, it does not hold. Same    *)
(* gives every emitted cell as a function of the model's record.           *)
(* PlayerInv, of the model alone, is inductive, and CellsInv is with it.   *)
(* The lemma of an operator that changes the player says both what it      *)
(* keeps and that the emitted one does the same (Landed for a state that   *)
(* is set, Gives for a thing that is given).                               *)
(***************************************************************************)
EXTENDS Player, TLAPS, WellFoundedInduction, SequenceTheorems

(***************************************************************************)
(* The table of states, row by row, and what is read from it.              *)
(***************************************************************************)
Raw(s) == States[s][1]

Row(s, tics, act, next) ==
  s \in DOMAIN States /\ Raw(s) = tics /\ Action(s) = act /\ Next_(s) = next

LEMMA FistRows ==
  /\ Row("S_PUNCH", 1, "A_WeaponReady", "S_PUNCH") /\ Row("S_PUNCHDOWN", 1, "A_Lower", "S_PUNCHDOWN")
  /\ Row("S_PUNCHUP", 1, "A_Raise", "S_PUNCHUP") /\ Row("S_PUNCH1", 4, "none", "S_PUNCH2")
BY DEF Row, Raw, States, Action, Next_

LEMMA FistRows2 ==
  /\ Row("S_PUNCH2", 4, "A_Punch", "S_PUNCH3") /\ Row("S_PUNCH3", 5, "none", "S_PUNCH4")
  /\ Row("S_PUNCH4", 4, "none", "S_PUNCH5") /\ Row("S_PUNCH5", 5, "A_ReFire", "S_PUNCH")
BY DEF Row, Raw, States, Action, Next_

LEMMA PistolRows ==
  /\ Row("S_PISTOL", 1, "A_WeaponReady", "S_PISTOL") /\ Row("S_PISTOLDOWN", 1, "A_Lower", "S_PISTOLDOWN")
  /\ Row("S_PISTOLUP", 1, "A_Raise", "S_PISTOLUP") /\ Row("S_PISTOL1", 4, "none", "S_PISTOL2")
BY DEF Row, Raw, States, Action, Next_

LEMMA PistolRows2 ==
  /\ Row("S_PISTOL2", 6, "A_FirePistol", "S_PISTOL3") /\ Row("S_PISTOL3", 4, "none", "S_PISTOL4")
  /\ Row("S_PISTOL4", 5, "A_ReFire", "S_PISTOL")
BY DEF Row, Raw, States, Action, Next_

LEMMA ShotgunRows ==
  /\ Row("S_SGUN", 1, "A_WeaponReady", "S_SGUN") /\ Row("S_SGUNDOWN", 1, "A_Lower", "S_SGUNDOWN")
  /\ Row("S_SGUNUP", 1, "A_Raise", "S_SGUNUP") /\ Row("S_SGUN1", 3, "none", "S_SGUN2")
BY DEF Row, Raw, States, Action, Next_

LEMMA ShotgunRows2 ==
  /\ Row("S_SGUN2", 7, "A_FireShotgun", "S_SGUN3") /\ Row("S_SGUN3", 5, "none", "S_SGUN4")
  /\ Row("S_SGUN4", 5, "none", "S_SGUN5") /\ Row("S_SGUN5", 4, "none", "S_SGUN6")
BY DEF Row, Raw, States, Action, Next_

LEMMA ShotgunRows3 ==
  /\ Row("S_SGUN6", 5, "none", "S_SGUN7") /\ Row("S_SGUN7", 5, "none", "S_SGUN8")
  /\ Row("S_SGUN8", 3, "none", "S_SGUN9") /\ Row("S_SGUN9", 7, "A_ReFire", "S_SGUN")
BY DEF Row, Raw, States, Action, Next_

LEMMA ChaingunRows ==
  /\ Row("S_CHAIN", 1, "A_WeaponReady", "S_CHAIN") /\ Row("S_CHAINDOWN", 1, "A_Lower", "S_CHAINDOWN")
  /\ Row("S_CHAINUP", 1, "A_Raise", "S_CHAINUP") /\ Row("S_CHAIN1", 4, "A_FireCGun", "S_CHAIN2")
BY DEF Row, Raw, States, Action, Next_

LEMMA ChaingunRows2 ==
  /\ Row("S_CHAIN2", 4, "A_FireCGun", "S_CHAIN3") /\ Row("S_CHAIN3", 0, "A_ReFire", "S_CHAIN")
BY DEF Row, Raw, States, Action, Next_

LEMMA MissileRows ==
  /\ Row("S_MISSILE", 1, "A_WeaponReady", "S_MISSILE") /\ Row("S_MISSILEDOWN", 1, "A_Lower", "S_MISSILEDOWN")
  /\ Row("S_MISSILEUP", 1, "A_Raise", "S_MISSILEUP") /\ Row("S_MISSILE1", 8, "A_GunFlash", "S_MISSILE2")
BY DEF Row, Raw, States, Action, Next_

LEMMA MissileRows2 ==
  /\ Row("S_MISSILE2", 12, "A_FireMissile", "S_MISSILE3") /\ Row("S_MISSILE3", 0, "A_ReFire", "S_MISSILE")
BY DEF Row, Raw, States, Action, Next_

LEMMA PlasmaRows ==
  /\ Row("S_PLASMA", 1, "A_WeaponReady", "S_PLASMA") /\ Row("S_PLASMADOWN", 1, "A_Lower", "S_PLASMADOWN")
  /\ Row("S_PLASMAUP", 1, "A_Raise", "S_PLASMAUP") /\ Row("S_PLASMA1", 3, "A_FirePlasma", "S_PLASMA2")
BY DEF Row, Raw, States, Action, Next_

LEMMA PlasmaRows2 ==
  /\ Row("S_PLASMA2", 10, "A_ReFire", "S_PLASMA2B") /\ Row("S_PLASMA2B", 10, "none", "S_PLASMA")
BY DEF Row, Raw, States, Action, Next_

LEMMA ChainsawRows ==
  /\ Row("S_SAW", 4, "A_WeaponReady", "S_SAWB") /\ Row("S_SAWB", 4, "A_WeaponReady", "S_SAW")
  /\ Row("S_SAWDOWN", 1, "A_Lower", "S_SAWDOWN") /\ Row("S_SAWUP", 1, "A_Raise", "S_SAWUP")
BY DEF Row, Raw, States, Action, Next_

LEMMA ChainsawRows2 ==
  /\ Row("S_SAW1", 4, "A_Saw", "S_SAW2") /\ Row("S_SAW2", 4, "A_Saw", "S_SAW3")
  /\ Row("S_SAW3", 0, "A_ReFire", "S_SAW")
BY DEF Row, Raw, States, Action, Next_

LEMMA FlashRows ==
  /\ Row("S_LIGHTDONE", 0, "none", "S_NULL") /\ Row("S_PISTOLFLASH", 7, "none", "S_LIGHTDONE")
  /\ Row("S_SGUNFLASH1", 4, "none", "S_SGUNFLASH2") /\ Row("S_SGUNFLASH2", 3, "none", "S_LIGHTDONE")
  /\ Row("S_PLASMAFLASH1", 4, "none", "S_LIGHTDONE") /\ Row("S_PLASMAFLASH2", 4, "none", "S_LIGHTDONE")
BY DEF Row, Raw, States, Action, Next_

LEMMA MoreFlashRows ==
  /\ Row("S_MISSILEFLASH1", 3, "none", "S_MISSILEFLASH2") /\ Row("S_MISSILEFLASH2", 4, "none", "S_MISSILEFLASH3")
  /\ Row("S_MISSILEFLASH3", 4, "none", "S_MISSILEFLASH4") /\ Row("S_MISSILEFLASH4", 4, "none", "S_LIGHTDONE")
  /\ Row("S_CHAINFLASH1", 5, "none", "S_LIGHTDONE") /\ Row("S_CHAINFLASH2", 5, "none", "S_LIGHTDONE")
BY DEF Row, Raw, States, Action, Next_

(* The actions that spend a round without looking for one.                 *)
Shoots(s) == Action(s) \in {"A_FirePistol", "A_FireShotgun", "A_FireMissile", "A_FirePlasma"}
Moving(s) == Action(s) \in {"A_Lower", "A_Raise"}
Others    == {"none", "A_WeaponReady", "A_ReFire", "A_Punch", "A_Saw", "A_GunFlash", "A_FireCGun",
              "A_FirePistol", "A_FireShotgun", "A_FireMissile", "A_FirePlasma"}

(* What the code relies on of a state s of weapon g.                       *)
Tame(g, s) ==
  /\ s \in DOMAIN States /\ s # S_NULL /\ s # Stays /\ Next_(s) \in WeaponStates[g]
  /\ Raw(s) \in 0 .. 12
  /\ Raw(s) = 0 => Action(s) = "A_ReFire" /\ Action(Next_(s)) = "A_WeaponReady"
  /\ Moving(s) => Next_(s) = s
  /\ ~Moving(s) => Action(s) \in Others /\ ~Moving(Next_(s))
  /\ Action(s) = "A_FirePistol" => g = "pistol"
  /\ Action(s) = "A_FireShotgun" => g = "shotgun"
  /\ Action(s) = "A_FireMissile" => g = "missile"
  /\ Action(s) = "A_GunFlash" => g = "missile"
  /\ Action(s) = "A_FirePlasma" => g = "plasma"
  /\ Action(s) = "A_FireCGun" => g = "chaingun" /\ s \in {"S_CHAIN1", "S_CHAIN2"}
  /\ Shoots(Next_(s)) => Action(s) \in {"none", "A_GunFlash"}
  /\ ~Shoots(Next_(Next_(s)))

LEMMA FistTame == \A s \in WeaponStates["fist"] : Tame("fist", s)
<1> DEFINE S == {"S_PUNCH", "S_PUNCHDOWN", "S_PUNCHUP", "S_PUNCH1", "S_PUNCH2", "S_PUNCH3", "S_PUNCH4",
              "S_PUNCH5"}
<1>1. WeaponStates["fist"] = S
  BY DEF WeaponStates
<1>2. ASSUME NEW s \in S PROVE Tame("fist", s)
  <2>1. s \in DOMAIN States /\ s # S_NULL /\ s # Stays /\ Next_(s) \in S
    BY FistRows, FistRows2 DEF Row, S_NULL, Stays
  <2>2. Raw(s) \in 0 .. 12 /\ (Raw(s) = 0 => Action(s) = "A_ReFire" /\ Next_(s) = "S_PUNCH")
    <3>1. CASE s \in {"S_PUNCH", "S_PUNCHDOWN", "S_PUNCHUP", "S_PUNCH1"}
      BY <3>1, FistRows DEF Row
    <3>2. CASE s \in {"S_PUNCH2", "S_PUNCH3", "S_PUNCH4", "S_PUNCH5"}
      BY <3>2, FistRows2 DEF Row
    <3> QED BY <3>1, <3>2
  <2>6. Action("S_PUNCH") = "A_WeaponReady"
    BY FistRows, FistRows2 DEF Row
  <2>3. (Moving(s) => Next_(s) = s) /\ (~Moving(s) => Action(s) \in Others /\ ~Moving(Next_(s)))
    BY FistRows, FistRows2 DEF Row, Moving, Others
  <2>4. (Shoots(Next_(s)) => Action(s) \in {"none", "A_GunFlash"}) /\ ~Shoots(Next_(Next_(s)))
    BY FistRows, FistRows2 DEF Row, Shoots
  <2>5. /\ Action(s) = "A_FirePistol" => "fist" = "pistol"
        /\ Action(s) = "A_FireShotgun" => "fist" = "shotgun"
        /\ Action(s) = "A_FireMissile" => "fist" = "missile"
        /\ Action(s) = "A_GunFlash" => "fist" = "missile"
        /\ Action(s) = "A_FirePlasma" => "fist" = "plasma"
        /\ Action(s) = "A_FireCGun" => "fist" = "chaingun" /\ s \in {"S_CHAIN1", "S_CHAIN2"}
    BY FistRows, FistRows2 DEF Row
  <2> QED BY <1>1, <2>1, <2>2, <2>3, <2>4, <2>5, <2>6 DEF Tame
<1> QED BY <1>1, <1>2

LEMMA PistolTame == \A s \in WeaponStates["pistol"] : Tame("pistol", s)
<1> DEFINE S == {"S_PISTOL", "S_PISTOLDOWN", "S_PISTOLUP", "S_PISTOL1", "S_PISTOL2", "S_PISTOL3",
              "S_PISTOL4"}
<1>1. WeaponStates["pistol"] = S
  BY DEF WeaponStates
<1>2. ASSUME NEW s \in S PROVE Tame("pistol", s)
  <2>1. s \in DOMAIN States /\ s # S_NULL /\ s # Stays /\ Next_(s) \in S
    BY PistolRows, PistolRows2 DEF Row, S_NULL, Stays
  <2>2. Raw(s) \in 0 .. 12 /\ (Raw(s) = 0 => Action(s) = "A_ReFire" /\ Next_(s) = "S_PISTOL")
    <3>1. CASE s \in {"S_PISTOL", "S_PISTOLDOWN", "S_PISTOLUP", "S_PISTOL1"}
      BY <3>1, PistolRows DEF Row
    <3>2. CASE s \in {"S_PISTOL2", "S_PISTOL3", "S_PISTOL4"}
      BY <3>2, PistolRows2 DEF Row
    <3> QED BY <3>1, <3>2
  <2>6. Action("S_PISTOL") = "A_WeaponReady"
    BY PistolRows, PistolRows2 DEF Row
  <2>3. (Moving(s) => Next_(s) = s) /\ (~Moving(s) => Action(s) \in Others /\ ~Moving(Next_(s)))
    BY PistolRows, PistolRows2 DEF Row, Moving, Others
  <2>4. (Shoots(Next_(s)) => Action(s) \in {"none", "A_GunFlash"}) /\ ~Shoots(Next_(Next_(s)))
    BY PistolRows, PistolRows2 DEF Row, Shoots
  <2>5. /\ Action(s) = "A_FirePistol" => "pistol" = "pistol"
        /\ Action(s) = "A_FireShotgun" => "pistol" = "shotgun"
        /\ Action(s) = "A_FireMissile" => "pistol" = "missile"
        /\ Action(s) = "A_GunFlash" => "pistol" = "missile"
        /\ Action(s) = "A_FirePlasma" => "pistol" = "plasma"
        /\ Action(s) = "A_FireCGun" => "pistol" = "chaingun" /\ s \in {"S_CHAIN1", "S_CHAIN2"}
    BY PistolRows, PistolRows2 DEF Row
  <2> QED BY <1>1, <2>1, <2>2, <2>3, <2>4, <2>5, <2>6 DEF Tame
<1> QED BY <1>1, <1>2

LEMMA ShotgunTame == \A s \in WeaponStates["shotgun"] : Tame("shotgun", s)
<1> DEFINE S == {"S_SGUN", "S_SGUNDOWN", "S_SGUNUP", "S_SGUN1", "S_SGUN2", "S_SGUN3", "S_SGUN4", "S_SGUN5",
              "S_SGUN6", "S_SGUN7", "S_SGUN8", "S_SGUN9"}
<1>1. WeaponStates["shotgun"] = S
  BY DEF WeaponStates
<1>2. ASSUME NEW s \in S PROVE Tame("shotgun", s)
  <2>1. s \in DOMAIN States /\ s # S_NULL /\ s # Stays /\ Next_(s) \in S
    BY ShotgunRows, ShotgunRows2, ShotgunRows3 DEF Row, S_NULL, Stays
  <2>2. Raw(s) \in 0 .. 12 /\ (Raw(s) = 0 => Action(s) = "A_ReFire" /\ Next_(s) = "S_SGUN")
    <3>1. CASE s \in {"S_SGUN", "S_SGUNDOWN", "S_SGUNUP", "S_SGUN1"}
      BY <3>1, ShotgunRows DEF Row
    <3>2. CASE s \in {"S_SGUN2", "S_SGUN3", "S_SGUN4", "S_SGUN5"}
      BY <3>2, ShotgunRows2 DEF Row
    <3>3. CASE s \in {"S_SGUN6", "S_SGUN7", "S_SGUN8", "S_SGUN9"}
      BY <3>3, ShotgunRows3 DEF Row
    <3> QED BY <3>1, <3>2, <3>3
  <2>6. Action("S_SGUN") = "A_WeaponReady"
    BY ShotgunRows, ShotgunRows2, ShotgunRows3 DEF Row
  <2>3. (Moving(s) => Next_(s) = s) /\ (~Moving(s) => Action(s) \in Others /\ ~Moving(Next_(s)))
    BY ShotgunRows, ShotgunRows2, ShotgunRows3 DEF Row, Moving, Others
  <2>4. (Shoots(Next_(s)) => Action(s) \in {"none", "A_GunFlash"}) /\ ~Shoots(Next_(Next_(s)))
    BY ShotgunRows, ShotgunRows2, ShotgunRows3 DEF Row, Shoots
  <2>5. /\ Action(s) = "A_FirePistol" => "shotgun" = "pistol"
        /\ Action(s) = "A_FireShotgun" => "shotgun" = "shotgun"
        /\ Action(s) = "A_FireMissile" => "shotgun" = "missile"
        /\ Action(s) = "A_GunFlash" => "shotgun" = "missile"
        /\ Action(s) = "A_FirePlasma" => "shotgun" = "plasma"
        /\ Action(s) = "A_FireCGun" => "shotgun" = "chaingun" /\ s \in {"S_CHAIN1", "S_CHAIN2"}
    BY ShotgunRows, ShotgunRows2, ShotgunRows3 DEF Row
  <2> QED BY <1>1, <2>1, <2>2, <2>3, <2>4, <2>5, <2>6 DEF Tame
<1> QED BY <1>1, <1>2

LEMMA ChaingunTame == \A s \in WeaponStates["chaingun"] : Tame("chaingun", s)
<1> DEFINE S == {"S_CHAIN", "S_CHAINDOWN", "S_CHAINUP", "S_CHAIN1", "S_CHAIN2", "S_CHAIN3"}
<1>1. WeaponStates["chaingun"] = S
  BY DEF WeaponStates
<1>2. ASSUME NEW s \in S PROVE Tame("chaingun", s)
  <2>1. s \in DOMAIN States /\ s # S_NULL /\ s # Stays /\ Next_(s) \in S
    BY ChaingunRows, ChaingunRows2 DEF Row, S_NULL, Stays
  <2>2. Raw(s) \in 0 .. 12 /\ (Raw(s) = 0 => Action(s) = "A_ReFire" /\ Next_(s) = "S_CHAIN")
    <3>1. CASE s \in {"S_CHAIN", "S_CHAINDOWN", "S_CHAINUP", "S_CHAIN1"}
      BY <3>1, ChaingunRows DEF Row
    <3>2. CASE s \in {"S_CHAIN2", "S_CHAIN3"}
      BY <3>2, ChaingunRows2 DEF Row
    <3> QED BY <3>1, <3>2
  <2>6. Action("S_CHAIN") = "A_WeaponReady"
    BY ChaingunRows, ChaingunRows2 DEF Row
  <2>3. (Moving(s) => Next_(s) = s) /\ (~Moving(s) => Action(s) \in Others /\ ~Moving(Next_(s)))
    BY ChaingunRows, ChaingunRows2 DEF Row, Moving, Others
  <2>4. (Shoots(Next_(s)) => Action(s) \in {"none", "A_GunFlash"}) /\ ~Shoots(Next_(Next_(s)))
    BY ChaingunRows, ChaingunRows2 DEF Row, Shoots
  <2>5. /\ Action(s) = "A_FirePistol" => "chaingun" = "pistol"
        /\ Action(s) = "A_FireShotgun" => "chaingun" = "shotgun"
        /\ Action(s) = "A_FireMissile" => "chaingun" = "missile"
        /\ Action(s) = "A_GunFlash" => "chaingun" = "missile"
        /\ Action(s) = "A_FirePlasma" => "chaingun" = "plasma"
        /\ Action(s) = "A_FireCGun" => "chaingun" = "chaingun" /\ s \in {"S_CHAIN1", "S_CHAIN2"}
    BY ChaingunRows, ChaingunRows2 DEF Row
  <2> QED BY <1>1, <2>1, <2>2, <2>3, <2>4, <2>5, <2>6 DEF Tame
<1> QED BY <1>1, <1>2

LEMMA MissileTame == \A s \in WeaponStates["missile"] : Tame("missile", s)
<1> DEFINE S == {"S_MISSILE", "S_MISSILEDOWN", "S_MISSILEUP", "S_MISSILE1", "S_MISSILE2", "S_MISSILE3"}
<1>1. WeaponStates["missile"] = S
  BY DEF WeaponStates
<1>2. ASSUME NEW s \in S PROVE Tame("missile", s)
  <2>1. s \in DOMAIN States /\ s # S_NULL /\ s # Stays /\ Next_(s) \in S
    BY MissileRows, MissileRows2 DEF Row, S_NULL, Stays
  <2>2. Raw(s) \in 0 .. 12 /\ (Raw(s) = 0 => Action(s) = "A_ReFire" /\ Next_(s) = "S_MISSILE")
    <3>1. CASE s \in {"S_MISSILE", "S_MISSILEDOWN", "S_MISSILEUP", "S_MISSILE1"}
      BY <3>1, MissileRows DEF Row
    <3>2. CASE s \in {"S_MISSILE2", "S_MISSILE3"}
      BY <3>2, MissileRows2 DEF Row
    <3> QED BY <3>1, <3>2
  <2>6. Action("S_MISSILE") = "A_WeaponReady"
    BY MissileRows, MissileRows2 DEF Row
  <2>3. (Moving(s) => Next_(s) = s) /\ (~Moving(s) => Action(s) \in Others /\ ~Moving(Next_(s)))
    BY MissileRows, MissileRows2 DEF Row, Moving, Others
  <2>4. (Shoots(Next_(s)) => Action(s) \in {"none", "A_GunFlash"}) /\ ~Shoots(Next_(Next_(s)))
    BY MissileRows, MissileRows2 DEF Row, Shoots
  <2>5. /\ Action(s) = "A_FirePistol" => "missile" = "pistol"
        /\ Action(s) = "A_FireShotgun" => "missile" = "shotgun"
        /\ Action(s) = "A_FireMissile" => "missile" = "missile"
        /\ Action(s) = "A_GunFlash" => "missile" = "missile"
        /\ Action(s) = "A_FirePlasma" => "missile" = "plasma"
        /\ Action(s) = "A_FireCGun" => "missile" = "chaingun" /\ s \in {"S_CHAIN1", "S_CHAIN2"}
    BY MissileRows, MissileRows2 DEF Row
  <2> QED BY <1>1, <2>1, <2>2, <2>3, <2>4, <2>5, <2>6 DEF Tame
<1> QED BY <1>1, <1>2

LEMMA PlasmaTame == \A s \in WeaponStates["plasma"] : Tame("plasma", s)
<1> DEFINE S == {"S_PLASMA", "S_PLASMADOWN", "S_PLASMAUP", "S_PLASMA1", "S_PLASMA2", "S_PLASMA2B"}
<1>1. WeaponStates["plasma"] = S
  BY DEF WeaponStates
<1>2. ASSUME NEW s \in S PROVE Tame("plasma", s)
  <2>1. s \in DOMAIN States /\ s # S_NULL /\ s # Stays /\ Next_(s) \in S
    BY PlasmaRows, PlasmaRows2 DEF Row, S_NULL, Stays
  <2>2. Raw(s) \in 0 .. 12 /\ (Raw(s) = 0 => Action(s) = "A_ReFire" /\ Next_(s) = "S_PLASMA")
    <3>1. CASE s \in {"S_PLASMA", "S_PLASMADOWN", "S_PLASMAUP", "S_PLASMA1"}
      BY <3>1, PlasmaRows DEF Row
    <3>2. CASE s \in {"S_PLASMA2", "S_PLASMA2B"}
      BY <3>2, PlasmaRows2 DEF Row
    <3> QED BY <3>1, <3>2
  <2>6. Action("S_PLASMA") = "A_WeaponReady"
    BY PlasmaRows, PlasmaRows2 DEF Row
  <2>3. (Moving(s) => Next_(s) = s) /\ (~Moving(s) => Action(s) \in Others /\ ~Moving(Next_(s)))
    BY PlasmaRows, PlasmaRows2 DEF Row, Moving, Others
  <2>4. (Shoots(Next_(s)) => Action(s) \in {"none", "A_GunFlash"}) /\ ~Shoots(Next_(Next_(s)))
    BY PlasmaRows, PlasmaRows2 DEF Row, Shoots
  <2>5. /\ Action(s) = "A_FirePistol" => "plasma" = "pistol"
        /\ Action(s) = "A_FireShotgun" => "plasma" = "shotgun"
        /\ Action(s) = "A_FireMissile" => "plasma" = "missile"
        /\ Action(s) = "A_GunFlash" => "plasma" = "missile"
        /\ Action(s) = "A_FirePlasma" => "plasma" = "plasma"
        /\ Action(s) = "A_FireCGun" => "plasma" = "chaingun" /\ s \in {"S_CHAIN1", "S_CHAIN2"}
    BY PlasmaRows, PlasmaRows2 DEF Row
  <2> QED BY <1>1, <2>1, <2>2, <2>3, <2>4, <2>5, <2>6 DEF Tame
<1> QED BY <1>1, <1>2

LEMMA ChainsawTame == \A s \in WeaponStates["chainsaw"] : Tame("chainsaw", s)
<1> DEFINE S == {"S_SAW", "S_SAWB", "S_SAWDOWN", "S_SAWUP", "S_SAW1", "S_SAW2", "S_SAW3"}
<1>1. WeaponStates["chainsaw"] = S
  BY DEF WeaponStates
<1>2. ASSUME NEW s \in S PROVE Tame("chainsaw", s)
  <2>1. s \in DOMAIN States /\ s # S_NULL /\ s # Stays /\ Next_(s) \in S
    BY ChainsawRows, ChainsawRows2 DEF Row, S_NULL, Stays
  <2>2. Raw(s) \in 0 .. 12 /\ (Raw(s) = 0 => Action(s) = "A_ReFire" /\ Next_(s) = "S_SAW")
    <3>1. CASE s \in {"S_SAW", "S_SAWB", "S_SAWDOWN", "S_SAWUP"}
      BY <3>1, ChainsawRows DEF Row
    <3>2. CASE s \in {"S_SAW1", "S_SAW2", "S_SAW3"}
      BY <3>2, ChainsawRows2 DEF Row
    <3> QED BY <3>1, <3>2
  <2>6. Action("S_SAW") = "A_WeaponReady"
    BY ChainsawRows, ChainsawRows2 DEF Row
  <2>3. (Moving(s) => Next_(s) = s) /\ (~Moving(s) => Action(s) \in Others /\ ~Moving(Next_(s)))
    BY ChainsawRows, ChainsawRows2 DEF Row, Moving, Others
  <2>4. (Shoots(Next_(s)) => Action(s) \in {"none", "A_GunFlash"}) /\ ~Shoots(Next_(Next_(s)))
    BY ChainsawRows, ChainsawRows2 DEF Row, Shoots
  <2>5. /\ Action(s) = "A_FirePistol" => "chainsaw" = "pistol"
        /\ Action(s) = "A_FireShotgun" => "chainsaw" = "shotgun"
        /\ Action(s) = "A_FireMissile" => "chainsaw" = "missile"
        /\ Action(s) = "A_GunFlash" => "chainsaw" = "missile"
        /\ Action(s) = "A_FirePlasma" => "chainsaw" = "plasma"
        /\ Action(s) = "A_FireCGun" => "chainsaw" = "chaingun" /\ s \in {"S_CHAIN1", "S_CHAIN2"}
    BY ChainsawRows, ChainsawRows2 DEF Row
  <2> QED BY <1>1, <2>1, <2>2, <2>3, <2>4, <2>5, <2>6 DEF Tame
<1> QED BY <1>1, <1>2

LEMMA StatesAreTame ==
  ASSUME NEW g \in Weapon, NEW s \in WeaponStates[g]
  PROVE  Tame(g, s)
BY FistTame, PistolTame, ShotgunTame, ChaingunTame, MissileTame, PlasmaTame, ChainsawTame DEF Weapon

(* The flash's states, each of them left for S_LIGHTDONE, which lasts none. *)
FlashStates == {"S_PISTOLFLASH", "S_SGUNFLASH1", "S_SGUNFLASH2", "S_PLASMAFLASH1", "S_PLASMAFLASH2",
                "S_MISSILEFLASH1", "S_MISSILEFLASH2", "S_MISSILEFLASH3", "S_MISSILEFLASH4",
                "S_CHAINFLASH1", "S_CHAINFLASH2"}

LEMMA FlashesAreTame ==
  ASSUME NEW s \in FlashStates
  PROVE  /\ s \in DOMAIN States /\ s # S_NULL /\ Raw(s) \in 1 .. 12
         /\ Next_(s) \in FlashStates \cup {"S_LIGHTDONE"}
<1>1. s \in DOMAIN States /\ s # S_NULL
  BY FlashRows, MoreFlashRows DEF Row, FlashStates, S_NULL
<1>2. Raw(s) \in 1 .. 12
  <2>1. CASE s \in {"S_PISTOLFLASH", "S_SGUNFLASH1", "S_SGUNFLASH2", "S_PLASMAFLASH1", "S_PLASMAFLASH2"}
    BY <2>1, FlashRows DEF Row
  <2>2. CASE s \in {"S_MISSILEFLASH1", "S_MISSILEFLASH2", "S_MISSILEFLASH3", "S_MISSILEFLASH4",
                    "S_CHAINFLASH1", "S_CHAINFLASH2"}
    BY <2>2, MoreFlashRows DEF Row
  <2> QED BY <2>1, <2>2 DEF FlashStates
<1>3. Next_(s) \in FlashStates \cup {"S_LIGHTDONE"}
  BY FlashRows, MoreFlashRows DEF Row, FlashStates
<1> QED BY <1>1, <1>2, <1>3

LEMMA LightDone == "S_LIGHTDONE" # S_NULL /\ Raw("S_LIGHTDONE") = 0 /\ Next_("S_LIGHTDONE") = S_NULL
BY FlashRows DEF Row, S_NULL

LEMMA TicsAre ==
  ASSUME NEW s, Raw(s) \in 0 .. 12
  PROVE  Tics(s) \in 0 .. 12 /\ (Tics(s) = 0 <=> Raw(s) = 0)
BY PspriteBounds DEF Tics, Raw, Lesser

(* The states a weapon is set to from outside its own chain.               *)
Armed(g) ==
  LET i == WEAPONINFO[g]
  IN  /\ {i.up, i.down, i.ready, i.atk} \subseteq WeaponStates[g]
      /\ Action(i.up) = "A_Raise" /\ Action(i.down) = "A_Lower" /\ Action(i.ready) = "A_WeaponReady"
      /\ Action(i.atk) \in Others \ {"A_WeaponReady", "A_ReFire"}
      /\ g = "pistol" => i.flash = "S_PISTOLFLASH"
      /\ g = "shotgun" => i.flash = "S_SGUNFLASH1"
      /\ g = "missile" => i.flash = "S_MISSILEFLASH1"

LEMMA FistArmed == Armed("fist")
BY FistRows, FistRows2 DEF Armed, Row, WEAPONINFO, Info, WeaponStates, Others

LEMMA PistolArmed == Armed("pistol")
BY PistolRows, PistolRows2 DEF Armed, Row, WEAPONINFO, Info, WeaponStates, Others

LEMMA ShotgunArmed == Armed("shotgun")
BY ShotgunRows, ShotgunRows2, ShotgunRows3 DEF Armed, Row, WEAPONINFO, Info, WeaponStates, Others

LEMMA ChaingunArmed == Armed("chaingun")
BY ChaingunRows, ChaingunRows2 DEF Armed, Row, WEAPONINFO, Info, WeaponStates, Others

LEMMA MissileArmed == Armed("missile")
BY MissileRows, MissileRows2 DEF Armed, Row, WEAPONINFO, Info, WeaponStates, Others

LEMMA PlasmaArmed == Armed("plasma")
BY PlasmaRows, PlasmaRows2 DEF Armed, Row, WEAPONINFO, Info, WeaponStates, Others

LEMMA ChainsawArmed == Armed("chainsaw")
BY ChainsawRows, ChainsawRows2 DEF Armed, Row, WEAPONINFO, Info, WeaponStates, Others

LEMMA WeaponsAreArmed ==
  ASSUME NEW g \in Weapon
  PROVE  Armed(g)
BY FistArmed, PistolArmed, ShotgunArmed, ChaingunArmed, MissileArmed, PlasmaArmed, ChainsawArmed DEF Weapon

(***************************************************************************)
(* What is true of the player's record between any two of its steps.       *)
(***************************************************************************)
Fields == DOMAIN Start

LEMMA FieldsAre ==
  Fields = {"ready", "pending", "owned", "ammo", "backpack", "health", "armor", "armortype", "cards",
            "strength", "ironfeet", "bonuscount", "st", "tics", "sy", "fst", "ftics", "refire",
            "attackdown", "usedown", "used", "dead", "rng", "dc", "attacker", "vdrop", "restart", "items"}
BY DEF Fields, Start

(* What he owns; the rifle, only where the map holds one.                  *)
Owns(w) ==
  /\ w.owned \subseteq Weapon /\ {"fist", "pistol"} \subseteq w.owned /\ ("plasma" \in w.owned => PlasmaMap)
  /\ w.ready \in w.owned /\ w.pending \in w.owned \cup {NOCHANGE}

Mags(w) ==
  w.backpack \in {0, 1} /\ w.ammo \in [Ammo -> Nat] /\ (\A a \in Ammo : w.ammo[a] <= MaxAmmo(w, a))

Flesh(w) ==
  /\ w.health \in Int /\ -255 <= w.health /\ w.health <= 2 * MAXHEALTH
  /\ w.dead \in {0, 1} /\ (w.dead = 1 <=> w.health <= 0)
  /\ w.armor \in 0 .. 2 * ARMOR /\ w.armortype \in 0 .. 2 /\ (w.armortype = 0 <=> w.armor = 0)
  /\ w.restart \in {0, 1} /\ (w.restart = 1 => w.dead = 1)

Counts(w) ==
  /\ w.cards \subseteq CardThing /\ w.items \subseteq Items
  /\ w.strength \in 0 .. STRENGTH_CAP /\ w.ironfeet \in 0 .. IRONTICS /\ w.bonuscount \in 0 .. BONUS_CAP
  /\ w.dc \in 0 .. DC_CAP /\ w.vdrop \in 0 .. VIEW_DROP_MAX
  /\ w.usedown \in {0, 1} /\ w.used \in {0, 1}

Trigger(w) == w.refire \in 0 .. REFIRE_CAP /\ w.attackdown \in {0, 1} /\ w.rng \in 0 .. RNG - 1

Glow(w) == \/ w.fst = S_NULL /\ w.ftics = 0
           \/ w.fst \in FlashStates /\ w.ftics \in 1 .. 15

Good(w) == /\ DOMAIN w = Fields
           /\ Owns(w) /\ Mags(w) /\ Flesh(w) /\ Counts(w) /\ Trigger(w) /\ Glow(w)

(* The weapon's steps leave alone all but these.                           *)
Kept == Fields \ {"st", "tics", "sy", "fst", "ftics", "pending", "ready", "ammo", "rng", "refire", "attackdown"}
Untouched(w, v) == DOMAIN v = DOMAIN w /\ (\A x \in Kept : v[x] = w[x])

LEMMA UntouchedKeeps ==
  ASSUME NEW w, NEW v, Good(w), Untouched(w, v), Owns(v), v.ammo \in [Ammo -> Nat],
         \A a \in Ammo : v.ammo[a] <= w.ammo[a], Trigger(v), Glow(v)
  PROVE  Good(v) /\ v.dead = w.dead /\ v.health = w.health /\ v.owned = w.owned
<1>1. v.dead = w.dead /\ v.health = w.health /\ v.armor = w.armor /\ v.armortype = w.armortype /\ v.restart = w.restart
      /\ v.owned = w.owned
  BY FieldsAre DEF Untouched, Kept
<1>2. v.cards = w.cards /\ v.items = w.items /\ v.strength = w.strength /\ v.ironfeet = w.ironfeet
      /\ v.bonuscount = w.bonuscount /\ v.dc = w.dc /\ v.vdrop = w.vdrop /\ v.usedown = w.usedown /\ v.used = w.used
      /\ v.backpack = w.backpack
  BY FieldsAre DEF Untouched, Kept
<1>3. Flesh(v)
  BY <1>1 DEF Good, Flesh
<1>4. Counts(v)
  BY <1>2 DEF Good, Counts
<1>5. Mags(v)
  <2>1. ASSUME NEW a \in Ammo PROVE v.ammo[a] <= MaxAmmo(v, a)
    <3>1. MaxAmmo(v, a) = MaxAmmo(w, a)
      BY <1>2 DEF MaxAmmo
    <3>2. w.ammo[a] <= MaxAmmo(w, a) /\ w.ammo[a] \in Nat /\ v.ammo[a] \in Nat
      BY DEF Good, Mags
    <3>3. MaxAmmo(w, a) \in Nat
      BY InventoryBounds DEF MaxAmmo, Good, Mags
    <3> QED BY <3>1, <3>2, <3>3
  <2> QED BY <1>2, <2>1 DEF Good, Mags
<1> QED BY <1>1, <1>3, <1>4, <1>5 DEF Good, Untouched

(* The emitted cells beside the model's record, with p on the screen.      *)
Same(f, w, p) ==
  /\ DOMAIN f = Fields \cup {"palcur"} /\ f.palcur = p
  /\ \A x \in Fields : f[x] = IF x = "health" THEN w.health % 4096 ELSE w[x]

LEMMA SetFlashIs ==
  ASSUME NEW w, DOMAIN w = Fields, NEW s \in FlashStates \cup {"S_LIGHTDONE"}
  PROVE  Untouched(w, SetFlash(w, s)) /\ Glow(SetFlash(w, s))
         /\ (\A x \in Fields \ {"fst", "ftics"} : SetFlash(w, s)[x] = w[x])
<1>1. CASE s \in FlashStates
  <2>0. s # S_NULL /\ Tics(s) \in 1 .. 12
    BY <1>1, FlashesAreTame, TicsAre
  <2>1. s # S_NULL /\ Tics(s) # 0
    BY <2>0
  <2>2. SetFlash(w, s) = [w EXCEPT !.fst = s, !.ftics = Tics(s)]
    BY <2>1 DEF SetFlash, Lit
  <2>3. SetFlash(w, s).fst = s /\ SetFlash(w, s).ftics = Tics(s)
    BY <2>2, FieldsAre
  <2>4. Glow(SetFlash(w, s))
    BY <1>1, <2>0, <2>3 DEF Glow
  <2>5. \A x \in Fields \ {"fst", "ftics"} : SetFlash(w, s)[x] = w[x]
    BY <2>2
  <2>6. DOMAIN SetFlash(w, s) = DOMAIN w
    BY <2>2
  <2> QED BY <2>4, <2>5, <2>6 DEF Untouched, Kept
<1>2. CASE s = "S_LIGHTDONE"
  <2>1. s # S_NULL /\ Tics(s) = 0 /\ Next_(s) = S_NULL
    BY <1>2, LightDone, TicsAre
  <2>2. SetFlash(w, s) = [w EXCEPT !.fst = S_NULL, !.ftics = 0]
    BY <2>1 DEF SetFlash, Lit
  <2> QED BY <2>2, FieldsAre DEF Untouched, Kept, Glow
<1> QED BY <1>1, <1>2

LEMMA FenIsSetFlash ==
  ASSUME NEW w, NEW f, NEW p, DOMAIN w = Fields, Same(f, w, p), NEW s \in FlashStates \cup {"S_LIGHTDONE"}
  PROVE  Same(Fen(f, s), SetFlash(w, s), p)
<1>1. CASE s \in FlashStates
  <2>0. s # S_NULL /\ Tics(s) \in 1 .. 12
    BY <1>1, FlashesAreTame, TicsAre
  <2>1. s # S_NULL /\ Tics(s) # 0
    BY <2>0
  <2>2. SetFlash(w, s) = [w EXCEPT !.fst = s, !.ftics = Tics(s)]
    BY <2>1 DEF SetFlash, Lit
  <2>3. Fen(f, s) = [f EXCEPT !.fst = s, !.ftics = Tics(s)]
    BY <2>1 DEF Fen, FenBlock
  <2> QED BY <2>2, <2>3, FieldsAre DEF Same
<1>2. CASE s = "S_LIGHTDONE"
  <2>1. s # S_NULL /\ Tics(s) = 0 /\ Next_(s) = S_NULL
    BY <1>2, LightDone, TicsAre
  <2>2. SetFlash(w, s) = [w EXCEPT !.fst = S_NULL, !.ftics = 0]
    BY <2>1 DEF SetFlash, Lit
  <2>3. Fen(f, s) = [[f EXCEPT !.fst = s, !.ftics = Tics(s)] EXCEPT !.fst = S_NULL, !.ftics = 0]
    BY <2>1 DEF Fen, FenBlock
  <2> QED BY <2>2, <2>3, FieldsAre DEF Same
<1> QED BY <1>1, <1>2

(***************************************************************************)
(* The weapon in a state, and on its way into one.                         *)
(***************************************************************************)
(* What a state says of the player: whose it is, where the weapon is held, *)
(* that the dead man's goes down, and that the next state has its round.   *)
Pose(w, s) ==
  /\ s \in WeaponStates[w.ready] /\ w.sy \in WEAPONTOP .. WEAPONBOTTOM
  /\ ~Moving(s) => w.sy = WEAPONTOP
  /\ Action(s) = "A_Raise" => w.sy > WEAPONTOP
  /\ Action(s) = "A_Lower" /\ w.dead = 0 => w.pending # NOCHANGE
  /\ w.dead = 1 => Action(s) = "A_Lower"
  /\ Shoots(Next_(s)) => EnoughAmmo(w)

Enter(w, s) == Pose(w, s) /\ (Shoots(s) => EnoughAmmo(w))
At(w)       == Pose(w, w.st) /\ w.tics \in 1 .. 15

(* The dead man's weapon sinks, and fires nothing.                         *)
Follows(w, v) == /\ Untouched(w, v)
                 /\ w.dead = 1 => v.ammo = w.ammo /\ v.sy \in Int /\ w.sy \in Int /\ v.sy >= w.sy

LEMMA UntouchedIsTransitive ==
  ASSUME NEW u, NEW v, NEW w, Untouched(u, v), Untouched(v, w)
  PROVE  Untouched(u, w)
BY DEF Untouched

LEMMA UntouchedLeaves ==
  ASSUME NEW w, NEW v, Untouched(w, v)
  PROVE  /\ v.dead = w.dead /\ v.health = w.health /\ v.owned = w.owned /\ v.backpack = w.backpack
         /\ v.used = w.used /\ v.usedown = w.usedown /\ v.restart = w.restart /\ v.strength = w.strength
         /\ v.armor = w.armor /\ v.armortype = w.armortype /\ v.dc = w.dc /\ v.ironfeet = w.ironfeet
         /\ v.bonuscount = w.bonuscount /\ v.attacker = w.attacker /\ v.vdrop = w.vdrop
BY FieldsAre DEF Untouched, Kept

LEMMA FollowsIsTransitive ==
  ASSUME NEW u, NEW v, NEW w, Follows(u, v), Follows(v, w)
  PROVE  Follows(u, w)
<1>1. Untouched(u, w)
  BY UntouchedIsTransitive DEF Follows
<1>2. v.dead = u.dead
  BY UntouchedLeaves DEF Follows
<1> QED BY <1>1, <1>2 DEF Follows

LEMMA ReadyIsAWeapon ==
  ASSUME NEW w, Owns(w)
  PROVE  /\ w.ready \in Weapon /\ (w.pending # NOCHANGE => w.pending \in Weapon /\ w.pending \in w.owned)
         /\ Armed(w.ready) /\ (w.pending # NOCHANGE => Armed(w.pending))
<1>1. w.ready \in Weapon /\ (w.pending # NOCHANGE => w.pending \in Weapon /\ w.pending \in w.owned)
  BY DEF Owns
<1> QED BY <1>1, WeaponsAreArmed

LEMMA NextIsEntered ==
  ASSUME NEW w, Good(w), At(w)
  PROVE  Enter(w, Next_(w.st))
<1>1. w.st \in WeaponStates[w.ready] /\ Tame(w.ready, w.st)
  BY ReadyIsAWeapon, StatesAreTame DEF At, Pose, Good
<1>2. CASE Moving(w.st)
  <2>1. Next_(w.st) = w.st /\ ~Shoots(w.st)
    BY <1>1, <1>2 DEF Tame, Moving, Shoots
  <2> QED BY <2>1 DEF At, Enter
<1>3. CASE ~Moving(w.st)
  <2>1. ~Moving(Next_(w.st)) /\ ~Shoots(Next_(Next_(w.st))) /\ Next_(w.st) \in WeaponStates[w.ready]
    BY <1>1, <1>3 DEF Tame
  <2>2. w.dead # 1
    BY <1>3 DEF At, Pose, Moving
  <2> QED BY <1>3, <2>1, <2>2 DEF At, Pose, Enter, Moving
<1> QED BY <1>2, <1>3

(* The player with the weapon's psprite set to a state.                    *)
Placed(w, s) == [w EXCEPT !.st = s, !.tics = Tics(s)]

LEMMA PlacedIs ==
  ASSUME NEW w, Good(w), NEW s, Enter(w, s)
  PROVE  /\ Good(Placed(w, s)) /\ Follows(w, Placed(w, s)) /\ Enter(Placed(w, s), s)
         /\ Placed(w, s).st = s /\ Placed(w, s).tics = Tics(s) /\ Placed(w, s).ready = w.ready
         /\ Placed(w, s).pending = w.pending /\ Placed(w, s).sy = w.sy /\ Placed(w, s).ammo = w.ammo
         /\ Placed(w, s).dead = w.dead /\ Placed(w, s).health = w.health
<1> DEFINE v == Placed(w, s)
<1>1. DOMAIN v = DOMAIN w /\ v.st = s /\ v.tics = Tics(s)
  BY FieldsAre DEF Placed, Good
<1>2. \A x \in Fields \ {"st", "tics"} : v[x] = w[x]
  BY DEF Placed, Good
<1> HIDE DEF v
<1>3. v.ready = w.ready /\ v.pending = w.pending /\ v.sy = w.sy /\ v.ammo = w.ammo /\ v.owned = w.owned
      /\ v.dead = w.dead /\ v.health = w.health
  BY <1>2, FieldsAre
<1>4. v.refire = w.refire /\ v.attackdown = w.attackdown /\ v.rng = w.rng /\ v.fst = w.fst /\ v.ftics = w.ftics
  BY <1>2, FieldsAre
<1>5. Untouched(w, v)
  BY <1>1, <1>2 DEF Untouched, Kept
<1>6. Owns(v) /\ Trigger(v) /\ Glow(v)
  BY <1>3, <1>4 DEF Good, Owns, Trigger, Glow
<1>7. \A a \in Ammo : v.ammo[a] <= w.ammo[a]
  BY <1>3 DEF Good, Mags
<1>8. Good(v)
  BY <1>3, <1>5, <1>6, <1>7, UntouchedKeeps DEF Good, Mags
<1>9. Enter(v, s)
  BY <1>3 DEF Enter, Pose, EnoughAmmo
<1>10. Follows(w, v)
  BY <1>3, <1>5, PspriteBounds DEF Follows, Enter, Pose
<1> QED BY <1>1, <1>3, <1>8, <1>9, <1>10 DEF v

(***************************************************************************)
(* The actions that set no state.                                          *)
(***************************************************************************)
(* u is v with a round spent at most, a number drawn or a flash lit.       *)
Plain(v, u) ==
  /\ Untouched(v, u) /\ u.st = v.st /\ u.tics = v.tics /\ u.sy = v.sy /\ u.ready = v.ready
  /\ u.pending = v.pending /\ u.refire = v.refire /\ u.attackdown = v.attackdown
  /\ u.ammo \in [Ammo -> Nat] /\ (\A a \in Ammo : u.ammo[a] <= v.ammo[a])
  /\ u.rng \in 0 .. RNG - 1 /\ Glow(u)

LEMMA PlainIsGood ==
  ASSUME NEW v, NEW u, Good(v), Plain(v, u)
  PROVE  Good(u)
<1>1. u.owned = v.owned
  BY UntouchedLeaves DEF Plain
<1>2. Owns(u) /\ Trigger(u)
  BY <1>1 DEF Plain, Good, Owns, Trigger
<1> QED BY <1>2, UntouchedKeeps DEF Plain

LEMMA PlainIsTransitive ==
  ASSUME NEW t, NEW u, NEW v, v.ammo \in [Ammo -> Nat], Plain(v, u), Plain(u, t)
  PROVE  Plain(v, t)
<1>1. \A a \in Ammo : t.ammo[a] <= v.ammo[a]
  BY DEF Plain
<1> QED BY <1>1, UntouchedIsTransitive DEF Plain

LEMMA ModIs ==
  ASSUME NEW n \in Int, NEW m \in Nat \ {0}
  PROVE  n % m \in 0 .. m - 1
OBVIOUS

LEMMA DrawIs ==
  ASSUME NEW v, Good(v), NEW n \in Nat
  PROVE  Plain(v, Draw(v, n)) /\ Draw(v, n).ammo = v.ammo
<1> DEFINE u == Draw(v, n)
           k == (v.rng + n) % RNG
<1>1. k \in 0 .. RNG - 1
  <2>1. v.rng + n \in Int /\ RNG \in Nat \ {0}
    BY PspriteBounds DEF Good, Trigger
  <2> QED BY <2>1, ModIs
<1>2. u = [v EXCEPT !.rng = k]
  BY DEF Draw
<1> HIDE DEF u, k
<1>3. DOMAIN u = DOMAIN v /\ u.rng = k /\ (\A x \in Fields \ {"rng"} : u[x] = v[x])
  BY <1>2, FieldsAre DEF Good
<1>4. u.st = v.st /\ u.tics = v.tics /\ u.sy = v.sy /\ u.ready = v.ready /\ u.pending = v.pending
      /\ u.refire = v.refire /\ u.attackdown = v.attackdown /\ u.ammo = v.ammo /\ u.fst = v.fst /\ u.ftics = v.ftics
  BY <1>3, FieldsAre
<1>5. Untouched(v, u)
  BY <1>3 DEF Untouched, Kept
<1>6. Glow(u)
  BY <1>4 DEF Good, Glow
<1>7. u.ammo \in [Ammo -> Nat] /\ (\A a \in Ammo : u.ammo[a] <= v.ammo[a])
  BY <1>4 DEF Good, Mags
<1> QED BY <1>1, <1>3, <1>4, <1>5, <1>6, <1>7 DEF Plain, u

LEMMA LitIsPlain ==
  ASSUME NEW v, Good(v), NEW s \in FlashStates \cup {"S_LIGHTDONE"}
  PROVE  Plain(v, SetFlash(v, s)) /\ SetFlash(v, s).ammo = v.ammo /\ SetFlash(v, s).rng = v.rng
<1> DEFINE u == SetFlash(v, s)
<1>1. Untouched(v, u) /\ Glow(u) /\ (\A x \in Fields \ {"fst", "ftics"} : u[x] = v[x])
  BY SetFlashIs DEF Good
<1> HIDE DEF u
<1>4. u.st = v.st /\ u.tics = v.tics /\ u.sy = v.sy /\ u.ready = v.ready /\ u.pending = v.pending
      /\ u.refire = v.refire /\ u.attackdown = v.attackdown /\ u.ammo = v.ammo /\ u.rng = v.rng
  BY <1>1, FieldsAre
<1>7. u.ammo \in [Ammo -> Nat] /\ (\A a \in Ammo : u.ammo[a] <= v.ammo[a]) /\ u.rng \in 0 .. RNG - 1
  BY <1>4 DEF Good, Mags, Trigger
<1> QED BY <1>1, <1>4, <1>7 DEF Plain, u

(* v less a round.                                                         *)
Less(v, a) == [v EXCEPT !.ammo[a] = @ - 1]

LEMMA LessIsPlain ==
  ASSUME NEW v, Good(v), NEW a \in Ammo, v.ammo[a] >= 1
  PROVE  Plain(v, Less(v, a)) /\ Less(v, a).rng = v.rng /\ Less(v, a).ammo = [v.ammo EXCEPT ![a] = @ - 1]
<1> DEFINE u == Less(v, a)
           m == [v.ammo EXCEPT ![a] = @ - 1]
<1>1. m \in [Ammo -> Nat] /\ (\A b \in Ammo : m[b] <= v.ammo[b])
  BY DEF Good, Mags
<1>2. u = [v EXCEPT !.ammo = m]
  BY DEF Less
<1> HIDE DEF u, m
<1>3. DOMAIN u = DOMAIN v /\ u.ammo = m /\ (\A x \in Fields \ {"ammo"} : u[x] = v[x])
  BY <1>2, FieldsAre DEF Good
<1>4. u.st = v.st /\ u.tics = v.tics /\ u.sy = v.sy /\ u.ready = v.ready /\ u.pending = v.pending
      /\ u.refire = v.refire /\ u.attackdown = v.attackdown /\ u.rng = v.rng /\ u.fst = v.fst /\ u.ftics = v.ftics
  BY <1>3, FieldsAre
<1>5. Untouched(v, u)
  BY <1>3 DEF Untouched, Kept
<1>6. Glow(u) /\ u.rng \in 0 .. RNG - 1
  BY <1>4 DEF Good, Glow, Trigger
<1>7. u.ammo = [v.ammo EXCEPT ![a] = @ - 1]
  BY <1>3 DEF m
<1> QED BY <1>1, <1>3, <1>4, <1>5, <1>6, <1>7 DEF Plain, u

LEMMA MagazineOf ==
  ASSUME NEW v, Good(v), EnoughAmmo(v), AmmoOf[v.ready] # "none"
  PROVE  AmmoOf[v.ready] \in Ammo /\ v.ammo[AmmoOf[v.ready]] >= 1 /\ Spent(v) = Less(v, AmmoOf[v.ready])
<1>1. v.ready \in Weapon
  BY DEF Good, Owns
<1>2. AmmoOf[v.ready] \in Ammo
  BY <1>1 DEF Weapon, AmmoOf, Ammo
<1> QED BY <1>2 DEF EnoughAmmo, Spent, Less

(***************************************************************************)
(* The emitted cells in step with them.                                    *)
(***************************************************************************)
LEMMA SameReads ==
  ASSUME NEW f, NEW w, NEW p, Same(f, w, p)
  PROVE  /\ f.ready = w.ready /\ f.pending = w.pending /\ f.owned = w.owned /\ f.ammo = w.ammo
         /\ f.backpack = w.backpack /\ f.armor = w.armor /\ f.armortype = w.armortype /\ f.cards = w.cards
         /\ f.strength = w.strength /\ f.ironfeet = w.ironfeet /\ f.bonuscount = w.bonuscount
         /\ f.st = w.st /\ f.tics = w.tics /\ f.sy = w.sy /\ f.fst = w.fst /\ f.ftics = w.ftics
         /\ f.refire = w.refire /\ f.attackdown = w.attackdown /\ f.usedown = w.usedown /\ f.used = w.used
         /\ f.dead = w.dead /\ f.rng = w.rng /\ f.dc = w.dc /\ f.attacker = w.attacker /\ f.vdrop = w.vdrop
         /\ f.restart = w.restart /\ f.items = w.items /\ f.palcur = p /\ f.health = w.health % 4096
BY FieldsAre DEF Same

(* There are such cells beside every record.                               *)
LEMMA SameExists ==
  ASSUME NEW w
  PROVE  \E f : Same(f, w, 0)
<1> DEFINE f == [x \in Fields \cup {"palcur"} |->
                  IF x = "palcur" THEN 0 ELSE IF x = "health" THEN w.health % 4096 ELSE w[x]]
<1>1. \A x \in Fields : x # "palcur"
  BY FieldsAre
<1>2. Same(f, w, 0)
  BY <1>1 DEF Same
<1> QED BY <1>2

LEMMA DrawAlike ==
  ASSUME NEW f, NEW w, NEW p, Good(w), Same(f, w, p), NEW n \in Nat
  PROVE  Same(Draw(f, n), Draw(w, n), p)
<1>1. f.rng = w.rng
  BY SameReads
<1> DEFINE k == (w.rng + n) % RNG
<1>2. Draw(w, n) = [w EXCEPT !.rng = k] /\ Draw(f, n) = [f EXCEPT !.rng = k]
  BY <1>1 DEF Draw
<1> HIDE DEF k
<1> QED BY <1>2, FieldsAre DEF Same, Good

LEMMA TookIsLess ==
  ASSUME NEW f, NEW w, NEW p, Good(w), Same(f, w, p), NEW a \in Ammo, w.ammo[a] >= 1
  PROVE  Same(Took(f, a), Less(w, a), p)
<1>1. f.ammo = w.ammo
  BY SameReads
<1>2. w.ammo[a] \in Nat /\ w.ammo[a] < 4096
  <2>1. w.ammo[a] \in Nat /\ w.ammo[a] <= MaxAmmo(w, a) /\ w.backpack \in {0, 1}
    BY DEF Good, Mags
  <2>2. MAXAMMO[a] \in Nat /\ CLIPAMMO[a] \in Nat /\ 2 * MAXAMMO[a] + 5 * CLIPAMMO[a] < 4096
    BY InventoryBounds
  <2> QED BY <2>1, <2>2 DEF MaxAmmo
<1>3. (w.ammo[a] - 1) % 4096 = w.ammo[a] - 1
  BY <1>2
<1> DEFINE m == [w.ammo EXCEPT ![a] = @ - 1]
<1>4. Less(w, a) = [w EXCEPT !.ammo = m] /\ Took(f, a) = [f EXCEPT !.ammo = m]
  BY <1>1, <1>3 DEF Less, Took
<1> HIDE DEF m
<1> QED BY <1>4, FieldsAre DEF Same, Good

LEMMA PlacedAlike ==
  ASSUME NEW f, NEW w, NEW p, Good(w), Same(f, w, p), NEW s
  PROVE  Same([f EXCEPT !.st = s, !.tics = Tics(s)], Placed(w, s), p)
<1> DEFINE t == Tics(s)
<1>1. Placed(w, s) = [w EXCEPT !.st = s, !.tics = t]
  BY DEF Placed
<1> HIDE DEF t
<1>2. Same([f EXCEPT !.st = s, !.tics = t], Placed(w, s), p)
  BY <1>1, FieldsAre DEF Same, Good
<1> QED BY <1>2 DEF t

(* An action that sets no state, in both.                                  *)
PlainTurn(v, f, p, s, fire) ==
  \E u, g : /\ PspAction(v, Action(s), fire) = Stay(u) /\ EmittedAction(f, s, fire) = Fall(g)
            /\ Plain(v, u) /\ Good(u) /\ Same(g, u, p)
            /\ ~Shoots(s) /\ Action(s) # "A_FireCGun" => u.ammo = v.ammo

LEMMA ShotIsPlain ==
  ASSUME NEW v, NEW f, NEW p, Good(v), Same(f, v, p), NEW a \in Ammo, v.ammo[a] >= 1,
         NEW fl \in FlashStates
  PROVE  LET lit == SetFlash(Less(v, a), fl)
             mate == Fen(Took(f, a), fl)
         IN  Plain(v, lit) /\ Good(lit) /\ Same(mate, lit, p)
<1> DEFINE l == Less(v, a)
           lit == SetFlash(l, fl)
<1>1. Plain(v, l) /\ Good(l) /\ Same(Took(f, a), l, p)
  BY LessIsPlain, PlainIsGood, TookIsLess
<1> HIDE DEF l
<1>2. Plain(l, lit) /\ Good(lit)
  BY <1>1, LitIsPlain, PlainIsGood
<1>3. Same(Fen(Took(f, a), fl), lit, p)
  BY <1>1, FenIsSetFlash DEF Good
<1> HIDE DEF lit
<1>4. Plain(v, lit)
  BY <1>1, <1>2, PlainIsTransitive DEF Good, Mags
<1> QED BY <1>2, <1>3, <1>4 DEF l, lit

LEMMA ShotAndRollIsPlain ==
  ASSUME NEW v, NEW g, NEW u, NEW p, Good(v), Good(u), Plain(v, u), Same(g, u, p), NEW n \in Nat
  PROVE  Plain(v, Draw(u, n)) /\ Good(Draw(u, n)) /\ Same(Draw(g, n), Draw(u, n), p)
<1>1. Plain(u, Draw(u, n)) /\ Good(Draw(u, n)) /\ Same(Draw(g, n), Draw(u, n), p)
  BY DrawIs, PlainIsGood, DrawAlike
<1> QED BY <1>1, PlainIsTransitive DEF Good, Mags

LEMMA PlainItself ==
  ASSUME NEW v, Good(v)
  PROVE  Plain(v, v)
<1>1. v.ammo \in [Ammo -> Nat] /\ (\A a \in Ammo : v.ammo[a] <= v.ammo[a])
  BY DEF Good, Mags
<1> QED BY <1>1 DEF Good, Plain, Untouched, Trigger

LEMMA PistolTurn ==
  ASSUME NEW v, NEW f, NEW p, NEW s, NEW fire, Good(v), Same(f, v, p), Enter(v, s), Action(s) = "A_FirePistol"
  PROVE  PlainTurn(v, f, p, s, fire)
<1>1. v.ready = "pistol" /\ Shoots(s) /\ EnoughAmmo(v)
  BY ReadyIsAWeapon, StatesAreTame DEF Good, Enter, Pose, Tame, Shoots
<1>2. WEAPONINFO[v.ready].flash = "S_PISTOLFLASH" /\ "S_PISTOLFLASH" \in FlashStates
  BY <1>1, PistolArmed DEF Armed, FlashStates
<1>3. "clip" \in Ammo /\ v.ammo["clip"] >= 1 /\ Spent(v) = Less(v, "clip")
  BY <1>1, MagazineOf DEF AmmoOf
<1> DEFINE lit == SetFlash(Less(v, "clip"), "S_PISTOLFLASH")
           mate == Fen(Took(f, "clip"), "S_PISTOLFLASH")
<1>4. Plain(v, lit) /\ Good(lit) /\ Same(mate, lit, p)
  BY <1>2, <1>3, ShotIsPlain
<1>5. /\ PspAction(v, Action(s), fire) = Stay(GunShot(lit))
      /\ EmittedAction(f, s, fire) = Fall(GunShot(mate))
  BY <1>2, <1>3 DEF PspAction, EmittedAction
<1> HIDE DEF lit, mate
<1>6. mate.refire = lit.refire
  BY <1>4, SameReads
<1>7. Plain(v, GunShot(lit)) /\ Good(GunShot(lit)) /\ Same(GunShot(mate), GunShot(lit), p)
  BY <1>4, <1>6, ShotAndRollIsPlain DEF GunShot
<1> QED BY <1>1, <1>5, <1>7 DEF PlainTurn

LEMMA ShotgunTurn ==
  ASSUME NEW v, NEW f, NEW p, NEW s, NEW fire, Good(v), Same(f, v, p), Enter(v, s), Action(s) = "A_FireShotgun"
  PROVE  PlainTurn(v, f, p, s, fire)
<1>1. v.ready = "shotgun" /\ Shoots(s) /\ EnoughAmmo(v)
  BY ReadyIsAWeapon, StatesAreTame DEF Good, Enter, Pose, Tame, Shoots
<1>2. WEAPONINFO[v.ready].flash = "S_SGUNFLASH1" /\ "S_SGUNFLASH1" \in FlashStates
  BY <1>1, ShotgunArmed DEF Armed, FlashStates
<1>3. "shell" \in Ammo /\ v.ammo["shell"] >= 1 /\ Spent(v) = Less(v, "shell")
  BY <1>1, MagazineOf DEF AmmoOf
<1> DEFINE lit == SetFlash(Less(v, "shell"), "S_SGUNFLASH1")
           mate == Fen(Took(f, "shell"), "S_SGUNFLASH1")
<1>4. Plain(v, lit) /\ Good(lit) /\ Same(mate, lit, p)
  BY <1>2, <1>3, ShotIsPlain
<1>5. /\ PspAction(v, Action(s), fire) = Stay(Draw(lit, 21))
      /\ EmittedAction(f, s, fire) = Fall(Draw(mate, 21))
  BY <1>2, <1>3 DEF PspAction, EmittedAction
<1> HIDE DEF lit, mate
<1>7. Plain(v, Draw(lit, 21)) /\ Good(Draw(lit, 21)) /\ Same(Draw(mate, 21), Draw(lit, 21), p)
  BY <1>4, ShotAndRollIsPlain
<1> QED BY <1>1, <1>5, <1>7 DEF PlainTurn

LEMMA MissileTurn ==
  ASSUME NEW v, NEW f, NEW p, NEW s, NEW fire, Good(v), Same(f, v, p), Enter(v, s), Action(s) = "A_FireMissile"
  PROVE  PlainTurn(v, f, p, s, fire)
<1>1. v.ready = "missile" /\ Shoots(s) /\ EnoughAmmo(v)
  BY ReadyIsAWeapon, StatesAreTame DEF Good, Enter, Pose, Tame, Shoots
<1>3. "misl" \in Ammo /\ v.ammo["misl"] >= 1 /\ Spent(v) = Less(v, "misl")
  BY <1>1, MagazineOf DEF AmmoOf
<1>4. Plain(v, Less(v, "misl")) /\ Good(Less(v, "misl")) /\ Same(Took(f, "misl"), Less(v, "misl"), p)
  BY <1>3, LessIsPlain, PlainIsGood, TookIsLess
<1>5. /\ PspAction(v, Action(s), fire) = Stay(Less(v, "misl"))
      /\ EmittedAction(f, s, fire) = Fall(Took(f, "misl"))
  BY <1>3 DEF PspAction, EmittedAction
<1> QED BY <1>1, <1>4, <1>5 DEF PlainTurn

LEMMA PlasmaTurn ==
  ASSUME NEW v, NEW f, NEW p, NEW s, NEW fire, Good(v), Same(f, v, p), Enter(v, s), Action(s) = "A_FirePlasma"
  PROVE  PlainTurn(v, f, p, s, fire)
<1>1. v.ready = "plasma" /\ Shoots(s) /\ EnoughAmmo(v)
  BY ReadyIsAWeapon, StatesAreTame DEF Good, Enter, Pose, Tame, Shoots
<1>3. "cell" \in Ammo /\ v.ammo["cell"] >= 1 /\ Spent(v) = Less(v, "cell")
  BY <1>1, MagazineOf DEF AmmoOf
<1>4. Plain(v, Less(v, "cell")) /\ Good(Less(v, "cell")) /\ Same(Took(f, "cell"), Less(v, "cell"), p)
  BY <1>3, LessIsPlain, PlainIsGood, TookIsLess
<1> DEFINE roll == Draw(Less(v, "cell"), 1)
           mate == Draw(Took(f, "cell"), 1)
           lit  == SetFlash(roll, PlasmaFlash(roll))
<1>5. Plain(v, roll) /\ Good(roll) /\ Same(mate, roll, p)
  BY <1>4, ShotAndRollIsPlain
<1>6. /\ PspAction(v, Action(s), fire) = Stay(lit)
      /\ EmittedAction(f, s, fire) = Fall(Fen(mate, PlasmaFlash(mate)))
  BY <1>3 DEF PspAction, EmittedAction, FirePlasma
<1> HIDE DEF roll, mate
<1>7. PlasmaFlash(mate) = PlasmaFlash(roll) /\ PlasmaFlash(roll) \in FlashStates
  <2>1. mate.rng = roll.rng
    BY <1>5, SameReads
  <2> QED BY <2>1 DEF PlasmaFlash, FlashStates
<1>8. Plain(roll, lit) /\ Good(lit) /\ Same(Fen(mate, PlasmaFlash(roll)), lit, p)
  BY <1>5, <1>7, LitIsPlain, PlainIsGood, FenIsSetFlash DEF Good
<1> HIDE DEF lit
<1>9. Plain(v, lit)
  BY <1>5, <1>8, PlainIsTransitive DEF Good, Mags
<1> QED BY <1>1, <1>6, <1>7, <1>8, <1>9 DEF PlainTurn

LEMMA ChaingunTurn ==
  ASSUME NEW v, NEW f, NEW p, NEW s, NEW fire, Good(v), Same(f, v, p), Enter(v, s), v.st = s,
         Action(s) = "A_FireCGun"
  PROVE  PlainTurn(v, f, p, s, fire)
<1>1. v.ready = "chaingun" /\ s \in {"S_CHAIN1", "S_CHAIN2"}
  BY ReadyIsAWeapon, StatesAreTame DEF Good, Enter, Pose, Tame
<1>2. CgunFlash[s] \in FlashStates
  BY <1>1 DEF CgunFlash, FlashStates
<1>3. f.ammo = v.ammo /\ "clip" \in Ammo /\ v.ammo["clip"] \in Nat
  BY SameReads DEF Good, Mags, Ammo
<1>4. CASE v.ammo["clip"] = 0
  <2>1. PspAction(v, Action(s), fire) = Stay(v) /\ EmittedAction(f, s, fire) = Fall(f)
    BY <1>3, <1>4 DEF PspAction, EmittedAction, FireCGun
  <2> QED BY <2>1, PlainItself DEF PlainTurn
<1>5. CASE v.ammo["clip"] # 0
  <2> DEFINE lit == SetFlash(Less(v, "clip"), CgunFlash[s])
             mate == Fen(Took(f, "clip"), CgunFlash[s])
  <2>0. v.ammo["clip"] >= 1
    BY <1>3, <1>5
  <2>1. Plain(v, lit) /\ Good(lit) /\ Same(mate, lit, p)
    BY <1>2, <1>3, <2>0, ShotIsPlain
  <2>2. /\ PspAction(v, Action(s), fire) = Stay(GunShot(lit))
        /\ EmittedAction(f, s, fire) = Fall(GunShot(mate))
    BY <1>3, <1>5 DEF PspAction, EmittedAction, FireCGun, Less
  <2> HIDE DEF lit, mate
  <2>3. mate.refire = lit.refire
    BY <2>1, SameReads
  <2>4. Plain(v, GunShot(lit)) /\ Good(GunShot(lit)) /\ Same(GunShot(mate), GunShot(lit), p)
    BY <2>1, <2>3, ShotAndRollIsPlain DEF GunShot
  <2> QED BY <2>2, <2>4 DEF PlainTurn
<1> QED BY <1>4, <1>5

LEMMA QuietTurn ==
  ASSUME NEW v, NEW f, NEW p, NEW s, NEW fire, Good(v), Same(f, v, p), Enter(v, s),
         Action(s) \in {"none", "A_Punch", "A_Saw", "A_GunFlash"}
  PROVE  PlainTurn(v, f, p, s, fire)
<1>1. CASE Action(s) = "none"
  <2>1. PspAction(v, Action(s), fire) = Stay(v) /\ EmittedAction(f, s, fire) = Fall(f)
    BY <1>1 DEF PspAction, EmittedAction
  <2> QED BY <2>1, PlainItself DEF PlainTurn
<1>2. CASE Action(s) \in {"A_Punch", "A_Saw"}
  <2>1. PspAction(v, Action(s), fire) = Stay(Draw(v, 3)) /\ EmittedAction(f, s, fire) = Fall(Draw(f, 3))
    BY <1>2 DEF PspAction, EmittedAction
  <2>2. Plain(v, Draw(v, 3)) /\ Good(Draw(v, 3)) /\ Same(Draw(f, 3), Draw(v, 3), p) /\ Draw(v, 3).ammo = v.ammo
    BY DrawIs, PlainIsGood, DrawAlike
  <2> QED BY <2>1, <2>2 DEF PlainTurn
<1>3. CASE Action(s) = "A_GunFlash"
  <2> DEFINE fl == "S_MISSILEFLASH1"
  <2>1. v.ready = "missile"
    BY <1>3, ReadyIsAWeapon, StatesAreTame DEF Good, Enter, Pose, Tame
  <2>2. WEAPONINFO[v.ready].flash = fl /\ fl \in FlashStates
    BY <2>1, MissileArmed DEF Armed, FlashStates
  <2>3. PspAction(v, Action(s), fire) = Stay(SetFlash(v, fl)) /\ EmittedAction(f, s, fire) = Fall(Fen(f, fl))
    BY <1>3, <2>2 DEF PspAction, EmittedAction
  <2>4. Plain(v, SetFlash(v, fl)) /\ Good(SetFlash(v, fl)) /\ Same(Fen(f, fl), SetFlash(v, fl), p)
        /\ SetFlash(v, fl).ammo = v.ammo
    BY <2>2, LitIsPlain, PlainIsGood, FenIsSetFlash DEF Good
  <2> QED BY <2>3, <2>4 DEF PlainTurn
<1> QED BY <1>1, <1>2, <1>3

LEMMA OtherTurns ==
  ASSUME NEW v, NEW f, NEW p, NEW s, NEW fire, Good(v), Same(f, v, p), Enter(v, s), v.st = s,
         Action(s) \in Others \ {"A_WeaponReady", "A_ReFire"}
  PROVE  PlainTurn(v, f, p, s, fire)
BY PistolTurn, ShotgunTurn, MissileTurn, PlasmaTurn, ChaingunTurn, QuietTurn DEF Others

(***************************************************************************)
(* The actions that set a state.                                           *)
(***************************************************************************)
(* Whose action sets none in its turn.                                     *)
Short(w, s) ==
  \/ Action(s) \in Others \ {"A_WeaponReady", "A_ReFire"}
  \/ Action(s) = "A_Lower" /\ (w.dead = 1 \/ w.sy + LOWERSPEED < WEAPONBOTTOM)
  \/ Action(s) = "A_Raise" /\ w.sy - RAISESPEED > WEAPONTOP

(* A turn that ends in a state that lasts, and one that goes on.           *)
Landed(w, r, e, p) ==
  /\ r.sets = Stays /\ e.to = S_NULL /\ Good(r.who) /\ At(r.who) /\ Follows(w, r.who)
  /\ Same(e.cells, r.who, p)
Sent(w, r, e, p) ==
  /\ r.sets # Stays /\ r.sets # S_NULL /\ e.to = r.sets /\ Good(r.who) /\ Enter(r.who, r.sets)
  /\ Follows(w, r.who) /\ Same(e.cells, r.who, p)

LEMMA PreferredIsOwned ==
  ASSUME NEW w, Owns(w)
  PROVE  Preferred(w.owned, w.ammo) \in w.owned
<1> DEFINE us(i) == Usable(w.owned, w.ammo, Preference[i])
<1>1. DOMAIN Preference = 1 .. 7 /\ Preference[7] = "fist"
  BY DEF Preference
<1>2. us(7)
  BY <1>1 DEF Usable, AmmoOf
<1>3. \E i \in 1 .. 7 : us(i) /\ \A j \in 1 .. i - 1 : ~us(j)
  <2> HIDE DEF us
  <2>1. CASE us(1)
    BY <2>1
  <2>2. CASE ~us(1) /\ us(2)
    BY <2>2
  <2>3. CASE ~us(1) /\ ~us(2) /\ us(3)
    BY <2>3
  <2>4. CASE ~us(1) /\ ~us(2) /\ ~us(3) /\ us(4)
    BY <2>4
  <2>5. CASE ~us(1) /\ ~us(2) /\ ~us(3) /\ ~us(4) /\ us(5)
    BY <2>5
  <2>6. CASE ~us(1) /\ ~us(2) /\ ~us(3) /\ ~us(4) /\ ~us(5) /\ us(6)
    BY <2>6
  <2>7. CASE ~us(1) /\ ~us(2) /\ ~us(3) /\ ~us(4) /\ ~us(5) /\ ~us(6)
    BY <1>2, <2>7
  <2> QED BY <2>1, <2>2, <2>3, <2>4, <2>5, <2>6, <2>7
<1> DEFINE first == CHOOSE i \in DOMAIN Preference : us(i) /\ \A j \in 1 .. i - 1 : ~us(j)
<1>4. us(first)
  <2> HIDE DEF us
  <2> QED BY <1>1, <1>3
<1>5. Preferred(w.owned, w.ammo) = Preference[first]
  BY DEF Preferred
<1> QED BY <1>4, <1>5 DEF Usable, Owns

LEMMA DownIs ==
  ASSUME NEW u, Good(u), u.sy \in WEAPONTOP .. WEAPONBOTTOM, u.dead = 1 \/ u.pending # NOCHANGE
  PROVE  LET t == WEAPONINFO[u.ready].down
         IN  Enter(u, t) /\ Action(t) = "A_Lower" /\ t # Stays /\ t # S_NULL
<1> DEFINE t == WEAPONINFO[u.ready].down
<1>1. t \in WeaponStates[u.ready] /\ Action(t) = "A_Lower"
  BY ReadyIsAWeapon DEF Good, Armed
<1>2. Tame(u.ready, t)
  BY <1>1, ReadyIsAWeapon, StatesAreTame DEF Good
<1> HIDE DEF t
<1>3. Next_(t) = t /\ ~Shoots(t) /\ Moving(t) /\ t # Stays /\ t # S_NULL
  BY <1>1, <1>2 DEF Tame, Moving, Shoots
<1>4. Enter(u, t)
  BY <1>1, <1>3 DEF Enter, Pose, Good, Flesh
<1> QED BY <1>1, <1>3, <1>4 DEF t

LEMMA UpIs ==
  ASSUME NEW u, Good(u), u.sy = WEAPONBOTTOM, u.dead # 1
  PROVE  LET t == WEAPONINFO[u.ready].up
         IN  Enter(u, t) /\ Action(t) = "A_Raise" /\ t # Stays /\ t # S_NULL
<1> DEFINE t == WEAPONINFO[u.ready].up
<1>1. t \in WeaponStates[u.ready] /\ Action(t) = "A_Raise"
  BY ReadyIsAWeapon DEF Good, Armed
<1>2. Tame(u.ready, t)
  BY <1>1, ReadyIsAWeapon, StatesAreTame DEF Good
<1> HIDE DEF t
<1>3. Next_(t) = t /\ ~Shoots(t) /\ Moving(t) /\ t # Stays /\ t # S_NULL
  BY <1>1, <1>2 DEF Tame, Moving, Shoots
<1>4. u.sy > WEAPONTOP /\ u.sy \in WEAPONTOP .. WEAPONBOTTOM
  BY PspriteBounds
<1>5. Enter(u, t)
  BY <1>1, <1>3, <1>4 DEF Enter, Pose
<1> QED BY <1>1, <1>3, <1>5 DEF t

LEMMA ReadyIs ==
  ASSUME NEW u, Good(u), u.sy = WEAPONTOP, u.dead # 1
  PROVE  LET t == WEAPONINFO[u.ready].ready
         IN  Enter(u, t) /\ Action(t) = "A_WeaponReady" /\ t # Stays /\ t # S_NULL
<1> DEFINE t == WEAPONINFO[u.ready].ready
<1>1. t \in WeaponStates[u.ready] /\ Action(t) = "A_WeaponReady"
  BY ReadyIsAWeapon DEF Good, Armed
<1>2. Tame(u.ready, t)
  BY <1>1, ReadyIsAWeapon, StatesAreTame DEF Good
<1> HIDE DEF t
<1>3. ~Shoots(Next_(t)) /\ ~Shoots(t) /\ ~Moving(t) /\ t # Stays /\ t # S_NULL
  BY <1>1, <1>2 DEF Tame, Moving, Shoots
<1>4. u.sy \in WEAPONTOP .. WEAPONBOTTOM
  BY PspriteBounds
<1>5. Enter(u, t)
  BY <1>1, <1>3, <1>4 DEF Enter, Pose, Moving
<1> QED BY <1>1, <1>3, <1>5 DEF t

LEMMA AtkIs ==
  ASSUME NEW u, Good(u), u.sy = WEAPONTOP, u.dead # 1, EnoughAmmo(u)
  PROVE  LET t == WEAPONINFO[u.ready].atk
         IN  Enter(u, t) /\ Action(t) \in Others \ {"A_WeaponReady", "A_ReFire"} /\ t # Stays /\ t # S_NULL
<1> DEFINE t == WEAPONINFO[u.ready].atk
<1>1. t \in WeaponStates[u.ready] /\ Action(t) \in Others \ {"A_WeaponReady", "A_ReFire"}
  BY ReadyIsAWeapon DEF Good, Armed
<1>2. Tame(u.ready, t)
  BY <1>1, ReadyIsAWeapon, StatesAreTame DEF Good
<1> HIDE DEF t
<1>3. ~Moving(t) /\ t # Stays /\ t # S_NULL /\ Action(t) # "A_Lower" /\ Action(t) # "A_Raise"
  BY <1>1, <1>2 DEF Tame, Moving, Others
<1>4. u.sy \in WEAPONTOP .. WEAPONBOTTOM
  BY PspriteBounds
<1>5. Enter(u, t)
  BY <1>1, <1>3, <1>4 DEF Enter, Pose
<1> QED BY <1>1, <1>3, <1>5 DEF t

(* u is v but for what the player's hands do.                              *)
Tuned(v, u) == Untouched(v, u) /\ u.ammo = v.ammo /\ u.st = v.st /\ u.tics = v.tics
               /\ u.fst = v.fst /\ u.ftics = v.ftics /\ u.rng = v.rng

LEMMA TunedIsGood ==
  ASSUME NEW v, NEW u, Good(v), Tuned(v, u), Owns(u), u.refire \in 0 .. REFIRE_CAP, u.attackdown \in {0, 1}
  PROVE  Good(u) /\ u.dead = v.dead /\ u.health = v.health
<1>1. Trigger(u) /\ Glow(u)
  BY DEF Tuned, Good, Trigger, Glow
<1>2. u.ammo \in [Ammo -> Nat] /\ (\A a \in Ammo : u.ammo[a] <= v.ammo[a])
  BY DEF Tuned, Good, Mags
<1> QED BY <1>1, <1>2, UntouchedKeeps DEF Tuned

LEMMA EnoughAlike ==
  ASSUME NEW f, NEW w, NEW p, Same(f, w, p)
  PROVE  EnoughAmmo(f) = EnoughAmmo(w)
<1>1. f.ready = w.ready /\ f.ammo = w.ammo
  BY SameReads
<1> QED BY <1>1 DEF EnoughAmmo

LEMMA CheckTurn ==
  ASSUME NEW v, NEW f, NEW p, Good(v), Same(f, v, p), v.sy = WEAPONTOP, v.dead # 1
  PROVE  \/ EnoughAmmo(v) /\ CheckAmmo(v) = Stay(v) /\ EmittedCheckAmmo(f) = Fall(f)
         \/ Sent(v, CheckAmmo(v), EmittedCheckAmmo(f), p) /\ Short(CheckAmmo(v).who, CheckAmmo(v).sets)
<1>1. CASE EnoughAmmo(v)
  BY <1>1, EnoughAlike DEF CheckAmmo, EmittedCheckAmmo
<1>2. CASE ~EnoughAmmo(v)
  <2> DEFINE g == Preferred(v.owned, v.ammo)
             u == [v EXCEPT !.pending = g]
             h == [f EXCEPT !.pending = g]
             t == WEAPONINFO[v.ready].down
  <2>1. f.ready = v.ready /\ f.owned = v.owned /\ f.ammo = v.ammo
    BY SameReads
  <2>2. g \in v.owned /\ g # NOCHANGE
    <3>1. g \in v.owned
      BY PreferredIsOwned DEF Good
    <3> QED BY <3>1 DEF Good, Owns, Weapon, NOCHANGE
  <2> HIDE DEF g
  <2>3. DOMAIN u = DOMAIN v /\ u.pending = g /\ (\A x \in Fields \ {"pending"} : u[x] = v[x])
    BY FieldsAre DEF Good
  <2>4. Same(h, u, p)
    BY FieldsAre DEF Good, Same
  <2>5. CheckAmmo(v) = Sets(u, WEAPONINFO[u.ready].down) /\ EmittedCheckAmmo(f) = Jump(h, t)
    BY <1>2, <2>1, EnoughAlike DEF CheckAmmo, EmittedCheckAmmo, Down, g
  <2> HIDE DEF u, h
  <2>6. u.ready = v.ready /\ u.sy = v.sy /\ u.owned = v.owned /\ u.refire = v.refire /\ u.attackdown = v.attackdown
    BY <2>3, FieldsAre
  <2>7. Tuned(v, u)
    BY <2>3, FieldsAre DEF Tuned, Untouched, Kept
  <2>8. Good(u) /\ u.dead = v.dead
    BY <2>2, <2>3, <2>6, <2>7, TunedIsGood DEF Good, Owns, Trigger
  <2>9. Enter(u, t) /\ Action(t) = "A_Lower" /\ t # Stays /\ t # S_NULL
    BY <2>2, <2>3, <2>6, <2>8, DownIs, PspriteBounds
  <2> HIDE DEF t
  <2>10. Follows(v, u) /\ Short(u, t)
    BY <2>6, <2>7, <2>9, PspriteBounds DEF Follows, Tuned, Short
  <2>11. CheckAmmo(v) = Sets(u, t)
    BY <2>5, <2>6 DEF t
  <2> QED BY <2>4, <2>5, <2>8, <2>9, <2>10, <2>11 DEF Sent, Sets, Jump
<1> QED BY <1>1, <1>2

LEMMA FireTurn ==
  ASSUME NEW v, NEW f, NEW p, Good(v), Same(f, v, p), v.sy = WEAPONTOP, v.dead # 1
  PROVE  Sent(v, FireWeapon(v), EmittedFire(f), p) /\ Short(FireWeapon(v).who, FireWeapon(v).sets)
<1>1. CASE EnoughAmmo(v)
  <2> DEFINE t == WEAPONINFO[v.ready].atk
  <2>1. FireWeapon(v) = Sets(v, t) /\ EmittedFire(f) = Jump(f, t)
    BY <1>1, EnoughAlike, SameReads DEF FireWeapon, EmittedFire
  <2>2. Enter(v, t) /\ Action(t) \in Others \ {"A_WeaponReady", "A_ReFire"} /\ t # Stays /\ t # S_NULL
    BY <1>1, AtkIs
  <2> HIDE DEF t
  <2>3. Follows(v, v) /\ Short(v, t)
    BY <2>2 DEF Follows, Untouched, Short
  <2> QED BY <2>1, <2>2, <2>3 DEF Sent, Sets, Jump
<1>2. CASE ~EnoughAmmo(v)
  <2>1. FireWeapon(v) = CheckAmmo(v) /\ EmittedFire(f) = EmittedCheckAmmo(f)
    BY <1>2, EnoughAlike DEF FireWeapon, EmittedFire
  <2> QED BY <1>2, <2>1, CheckTurn
<1> QED BY <1>1, <1>2

LEMMA SentAfter ==
  ASSUME NEW v, NEW u, NEW r, NEW e, NEW p, Follows(v, u), Sent(u, r, e, p)
  PROVE  Sent(v, r, e, p)
BY FollowsIsTransitive DEF Sent

(* A health, in three nibbles.                                             *)
LEMMA SignedIs ==
  ASSUME NEW h \in Int, -255 <= h, h < 2048
  PROVE  /\ h % 4096 \in 0 .. 4095 /\ Signed(h % 4096) = h
         /\ h % 4096 >= 2048 \/ h % 4096 = 0 <=> h <= 0
         /\ h >= 0 => h % 4096 = h
<1>1. CASE h >= 0
  <2>1. h % 4096 = h
    BY <1>1
  <2> QED BY <1>1, <2>1 DEF Signed
<1>2. CASE h < 0
  <2>1. h % 4096 = h + 4096
    BY <1>2
  <2>2. h + 4096 \in 0 .. 4095 /\ h + 4096 >= 2048
    BY <1>2
  <2>3. Signed(h + 4096) = h
    BY <2>2 DEF Signed
  <2> QED BY <1>2, <2>1, <2>2, <2>3
<1> QED BY <1>1, <1>2

LEMMA HealthReads ==
  ASSUME NEW f, NEW w, NEW p, Good(w), Same(f, w, p)
  PROVE  /\ f.health \in 0 .. 4095 /\ Signed(f.health) = w.health
         /\ f.health >= 2048 \/ f.health = 0 <=> w.health <= 0
         /\ w.health >= 0 => f.health = w.health
<1>1. f.health = w.health % 4096
  BY SameReads
<1>2. w.health \in Int /\ -255 <= w.health /\ w.health < 2048
  BY InventoryBounds DEF Good, Flesh
<1> DEFINE h == w.health
<1>3. h \in Int /\ -255 <= h /\ h < 2048
  BY <1>2
<1> HIDE DEF h
<1>4. /\ h % 4096 \in 0 .. 4095 /\ Signed(h % 4096) = h
      /\ h % 4096 >= 2048 \/ h % 4096 = 0 <=> h <= 0
      /\ h >= 0 => h % 4096 = h
  BY <1>3, SignedIs
<1>5. f.health = h % 4096
  BY <1>1 DEF h
<1>6. /\ f.health \in 0 .. 4095 /\ Signed(f.health) = h
      /\ f.health >= 2048 \/ f.health = 0 <=> h <= 0
      /\ h >= 0 => f.health = h
  <2> DEFINE c == h % 4096
  <2>1. f.health = c
    BY <1>5
  <2>2. /\ c \in 0 .. 4095 /\ Signed(c) = h
        /\ c >= 2048 \/ c = 0 <=> h <= 0
        /\ h >= 0 => c = h
    BY <1>4
  <2> HIDE DEF c
  <2> QED BY <2>1, <2>2
<1> QED BY <1>6 DEF h

(* A turn of the weapon's, on its way: it lasts, or goes on, the second    *)
(* time to a state whose action is the last.                               *)
ReadyOutcome(v, r, e, p) ==
  Landed(v, r, e, p) \/ (Sent(v, r, e, p) /\ Short(r.who, r.sets))

LEMMA AttackdownIs ==
  ASSUME NEW v, NEW f, NEW p, Good(v), Same(f, v, p), NEW k \in {0, 1}
  PROVE  LET u == [v EXCEPT !.attackdown = k]
         IN  /\ Good(u) /\ Same([f EXCEPT !.attackdown = k], u, p) /\ Tuned(v, u) /\ u.sy = v.sy /\ u.dead = v.dead
             /\ u.ready = v.ready /\ u.pending = v.pending
<1> DEFINE u == [v EXCEPT !.attackdown = k]
<1>1. DOMAIN u = DOMAIN v /\ u.attackdown = k /\ (\A x \in Fields \ {"attackdown"} : u[x] = v[x])
  BY FieldsAre DEF Good
<1>2. Same([f EXCEPT !.attackdown = k], u, p)
  BY FieldsAre DEF Good, Same
<1> HIDE DEF u
<1>3. u.ready = v.ready /\ u.sy = v.sy /\ u.owned = v.owned /\ u.refire = v.refire /\ u.pending = v.pending
  BY <1>1, FieldsAre
<1>4. Tuned(v, u)
  BY <1>1, FieldsAre DEF Tuned, Untouched, Kept
<1>5. Good(u) /\ u.dead = v.dead
  BY <1>1, <1>3, <1>4, TunedIsGood DEF Good, Owns, Trigger
<1> QED BY <1>2, <1>3, <1>4, <1>5 DEF u

LEMMA RefireIs ==
  ASSUME NEW v, NEW f, NEW p, Good(v), Same(f, v, p), NEW k \in 0 .. REFIRE_CAP
  PROVE  LET u == [v EXCEPT !.refire = k]
         IN  /\ Good(u) /\ Same([f EXCEPT !.refire = k], u, p) /\ Tuned(v, u) /\ u.sy = v.sy /\ u.dead = v.dead
             /\ u.ready = v.ready /\ u.pending = v.pending
<1> DEFINE u == [v EXCEPT !.refire = k]
<1>1. DOMAIN u = DOMAIN v /\ u.refire = k /\ (\A x \in Fields \ {"refire"} : u[x] = v[x])
  BY FieldsAre DEF Good
<1>2. Same([f EXCEPT !.refire = k], u, p)
  BY FieldsAre DEF Good, Same
<1> HIDE DEF u
<1>3. u.ready = v.ready /\ u.sy = v.sy /\ u.owned = v.owned /\ u.attackdown = v.attackdown /\ u.pending = v.pending
  BY <1>1, FieldsAre
<1>4. Tuned(v, u)
  BY <1>1, FieldsAre DEF Tuned, Untouched, Kept
<1>5. Good(u) /\ u.dead = v.dead
  BY <1>1, <1>3, <1>4, TunedIsGood DEF Good, Owns, Trigger
<1> QED BY <1>2, <1>3, <1>4, <1>5 DEF u

(* Where the weapon is held, nothing but this changed.                     *)
LEMMA HeldIs ==
  ASSUME NEW v, NEW f, NEW p, Good(v), Same(f, v, p), NEW y
  PROVE  LET u == [v EXCEPT !.sy = y]
         IN  /\ Good(u) /\ Same([f EXCEPT !.sy = y], u, p) /\ Tuned(v, u) /\ u.sy = y /\ u.dead = v.dead
             /\ u.ready = v.ready /\ u.pending = v.pending /\ u.health = v.health
<1> DEFINE u == [v EXCEPT !.sy = y]
<1>1. DOMAIN u = DOMAIN v /\ u.sy = y /\ (\A x \in Fields \ {"sy"} : u[x] = v[x])
  BY FieldsAre DEF Good
<1>2. Same([f EXCEPT !.sy = y], u, p)
  BY FieldsAre DEF Good, Same
<1> HIDE DEF u
<1>3. u.ready = v.ready /\ u.owned = v.owned /\ u.attackdown = v.attackdown /\ u.pending = v.pending /\ u.refire = v.refire
  BY <1>1, FieldsAre
<1>4. Tuned(v, u)
  BY <1>1, FieldsAre DEF Tuned, Untouched, Kept
<1>5. Good(u) /\ u.dead = v.dead /\ u.health = v.health
  BY <1>3, <1>4, TunedIsGood DEF Good, Owns, Trigger
<1> QED BY <1>1, <1>2, <1>3, <1>4, <1>5 DEF u

LEMMA TunedStays ==
  ASSUME NEW v, NEW u, Pose(v, v.st), v.tics \in 1 .. 15, Tuned(v, u), u.sy = v.sy, u.ready = v.ready,
         u.pending = v.pending
  PROVE  At(u) /\ Follows(v, u)
<1>1. u.dead = v.dead
  BY UntouchedLeaves DEF Tuned
<1>2. Pose(u, u.st)
  BY <1>1 DEF Tuned, Pose, EnoughAmmo
<1>3. u.sy >= v.sy /\ u.sy \in Int
  BY PspriteBounds DEF Pose
<1> QED BY <1>2, <1>3 DEF At, Follows, Tuned

LEMMA TunedFollows ==
  ASSUME NEW v, NEW u, Tuned(v, u), v.dead # 1
  PROVE  Follows(v, u)
BY DEF Follows, Tuned

LEMMA ReadyTurn ==
  ASSUME NEW v, NEW f, NEW p, NEW s, NEW fire, Good(v), Same(f, v, p), Enter(v, s), v.st = s,
         v.tics \in 1 .. 15, Action(s) = "A_WeaponReady"
  PROVE  ReadyOutcome(v, WeaponReady(v, fire), EmittedReady(f, fire), p)
<1>1. v.dead # 1 /\ v.sy = WEAPONTOP /\ v.health > 0 /\ Pose(v, v.st)
  BY DEF Enter, Pose, Moving, Good, Flesh
<1>2. /\ f.pending = v.pending /\ f.ready = v.ready /\ f.attackdown = v.attackdown
      /\ ~(f.health >= 2048 \/ f.health = 0) /\ ~(v.health <= 0)
  <2>1. v.health \in Int
    BY DEF Good, Flesh
  <2> QED BY <1>1, <2>1, SameReads, HealthReads
<1>3. CASE v.pending # NOCHANGE
  <2> DEFINE t == WEAPONINFO[v.ready].down
  <2>1. WeaponReady(v, fire) = Sets(v, t) /\ EmittedReady(f, fire) = Jump(f, t)
    BY <1>2, <1>3 DEF WeaponReady, EmittedReady, Down
  <2>2. Enter(v, t) /\ Action(t) = "A_Lower" /\ t # Stays /\ t # S_NULL
    BY <1>1, <1>3, DownIs, PspriteBounds
  <2> HIDE DEF t
  <2>3. Follows(v, v) /\ Short(v, t)
    BY <1>1, <2>2, PspriteBounds DEF Follows, Untouched, Short
  <2> QED BY <2>1, <2>2, <2>3 DEF ReadyOutcome, Sent, Sets, Jump
<1>4. CASE v.pending = NOCHANGE /\ fire /\ (v.attackdown = 0 \/ v.ready # "missile")
  <2> DEFINE u == [v EXCEPT !.attackdown = 1]
             h == [f EXCEPT !.attackdown = 1]
  <2>1. WeaponReady(v, fire) = FireWeapon(u) /\ EmittedReady(f, fire) = EmittedFire(h)
    BY <1>2, <1>4 DEF WeaponReady, EmittedReady
  <2>2. Good(u) /\ Same(h, u, p) /\ Tuned(v, u) /\ u.sy = v.sy /\ u.dead = v.dead
    BY AttackdownIs
  <2> HIDE DEF u, h
  <2>3. Follows(v, u)
    BY <1>1, <2>2, TunedFollows
  <2>4. Sent(u, FireWeapon(u), EmittedFire(h), p) /\ Short(FireWeapon(u).who, FireWeapon(u).sets)
    BY <1>1, <2>2, FireTurn
  <2> QED BY <2>1, <2>3, <2>4, SentAfter DEF ReadyOutcome
<1>5. CASE v.pending = NOCHANGE /\ ~(fire /\ (v.attackdown = 0 \/ v.ready # "missile"))
  <2> DEFINE k == IF fire THEN v.attackdown ELSE 0
             u == [v EXCEPT !.attackdown = k]
             h == [f EXCEPT !.attackdown = k]
             x == [u EXCEPT !.sy = WEAPONTOP]
             y == [h EXCEPT !.sy = WEAPONTOP]
  <2>1. WeaponReady(v, fire) = Stay(x) /\ EmittedReady(f, fire) = Fall(y)
    BY <1>2, <1>5 DEF WeaponReady, EmittedReady
  <2>2. k \in {0, 1}
    BY DEF Good, Trigger
  <2> HIDE DEF k
  <2>3. Good(u) /\ Same(h, u, p) /\ Tuned(v, u) /\ u.sy = v.sy /\ u.ready = v.ready /\ u.pending = v.pending
    BY <2>2, AttackdownIs
  <2> HIDE DEF u, h
  <2>4. Good(x) /\ Same(y, x, p) /\ Tuned(u, x) /\ x.sy = v.sy /\ x.ready = v.ready /\ x.pending = v.pending
    BY <1>1, <2>3, HeldIs
  <2> HIDE DEF x, y
  <2>5. Tuned(v, x)
    BY <2>3, <2>4, UntouchedIsTransitive DEF Tuned
  <2>6. At(x) /\ Follows(v, x)
    BY <1>1, <2>4, <2>5, TunedStays
  <2> QED BY <2>1, <2>4, <2>6 DEF ReadyOutcome, Landed, Stay, Fall
<1> QED BY <1>3, <1>4, <1>5

(* The next weapon comes up.                                               *)
LEMMA BringUpIs ==
  ASSUME NEW v, NEW f, NEW p, Good(v), Same(f, v, p), v.dead # 1, v.pending # NOCHANGE, NEW y
  PROVE  LET r == BringUp([v EXCEPT !.ready = v.pending])
             e == Jump([[f EXCEPT !.sy = y] EXCEPT !.ready = f.pending, !.pending = NOCHANGE, !.sy = WEAPONBOTTOM],
                       WEAPONINFO[f.pending].up)
         IN  Sent(v, r, e, p) /\ Short(r.who, r.sets)
<1> DEFINE n == v.pending
           u == [v EXCEPT !.ready = n, !.pending = NOCHANGE, !.sy = WEAPONBOTTOM]
           w == [[v EXCEPT !.ready = n] EXCEPT !.pending = NOCHANGE, !.sy = WEAPONBOTTOM]
           h == [[f EXCEPT !.sy = y] EXCEPT !.ready = n, !.pending = NOCHANGE, !.sy = WEAPONBOTTOM]
           t == WEAPONINFO[n].up
<1>1. f.pending = n
  BY SameReads
<1>2. BringUp([v EXCEPT !.ready = n]) = Sets(w, t)
  <2>1. [v EXCEPT !.ready = n].pending = n /\ n # NOCHANGE
    BY FieldsAre DEF Good
  <2> QED BY <2>1 DEF BringUp
<1>3. n \in v.owned /\ n # NOCHANGE
  BY DEF Good, Owns
<1> HIDE DEF n
<1>4. /\ DOMAIN w = DOMAIN v /\ w.ready = n /\ w.pending = NOCHANGE /\ w.sy = WEAPONBOTTOM
      /\ \A x \in Fields \ {"ready", "pending", "sy"} : w[x] = v[x]
  BY FieldsAre DEF Good
<1>5. Same(h, w, p)
  BY FieldsAre DEF Good, Same
<1> HIDE DEF w, h
<1>6. w.owned = v.owned /\ w.attackdown = v.attackdown /\ w.refire = v.refire
  BY <1>4, FieldsAre
<1>7. Tuned(v, w)
  BY <1>4, FieldsAre DEF Tuned, Untouched, Kept
<1>8. Good(w) /\ w.dead = v.dead
  BY <1>3, <1>4, <1>6, <1>7, TunedIsGood DEF Good, Owns, Trigger
<1>9. Enter(w, t) /\ Action(t) = "A_Raise" /\ t # Stays /\ t # S_NULL
  BY <1>4, <1>8, UpIs
<1> HIDE DEF t
<1>10. Follows(v, w)
  BY <1>7, TunedFollows
<1>11. Short(w, t)
  <2>1. w.sy - RAISESPEED > WEAPONTOP
    BY <1>4, PspriteBounds
  <2> QED BY <1>9, <2>1 DEF Short
<1>12. Sent(v, Sets(w, t), Jump(h, t), p)
  BY <1>5, <1>8, <1>9, <1>10 DEF Sent, Sets, Jump
<1>13. Short(Sets(w, t).who, Sets(w, t).sets)
  BY <1>11 DEF Sets
<1> QED BY <1>1, <1>2, <1>12, <1>13 DEF n, h, t

LEMMA Screen ==
  /\ WEAPONTOP \in Nat /\ WEAPONBOTTOM \in Nat /\ LOWERSPEED \in Nat /\ RAISESPEED \in Nat
  /\ WEAPONTOP + LOWERSPEED < WEAPONBOTTOM /\ WEAPONTOP + RAISESPEED < WEAPONBOTTOM
  /\ RAISESPEED <= WEAPONTOP + 1 /\ WEAPONBOTTOM + LOWERSPEED < 256
BY PspriteBounds

LEMMA LowerTurn ==
  ASSUME NEW v, NEW f, NEW p, NEW s, Good(v), Same(f, v, p), Enter(v, s), v.st = s,
         v.tics \in 1 .. 15, Action(s) = "A_Lower"
  PROVE  /\ ReadyOutcome(v, Lower(v), EmittedLower(f), p)
         /\ Short(v, s) => Landed(v, Lower(v), EmittedLower(f), p)
<1> DEFINE y == v.sy + LOWERSPEED
           low == [f EXCEPT !.sy = y]
<1>1. v.sy \in Int /\ WEAPONTOP <= v.sy /\ v.sy <= WEAPONBOTTOM /\ y \in Int /\ y >= v.sy /\ y % 256 = y
  <2> DEFINE z == v.sy
  <2>1. z \in WEAPONTOP .. WEAPONBOTTOM
    BY DEF Enter, Pose
  <2> HIDE DEF z
  <2>2. z \in Int /\ WEAPONTOP <= z /\ z <= WEAPONBOTTOM /\ z + LOWERSPEED >= z /\ z + LOWERSPEED \in 0 .. 255
    BY <2>1, Screen
  <2>3. (z + LOWERSPEED) % 256 = z + LOWERSPEED
    BY <2>2
  <2> QED BY <2>2, <2>3 DEF z
<1>2. f.sy = v.sy /\ f.dead = v.dead /\ f.pending = v.pending
  BY SameReads
<1>3. Lowered(v) = [v EXCEPT !.sy = y] /\ Lowered(v).sy = y
  BY FieldsAre DEF Lowered, Good
<1>4. low.sy = y
  BY FieldsAre DEF Same
<1>5. EmittedLower(f) = IF y < WEAPONBOTTOM THEN Fall(low)
                        ELSE IF v.dead = 1 THEN Fall([low EXCEPT !.sy = WEAPONBOTTOM])
                        ELSE Jump([low EXCEPT !.ready = f.pending, !.pending = NOCHANGE, !.sy = WEAPONBOTTOM],
                                  WEAPONINFO[f.pending].up)
  <2>1. [f EXCEPT !.sy = (f.sy + LOWERSPEED) % 256] = low
    BY <1>1, <1>2
  <2> HIDE DEF low
  <2> QED BY <1>2, <1>4, <2>1 DEF EmittedLower
<1> HIDE DEF y
<1>6. CASE y < WEAPONBOTTOM
  <2> DEFINE u == [v EXCEPT !.sy = y]
  <2>1. Lower(v) = Stay(u) /\ EmittedLower(f) = Fall(low)
    BY <1>3, <1>5, <1>6 DEF Lower
  <2>2. Good(u) /\ Same(low, u, p) /\ Tuned(v, u) /\ u.sy = y /\ u.dead = v.dead /\ u.ready = v.ready
        /\ u.pending = v.pending
    BY HeldIs
  <2> HIDE DEF u, low
  <2>3. Follows(v, u)
    BY <1>1, <2>2 DEF Follows, Tuned
  <2>4. y \in WEAPONTOP .. WEAPONBOTTOM
    BY <1>1, <1>6, PspriteBounds
  <2>5. At(u)
    BY <2>2, <2>4 DEF At, Tuned, Enter, Pose, Moving, EnoughAmmo
  <2> QED BY <2>1, <2>2, <2>3, <2>5 DEF ReadyOutcome, Landed, Stay, Fall
<1>7. CASE ~(y < WEAPONBOTTOM) /\ v.dead = 1
  <2> DEFINE u == [v EXCEPT !.sy = WEAPONBOTTOM]
             h == [low EXCEPT !.sy = WEAPONBOTTOM]
  <2>1. Lower(v) = Stay(u) /\ EmittedLower(f) = Fall(h)
    BY <1>3, <1>5, <1>7 DEF Lower
  <2>2. Good(u) /\ Tuned(v, u) /\ u.sy = WEAPONBOTTOM /\ u.dead = v.dead /\ u.ready = v.ready
        /\ u.pending = v.pending
    BY HeldIs
  <2>3. Same(h, u, p)
    BY FieldsAre DEF Good, Same
  <2> HIDE DEF u, h
  <2>4. Follows(v, u)
    BY <1>1, <2>2, PspriteBounds DEF Follows, Tuned
  <2>5. WEAPONBOTTOM \in WEAPONTOP .. WEAPONBOTTOM
    BY PspriteBounds
  <2>6. At(u)
    BY <2>2, <2>5 DEF At, Tuned, Enter, Pose, Moving, EnoughAmmo
  <2> QED BY <2>1, <2>2, <2>3, <2>4, <2>6 DEF ReadyOutcome, Landed, Stay, Fall
<1>8. CASE ~(y < WEAPONBOTTOM) /\ v.dead # 1
  <2>1. v.pending # NOCHANGE /\ ~(v.health <= 0) /\ v.dead = 0
    BY <1>8 DEF Enter, Pose, Good, Flesh
  <2>2. Lower(v) = BringUp([v EXCEPT !.ready = v.pending])
    BY <1>3, <1>8, <2>1 DEF Lower
  <2>3. EmittedLower(f) = Jump([low EXCEPT !.ready = f.pending, !.pending = NOCHANGE, !.sy = WEAPONBOTTOM],
                               WEAPONINFO[f.pending].up)
    BY <1>5, <1>8
  <2>4. Sent(v, Lower(v), EmittedLower(f), p) /\ Short(Lower(v).who, Lower(v).sets)
    BY <1>8, <2>1, <2>2, <2>3, BringUpIs
  <2>5. ~Short(v, s)
    BY <1>8 DEF Short, Others, y
  <2> QED BY <2>4, <2>5 DEF ReadyOutcome
<1> QED BY <1>6, <1>7, <1>8

(* A turn that goes on, wherever to.                                       *)
RaiseOutcome(v, r, e, p) ==
  Landed(v, r, e, p) \/ (Sent(v, r, e, p) /\ (Short(r.who, r.sets) \/ Action(r.sets) = "A_WeaponReady"))

LEMMA RaiseTurn ==
  ASSUME NEW v, NEW f, NEW p, NEW s, Good(v), Same(f, v, p), Enter(v, s), v.st = s,
         v.tics \in 1 .. 15, Action(s) = "A_Raise"
  PROVE  /\ RaiseOutcome(v, Raise(v), EmittedRaise(f), p)
         /\ Short(v, s) => Landed(v, Raise(v), EmittedRaise(f), p)
<1> DEFINE y == v.sy - RAISESPEED
           high == [f EXCEPT !.sy = y]
<1>1. v.sy \in Int /\ WEAPONTOP < v.sy /\ v.sy <= WEAPONBOTTOM /\ y \in Int /\ y <= v.sy /\ y % 256 = y /\ v.dead # 1
  <2>1. v.sy \in WEAPONTOP .. WEAPONBOTTOM /\ v.sy > WEAPONTOP /\ v.dead # 1
    BY DEF Enter, Pose
  <2> QED BY <2>1, PspriteBounds
<1>2. f.sy = v.sy /\ f.ready = v.ready
  BY SameReads
<1>3. high.sy = y
  BY FieldsAre DEF Same
<1>4. EmittedRaise(f) = IF y > WEAPONTOP THEN Fall(high)
                        ELSE Jump([high EXCEPT !.sy = WEAPONTOP], WEAPONINFO[v.ready].ready)
  <2>1. [f EXCEPT !.sy = (f.sy - RAISESPEED) % 256] = high
    BY <1>1, <1>2
  <2> HIDE DEF high
  <2> QED BY <1>2, <1>3, <2>1 DEF EmittedRaise
<1>5. Raise(v) = IF y > WEAPONTOP THEN Stay([v EXCEPT !.sy = y])
                 ELSE Sets([v EXCEPT !.sy = WEAPONTOP], WEAPONINFO[v.ready].ready)
  <2>1. [v EXCEPT !.sy = WEAPONTOP].ready = v.ready
    BY FieldsAre DEF Good
  <2> QED BY <2>1 DEF Raise
<1> HIDE DEF y
<1>6. CASE y > WEAPONTOP
  <2> DEFINE u == [v EXCEPT !.sy = y]
  <2>1. Raise(v) = Stay(u) /\ EmittedRaise(f) = Fall(high)
    BY <1>4, <1>5, <1>6
  <2>2. Good(u) /\ Same(high, u, p) /\ Tuned(v, u) /\ u.sy = y /\ u.dead = v.dead /\ u.ready = v.ready
        /\ u.pending = v.pending
    BY HeldIs
  <2> HIDE DEF u, high
  <2>3. Follows(v, u)
    BY <1>1, <2>2, TunedFollows
  <2>4. y \in WEAPONTOP .. WEAPONBOTTOM
    BY <1>1, <1>6, PspriteBounds
  <2>5. At(u)
    BY <1>6, <2>2, <2>4 DEF At, Tuned, Enter, Pose, Moving, EnoughAmmo
  <2> QED BY <2>1, <2>2, <2>3, <2>5 DEF RaiseOutcome, Landed, Stay, Fall
<1>7. CASE ~(y > WEAPONTOP)
  <2> DEFINE u == [v EXCEPT !.sy = WEAPONTOP]
             h == [high EXCEPT !.sy = WEAPONTOP]
             t == WEAPONINFO[v.ready].ready
  <2>1. Raise(v) = Sets(u, t) /\ EmittedRaise(f) = Jump(h, t)
    BY <1>4, <1>5, <1>7
  <2>2. Good(u) /\ Tuned(v, u) /\ u.sy = WEAPONTOP /\ u.dead = v.dead /\ u.ready = v.ready
    BY HeldIs
  <2>3. Same(h, u, p)
    BY FieldsAre DEF Good, Same
  <2> HIDE DEF u, h
  <2>4. Enter(u, t) /\ Action(t) = "A_WeaponReady" /\ t # Stays /\ t # S_NULL
    BY <1>1, <2>2, ReadyIs
  <2> HIDE DEF t
  <2>5. Follows(v, u)
    BY <1>1, <2>2, TunedFollows
  <2>6. ~Short(v, s)
    BY <1>7 DEF Short, Others, y
  <2> QED BY <2>1, <2>2, <2>3, <2>4, <2>5, <2>6 DEF RaiseOutcome, Sent, Sets, Jump
<1> QED BY <1>6, <1>7

(* A refire fires, has no round, or leaves the state to last.              *)
LEMMA ReFireTurn ==
  ASSUME NEW v, NEW f, NEW p, NEW s, NEW fire, Good(v), Same(f, v, p), Enter(v, s), Action(s) = "A_ReFire"
  PROVE  LET r == ReFire(v, fire)
             e == EmittedReFire(f, fire)
         IN  \/ Sent(v, r, e, p) /\ Short(r.who, r.sets)
             \/ /\ r.sets = Stays /\ e.to = S_NULL /\ Good(r.who) /\ Same(e.cells, r.who, p) /\ Tuned(v, r.who)
                /\ r.who.sy = v.sy /\ r.who.ready = v.ready /\ r.who.pending = v.pending
<1>1. v.dead # 1 /\ v.sy = WEAPONTOP /\ v.health > 0
  BY DEF Enter, Pose, Moving, Good, Flesh
<1>2. f.pending = v.pending /\ f.refire = v.refire /\ f.health < 2048 /\ f.health # 0
  <2>1. v.health \in Int
    BY DEF Good, Flesh
  <2> QED BY <1>1, <2>1, SameReads, HealthReads
<1>3. CASE fire /\ v.pending = NOCHANGE
  <2> DEFINE k == Lesser(v.refire + 1, REFIRE_CAP)
             u == [v EXCEPT !.refire = k]
             h == [f EXCEPT !.refire = k]
  <2>1. k \in 0 .. REFIRE_CAP /\ k = IF v.refire = REFIRE_CAP THEN v.refire ELSE v.refire + 1
    BY PspriteBounds DEF Lesser, Good, Trigger
  <2>2. ReFire(v, fire) = FireWeapon(u) /\ EmittedReFire(f, fire) = EmittedFire(h)
    BY <1>1, <1>2, <1>3, <2>1 DEF ReFire, EmittedReFire
  <2> HIDE DEF k
  <2>3. Good(u) /\ Same(h, u, p) /\ Tuned(v, u) /\ u.sy = v.sy /\ u.dead = v.dead
    BY <2>1, RefireIs
  <2> HIDE DEF u, h
  <2>4. Follows(v, u)
    BY <1>1, <2>3, TunedFollows
  <2>5. Sent(u, FireWeapon(u), EmittedFire(h), p) /\ Short(FireWeapon(u).who, FireWeapon(u).sets)
    BY <1>1, <2>3, FireTurn
  <2> QED BY <2>2, <2>4, <2>5, SentAfter
<1>4. CASE ~(fire /\ v.pending = NOCHANGE)
  <2> DEFINE u == [v EXCEPT !.refire = 0]
             h == [f EXCEPT !.refire = 0]
  <2>1. ReFire(v, fire) = CheckAmmo(u) /\ EmittedReFire(f, fire) = EmittedCheckAmmo(h)
    BY <1>2, <1>4 DEF ReFire, EmittedReFire
  <2>2. 0 \in 0 .. REFIRE_CAP
    BY PspriteBounds
  <2>3. Good(u) /\ Same(h, u, p) /\ Tuned(v, u) /\ u.sy = v.sy /\ u.dead = v.dead /\ u.ready = v.ready
        /\ u.pending = v.pending
    BY <2>2, RefireIs
  <2> HIDE DEF u, h
  <2>4. Follows(v, u)
    BY <1>1, <2>3, TunedFollows
  <2>5. \/ CheckAmmo(u) = Stay(u) /\ EmittedCheckAmmo(h) = Fall(h)
        \/ Sent(u, CheckAmmo(u), EmittedCheckAmmo(h), p) /\ Short(CheckAmmo(u).who, CheckAmmo(u).sets)
    BY <1>1, <2>3, CheckTurn
  <2>6. CASE CheckAmmo(u) = Stay(u) /\ EmittedCheckAmmo(h) = Fall(h)
    BY <2>1, <2>3, <2>6 DEF Stay, Fall
  <2>7. CASE Sent(u, CheckAmmo(u), EmittedCheckAmmo(h), p) /\ Short(CheckAmmo(u).who, CheckAmmo(u).sets)
    BY <2>1, <2>4, <2>7, SentAfter
  <2> QED BY <2>5, <2>6, <2>7
<1> QED BY <1>3, <1>4

(***************************************************************************)
(* The loop's turns.                                                       *)
(***************************************************************************)
LEMMA LandedAfter ==
  ASSUME NEW v, NEW u, NEW r, NEW e, NEW p, Follows(v, u), Landed(u, r, e, p)
  PROVE  Landed(v, r, e, p)
BY FollowsIsTransitive DEF Landed

LEMMA PlainLands ==
  ASSUME NEW v, NEW f, NEW p, NEW s, NEW fire, Good(v), Enter(v, s), v.st = s, v.tics \in 1 .. 15,
         PlainTurn(v, f, p, s, fire), Action(s) \in Others \ {"A_WeaponReady", "A_ReFire"}
  PROVE  Landed(v, PspAction(v, Action(s), fire), EmittedAction(f, s, fire), p)
<1>1. PICK u, g : /\ PspAction(v, Action(s), fire) = Stay(u) /\ EmittedAction(f, s, fire) = Fall(g)
                  /\ Plain(v, u) /\ Good(u) /\ Same(g, u, p)
                  /\ ~Shoots(s) /\ Action(s) # "A_FireCGun" => u.ammo = v.ammo
  BY DEF PlainTurn
<1>2. v.dead # 1 /\ u.dead = v.dead
  <2>1. v.dead # 1
    BY DEF Enter, Pose, Others
  <2> QED BY <1>1, <2>1, UntouchedLeaves DEF Plain
<1>3. Shoots(Next_(s)) => Action(s) \in {"none", "A_GunFlash"}
  BY ReadyIsAWeapon, StatesAreTame DEF Good, Enter, Pose, Tame
<1>4. Shoots(Next_(s)) => EnoughAmmo(u)
  <2> SUFFICES ASSUME Shoots(Next_(s)) PROVE EnoughAmmo(u)
    OBVIOUS
  <2>1. u.ammo = v.ammo
    BY <1>1, <1>3 DEF Shoots
  <2> QED BY <1>1, <2>1 DEF Enter, Pose, EnoughAmmo, Plain
<1>5. Pose(u, s)
  BY <1>1, <1>2, <1>4 DEF Enter, Pose, Plain
<1>6. At(u)
  BY <1>1, <1>5 DEF At, Plain
<1>7. Follows(v, u)
  BY <1>1, <1>2 DEF Follows, Plain
<1> QED BY <1>1, <1>6, <1>7 DEF Landed, Stay, Fall

(* One turn, from any state he may enter.                                  *)
LEMMA TurnIs ==
  ASSUME NEW w, NEW f, NEW p, NEW s, NEW fire, Good(w), Same(f, w, p), Enter(w, s)
  PROVE  LET r == SetOnce(Sets(w, s), fire)
             e == WenBlock(Jump(f, s), fire)
         IN  /\ RaiseOutcome(w, r, e, p)
             /\ Short(w, s) => Landed(w, r, e, p)
             /\ Action(s) \in {"A_WeaponReady", "A_Lower"} => ReadyOutcome(w, r, e, p)
<1> DEFINE r == SetOnce(Sets(w, s), fire)
           e == WenBlock(Jump(f, s), fire)
           v == Placed(w, s)
           h == [f EXCEPT !.st = s, !.tics = Tics(s)]
           ran == PspAction(v, Action(s), fire)
           eran == EmittedAction(h, s, fire)
<1>1. /\ Good(v) /\ Follows(w, v) /\ Enter(v, s) /\ v.st = s /\ v.tics = Tics(s) /\ v.ready = w.ready
      /\ v.sy = w.sy /\ v.dead = w.dead
  BY PlacedIs
<1>2. Same(h, v, p)
  BY PlacedAlike
<1>3. Tame(w.ready, s)
  BY ReadyIsAWeapon, StatesAreTame DEF Good, Enter, Pose
<1>4. /\ s # Stays /\ s # S_NULL /\ Tics(s) \in 0 .. 12 /\ (Tics(s) = 0 <=> Raw(s) = 0)
      /\ Raw(s) = 0 => Action(s) = "A_ReFire"
  BY <1>3, TicsAre DEF Tame
<1>5. r = IF ran.sets # Stays \/ ran.who.tics # 0 THEN ran ELSE Sets(ran.who, Next_(ran.who.st))
  BY <1>4 DEF SetOnce, OnWhileNone, Sets, Placed
<1>6. e = IF eran.to # S_NULL \/ Tics(s) # 0 THEN eran ELSE Jump(eran.cells, Next_(s))
  BY <1>4 DEF WenBlock, JumpWhileNone, Jump
<1>7. Short(w, s) => Short(v, s)
  BY <1>1 DEF Short
<1> HIDE DEF r, e, v, h
<1>8. ASSUME Tics(s) # 0, Landed(v, ran, eran, p) PROVE r = ran /\ e = eran /\ Landed(w, r, e, p)
  <2>1. ran.who.tics # 0
    BY <1>8 DEF Landed, At
  <2> HIDE DEF ran, eran
  <2>2. r = ran /\ e = eran
    BY <1>5, <1>6, <1>8, <2>1
  <2> QED BY <1>1, <1>8, <2>2, LandedAfter
<1>9. ASSUME Sent(v, ran, eran, p) PROVE r = ran /\ e = eran /\ Sent(w, r, e, p)
  <2> HIDE DEF ran, eran
  <2>1. r = ran /\ e = eran
    BY <1>5, <1>6, <1>9 DEF Sent
  <2> QED BY <1>1, <1>9, <2>1, SentAfter
<1>10. CASE Action(s) \in Others \ {"A_WeaponReady", "A_ReFire"}
  <2>1. Tics(s) # 0 /\ v.tics \in 1 .. 15
    BY <1>1, <1>4, <1>10
  <2>2. Landed(v, ran, eran, p)
    BY <1>1, <1>2, <1>10, <2>1, OtherTurns, PlainLands
  <2>3. Landed(w, r, e, p)
    BY <1>8, <2>1, <2>2
  <2> HIDE DEF ran, eran
  <2> QED BY <2>3 DEF RaiseOutcome, ReadyOutcome, r, e
<1>11. CASE Action(s) = "A_WeaponReady"
  <2>1. Tics(s) # 0 /\ v.tics \in 1 .. 15
    BY <1>1, <1>4, <1>11
  <2>2. ran = WeaponReady(v, fire) /\ eran = EmittedReady(h, fire)
    BY <1>11 DEF PspAction, EmittedAction
  <2> HIDE DEF ran, eran
  <2>3. ReadyOutcome(v, ran, eran, p)
    BY <1>1, <1>2, <1>11, <2>1, <2>2, ReadyTurn
  <2>4. ReadyOutcome(w, r, e, p)
    BY <1>8, <1>9, <2>1, <2>3 DEF ReadyOutcome
  <2>5. ~Short(w, s)
    BY <1>11 DEF Short, Others
  <2> QED BY <2>4, <2>5 DEF RaiseOutcome, ReadyOutcome, r, e
<1>12. CASE Action(s) = "A_Lower"
  <2>1. Tics(s) # 0 /\ v.tics \in 1 .. 15
    BY <1>1, <1>4, <1>12
  <2>2. ran = Lower(v) /\ eran = EmittedLower(h)
    BY <1>12 DEF PspAction, EmittedAction
  <2> HIDE DEF ran, eran
  <2>3. ReadyOutcome(v, ran, eran, p) /\ (Short(v, s) => Landed(v, ran, eran, p))
    BY <1>1, <1>2, <1>12, <2>1, <2>2, LowerTurn
  <2>4. ReadyOutcome(w, r, e, p)
    BY <1>8, <1>9, <2>1, <2>3 DEF ReadyOutcome
  <2>5. Short(w, s) => Landed(w, r, e, p)
    BY <1>7, <1>8, <2>1, <2>3
  <2> QED BY <2>4, <2>5 DEF RaiseOutcome, ReadyOutcome, r, e
<1>13. CASE Action(s) = "A_Raise"
  <2>1. Tics(s) # 0 /\ v.tics \in 1 .. 15
    BY <1>1, <1>4, <1>13
  <2>2. ran = Raise(v) /\ eran = EmittedRaise(h)
    BY <1>13 DEF PspAction, EmittedAction
  <2> HIDE DEF ran, eran
  <2>3. RaiseOutcome(v, ran, eran, p) /\ (Short(v, s) => Landed(v, ran, eran, p))
    BY <1>1, <1>2, <1>13, <2>1, <2>2, RaiseTurn
  <2>4. RaiseOutcome(w, r, e, p)
    BY <1>8, <1>9, <2>1, <2>3 DEF RaiseOutcome
  <2>5. Short(w, s) => Landed(w, r, e, p)
    BY <1>7, <1>8, <2>1, <2>3
  <2> QED BY <1>13, <2>4, <2>5 DEF r, e
<1>14. CASE Action(s) = "A_ReFire"
  <2>1. ran = ReFire(v, fire) /\ eran = EmittedReFire(h, fire)
    BY <1>14 DEF PspAction, EmittedAction
  <2> HIDE DEF ran, eran
  <2>2. ~Short(w, s)
    BY <1>14 DEF Short, Others
  <2>3. \/ Sent(v, ran, eran, p) /\ Short(ran.who, ran.sets)
        \/ /\ ran.sets = Stays /\ eran.to = S_NULL /\ Good(ran.who) /\ Same(eran.cells, ran.who, p)
           /\ Tuned(v, ran.who) /\ ran.who.sy = v.sy /\ ran.who.ready = v.ready /\ ran.who.pending = v.pending
    BY <1>1, <1>2, <1>14, <2>1, ReFireTurn
  <2>4. CASE Sent(v, ran, eran, p) /\ Short(ran.who, ran.sets)
    BY <1>9, <1>14, <2>2, <2>4 DEF RaiseOutcome, r, e
  <2>5. CASE /\ ran.sets = Stays /\ eran.to = S_NULL /\ Good(ran.who) /\ Same(eran.cells, ran.who, p)
             /\ Tuned(v, ran.who) /\ ran.who.sy = v.sy /\ ran.who.ready = v.ready /\ ran.who.pending = v.pending
    <3> DEFINE u == ran.who
    <3>1. u.st = s /\ u.tics = Tics(s)
      BY <1>1, <2>5 DEF Tuned
    <3>2. Pose(v, v.st) /\ v.dead # 1 /\ u.dead = v.dead /\ v.sy = WEAPONTOP
      <4>1. v.dead # 1 /\ v.sy = WEAPONTOP
        BY <1>1, <1>14 DEF Enter, Pose, Moving
      <4>2. u.dead = v.dead
        BY <2>5, UntouchedLeaves DEF Tuned
      <4> QED BY <1>1, <4>1, <4>2 DEF Enter
    <3>3. CASE Tics(s) # 0
      <4>1. v.tics \in 1 .. 15
        BY <1>1, <1>4, <3>3
      <4>2. At(u) /\ Follows(v, u)
        BY <2>5, <3>2, <4>1, TunedStays
      <4>3. Landed(v, ran, eran, p)
        BY <2>5, <4>2 DEF Landed
      <4> QED BY <1>8, <1>14, <2>2, <3>3, <4>3 DEF RaiseOutcome, r, e
    <3>4. CASE Tics(s) = 0
      <4> DEFINE t == Next_(s)
      <4>1. r = Sets(u, t) /\ e = Jump(eran.cells, t)
        BY <1>5, <1>6, <2>5, <3>1, <3>4
      <4>2. Action(t) = "A_WeaponReady" /\ t \in WeaponStates[w.ready] /\ ~Shoots(Next_(t))
        BY <1>3, <1>4, <3>4 DEF Tame
      <4>3. t # Stays /\ t # S_NULL
        BY <4>2, ReadyIsAWeapon, StatesAreTame DEF Good, Tame
      <4> HIDE DEF t
      <4>4. u.ready = w.ready /\ u.sy = WEAPONTOP /\ u.dead # 1
        BY <1>1, <2>5, <3>2
      <4> HIDE DEF u
      <4>5. Enter(u, t)
        BY <4>2, <4>4, Screen DEF Enter, Pose, Moving, Shoots
      <4>6. Follows(v, u)
        BY <2>5, <3>2, TunedFollows DEF u
      <4>7. Sent(v, r, e, p)
        BY <2>5, <4>1, <4>3, <4>5, <4>6 DEF Sent, Sets, Jump, u
      <4>8. Sent(w, r, e, p)
        BY <1>1, <4>7, SentAfter
      <4>9. Action(r.sets) = "A_WeaponReady"
        BY <4>1, <4>2 DEF Sets
      <4> QED BY <1>14, <2>2, <4>8, <4>9 DEF RaiseOutcome, r, e
    <3> QED BY <3>3, <3>4
  <2> QED BY <2>3, <2>4, <2>5
<1>15. Action(s) \in Others \cup {"A_Lower", "A_Raise"}
  BY <1>3 DEF Tame, Moving
<1> QED BY <1>10, <1>11, <1>12, <1>13, <1>14, <1>15 DEF Others

(* After the third turn the psprite is set, in both.                       *)
LEMMA SetWeaponIs ==
  ASSUME NEW w, NEW f, NEW p, NEW s, NEW fire, Good(w), Same(f, w, p), Enter(w, s)
  PROVE  LET v == SetWeapon(w, s, fire)
         IN  Good(v) /\ At(v) /\ Follows(w, v) /\ Same(Wen(f, s, fire), v, p)
<1> DEFINE r1 == SetOnce(Sets(w, s), fire)
           e1 == WenBlock(Jump(f, s), fire)
           r2 == SetOnce(r1, fire)
           e2 == WenBlock(e1, fire)
           r3 == SetOnce(r2, fire)
           e3 == WenBlock(e2, fire)
<1>1. RaiseOutcome(w, r1, e1, p)
  BY TurnIs
<1>2. SetWeapon(w, s, fire) = r3.who /\ Wen(f, s, fire) = e3.cells
  BY DEF SetWeapon, Wen
<1> HIDE DEF r1, e1
<1>3. ASSUME NEW r, NEW e, Landed(w, r, e, p)
      PROVE  SetOnce(r, fire) = r /\ WenBlock(e, fire) = e
  BY <1>3 DEF Landed, SetOnce, WenBlock
<1>4. ASSUME NEW r, NEW e, Sent(w, r, e, p)
      PROVE  LET r0 == SetOnce(r, fire)
                 e0 == WenBlock(e, fire)
             IN  /\ Short(r.who, r.sets) => Landed(w, r0, e0, p)
                 /\ Action(r.sets) = "A_WeaponReady" => ReadyOutcome(w, r0, e0, p)
  <2> DEFINE u == r.who
             s0 == r.sets
             h == e.cells
             r0 == SetOnce(Sets(u, s0), fire)
             e0 == WenBlock(Jump(h, s0), fire)
  <2>1. SetOnce(r, fire) = r0 /\ WenBlock(e, fire) = e0
    BY <1>4 DEF Sent, SetOnce, WenBlock, Sets, Jump
  <2>2. Good(u) /\ Enter(u, s0) /\ Same(h, u, p) /\ Follows(w, u)
    BY <1>4 DEF Sent
  <2> HIDE DEF u, s0, h
  <2>3. /\ Short(u, s0) => Landed(u, r0, e0, p)
        /\ Action(s0) \in {"A_WeaponReady", "A_Lower"} => ReadyOutcome(u, r0, e0, p)
    BY <2>2, TurnIs
  <2> HIDE DEF r0, e0
  <2>4. Short(u, s0) => Landed(w, r0, e0, p)
    BY <2>2, <2>3, LandedAfter
  <2>5. Action(s0) = "A_WeaponReady" => ReadyOutcome(w, r0, e0, p)
    BY <2>2, <2>3, LandedAfter, SentAfter DEF ReadyOutcome
  <2> QED BY <2>1, <2>4, <2>5 DEF u, s0
<1>5. Landed(w, r3, e3, p)
  <2>1. CASE Landed(w, r1, e1, p)
    BY <1>3, <2>1
  <2>2. CASE Sent(w, r1, e1, p) /\ Short(r1.who, r1.sets)
    <3>1. Landed(w, r2, e2, p)
      BY <1>4, <2>2
    <3> HIDE DEF r2, e2
    <3> QED BY <1>3, <3>1
  <2>3. CASE Sent(w, r1, e1, p) /\ Action(r1.sets) = "A_WeaponReady"
    <3>1. ReadyOutcome(w, r2, e2, p)
      BY <1>4, <2>3
    <3> HIDE DEF r2, e2
    <3>2. CASE Landed(w, r2, e2, p)
      BY <1>3, <3>2
    <3>3. CASE Sent(w, r2, e2, p) /\ Short(r2.who, r2.sets)
      BY <1>4, <3>3
    <3> QED BY <3>1, <3>2, <3>3 DEF ReadyOutcome
  <2> QED BY <1>1, <2>1, <2>2, <2>3 DEF RaiseOutcome
<1> HIDE DEF r3, e3
<1> QED BY <1>2, <1>5 DEF Landed

(***************************************************************************)
(* A pass of P_MovePsprites, and the frame's passes.                       *)
(***************************************************************************)
LEMMA OnlyTheFlash ==
  ASSUME NEW w, NEW u, Good(w), At(w), DOMAIN u = DOMAIN w, Glow(u),
         \A x \in Fields \ {"fst", "ftics"} : u[x] = w[x]
  PROVE  Good(u) /\ At(u) /\ Follows(w, u)
<1>1. /\ u.st = w.st /\ u.tics = w.tics /\ u.sy = w.sy /\ u.ready = w.ready /\ u.pending = w.pending
      /\ u.refire = w.refire /\ u.attackdown = w.attackdown /\ u.ammo = w.ammo /\ u.rng = w.rng
      /\ u.owned = w.owned /\ u.dead = w.dead
  BY FieldsAre
<1>2. Untouched(w, u)
  BY DEF Untouched, Kept
<1>3. Owns(u) /\ Trigger(u) /\ u.ammo \in [Ammo -> Nat] /\ (\A a \in Ammo : u.ammo[a] <= w.ammo[a])
  BY <1>1 DEF Good, Owns, Trigger, Mags
<1>4. Good(u)
  BY <1>2, <1>3, UntouchedKeeps
<1>5. At(u)
  BY <1>1 DEF At, Pose, EnoughAmmo
<1>6. w.sy \in Int
  BY Screen DEF At, Pose
<1> QED BY <1>1, <1>2, <1>4, <1>5, <1>6 DEF Follows

LEMMA MoveFlashIs ==
  ASSUME NEW w, NEW f, NEW p, Good(w), At(w), Same(f, w, p)
  PROVE  LET v == MoveFlash(w)
         IN  Good(v) /\ At(v) /\ Follows(w, v) /\ Same(EmittedFlash(f), v, p)
<1>1. f.fst = w.fst /\ f.ftics = w.ftics
  BY SameReads
<1>2. CASE w.fst = S_NULL
  <2>1. MoveFlash(w) = w /\ EmittedFlash(f) = f
    BY <1>1, <1>2 DEF MoveFlash, EmittedFlash
  <2>2. Follows(w, w)
    BY Screen DEF Follows, Untouched, At, Pose
  <2> QED BY <2>1, <2>2
<1>3. CASE w.fst # S_NULL
  <2>1. w.fst \in FlashStates /\ w.ftics \in 1 .. 15 /\ Next_(w.fst) \in FlashStates \cup {"S_LIGHTDONE"}
    <3>1. w.fst \in FlashStates /\ w.ftics \in 1 .. 15
      BY <1>3 DEF Good, Glow
    <3> QED BY <3>1, FlashesAreTame
  <2> DEFINE k == w.ftics - 1
             u == [w EXCEPT !.ftics = k]
             h == [f EXCEPT !.ftics = k]
             t == Next_(w.fst)
  <2>2. k \in 0 .. 14 /\ k % 16 = k /\ (k = 0 <=> w.ftics = 1)
    BY <2>1
  <2>3. [f EXCEPT !.ftics = (f.ftics - 1) % 16] = h
    BY <1>1, <2>2
  <2>4. h.ftics = k
    BY FieldsAre DEF Same
  <2>5. EmittedFlash(f) = IF k = 0 THEN Fen(h, t) ELSE h
    <3> HIDE DEF h, k
    <3> QED BY <1>1, <1>3, <2>3, <2>4 DEF EmittedFlash
  <2>6. MoveFlash(w) = IF k = 0 THEN SetFlash(u, t) ELSE u
    <3>1. CASE w.ftics = 1
      <4>1. [w EXCEPT !.ftics = 0] = u
        BY <3>1
      <4> HIDE DEF u, k
      <4> QED BY <1>3, <2>2, <3>1, <4>1 DEF MoveFlash
    <3>2. CASE w.ftics # 1
      <4> HIDE DEF k
      <4>1. k # 0
        BY <2>2, <3>2
      <4> QED BY <1>3, <3>2, <4>1 DEF MoveFlash, k
    <3> QED BY <3>1, <3>2
  <2> HIDE DEF k
  <2>7. DOMAIN u = Fields /\ u.ftics = k /\ (\A x \in Fields \ {"ftics"} : u[x] = w[x]) /\ Same(h, u, p)
    <3>1. DOMAIN u = Fields /\ u.ftics = k /\ (\A x \in Fields \ {"ftics"} : u[x] = w[x])
      BY FieldsAre DEF Good
    <3>2. Same(h, u, p)
      BY FieldsAre DEF Good, Same
    <3> QED BY <3>1, <3>2
  <2> HIDE DEF u, h, t
  <2>8. CASE k = 0
    <3>1. t \in FlashStates \cup {"S_LIGHTDONE"}
      BY <2>1 DEF t
    <3> DEFINE x == SetFlash(u, t)
    <3>2. DOMAIN x = Fields /\ Glow(x) /\ (\A y \in Fields \ {"fst", "ftics"} : x[y] = u[y])
      BY <2>7, <3>1, SetFlashIs DEF Untouched
    <3>3. Same(Fen(h, t), x, p)
      BY <2>7, <3>1, FenIsSetFlash
    <3> HIDE DEF x
    <3>4. \A y \in Fields \ {"fst", "ftics"} : x[y] = w[y]
      BY <2>7, <3>2
    <3>5. Good(x) /\ At(x) /\ Follows(w, x)
      BY <3>2, <3>4, OnlyTheFlash DEF Good
    <3> QED BY <2>5, <2>6, <2>8, <3>3, <3>5 DEF x
  <2>9. CASE k # 0
    <3>1. u.fst = w.fst
      BY <2>7, FieldsAre
    <3>2. Glow(u)
      BY <2>1, <2>2, <2>7, <2>9, <3>1 DEF Glow
    <3>3. Good(u) /\ At(u) /\ Follows(w, u)
      BY <2>7, <3>2, OnlyTheFlash DEF Good
    <3> QED BY <2>5, <2>6, <2>7, <2>9, <3>3
  <2> QED BY <2>8, <2>9
<1> QED BY <1>2, <1>3

LEMMA MoveWeaponIs ==
  ASSUME NEW w, NEW f, NEW p, NEW fire, Good(w), At(w), Same(f, w, p)
  PROVE  LET v == MoveWeapon(w, fire)
         IN  Good(v) /\ At(v) /\ Follows(w, v) /\ Same(EmittedWeapon_(f, fire), v, p)
<1>1. f.st = w.st /\ f.tics = w.tics
  BY SameReads
<1>2. w.st # S_NULL /\ w.tics \in 1 .. 15
  BY ReadyIsAWeapon, StatesAreTame DEF Good, At, Pose, Tame
<1> DEFINE k == w.tics - 1
           u == [w EXCEPT !.tics = k]
           h == [f EXCEPT !.tics = k]
           t == Next_(w.st)
<1>3. k \in 0 .. 14 /\ k % 16 = k /\ (k = 0 <=> w.tics = 1)
  BY <1>2
<1>4. [f EXCEPT !.tics = (f.tics - 1) % 16] = h
  BY <1>1, <1>3
<1>5. h.tics = k
  BY FieldsAre DEF Same
<1>6. EmittedWeapon_(f, fire) = IF k = 0 THEN Wen(h, t, fire) ELSE h
  <2> HIDE DEF h, k
  <2> QED BY <1>1, <1>2, <1>4, <1>5 DEF EmittedWeapon_
<1>7. MoveWeapon(w, fire) = IF k = 0 THEN SetWeapon(u, t, fire) ELSE u
  <2>1. CASE w.tics = 1
    <3>1. [w EXCEPT !.tics = 0] = u
      BY <2>1
    <3> HIDE DEF u, k
    <3> QED BY <1>2, <1>3, <2>1, <3>1 DEF MoveWeapon
  <2>2. CASE w.tics # 1
    <3> HIDE DEF k
    <3>1. k # 0
      BY <1>3, <2>2
    <3> QED BY <1>2, <2>2, <3>1 DEF MoveWeapon, k
  <2> QED BY <2>1, <2>2
<1> HIDE DEF k
<1>8. DOMAIN u = Fields /\ u.tics = k /\ (\A x \in Fields \ {"tics"} : u[x] = w[x])
  BY FieldsAre DEF Good
<1>9. Same(h, u, p)
  BY FieldsAre DEF Good, Same
<1> HIDE DEF u, h
<1>10. /\ u.st = w.st /\ u.sy = w.sy /\ u.ready = w.ready /\ u.pending = w.pending
       /\ u.refire = w.refire /\ u.attackdown = w.attackdown /\ u.ammo = w.ammo /\ u.rng = w.rng
       /\ u.owned = w.owned /\ u.dead = w.dead /\ u.fst = w.fst /\ u.ftics = w.ftics
  BY <1>8, FieldsAre
<1>11. Untouched(w, u)
  BY <1>8 DEF Untouched, Kept, Good
<1>12. /\ Owns(u) /\ Trigger(u) /\ Glow(u) /\ u.ammo \in [Ammo -> Nat]
       /\ \A a \in Ammo : u.ammo[a] <= w.ammo[a]
  BY <1>10 DEF Good, Owns, Trigger, Mags, Glow
<1>13. Good(u)
  BY <1>11, <1>12, UntouchedKeeps
<1>14. w.sy \in Int
  BY Screen DEF At, Pose
<1>15. Follows(w, u)
  BY <1>10, <1>11, <1>14 DEF Follows
<1>16. Pose(u, w.st) /\ Enter(u, t)
  <2>1. Enter(w, t)
    BY NextIsEntered
  <2> HIDE DEF t
  <2>2. Enter(u, t)
    BY <1>10, <2>1 DEF Enter, Pose, EnoughAmmo
  <2>3. Pose(u, w.st)
    BY <1>10 DEF At, Pose, EnoughAmmo
  <2> QED BY <2>2, <2>3
<1> HIDE DEF t
<1>17. CASE k = 0
  <2>1. LET v == SetWeapon(u, t, fire)
        IN  Good(v) /\ At(v) /\ Follows(u, v) /\ Same(Wen(h, t, fire), v, p)
    BY <1>9, <1>13, <1>16, SetWeaponIs
  <2> QED BY <1>6, <1>7, <1>15, <1>17, <2>1, FollowsIsTransitive
<1>18. CASE k # 0
  <2>1. At(u)
    BY <1>3, <1>8, <1>10, <1>16, <1>18 DEF At
  <2> QED BY <1>6, <1>7, <1>9, <1>13, <1>15, <1>18, <2>1
<1> QED BY <1>17, <1>18

LEMMA MovePspritesIs ==
  ASSUME NEW w, NEW f, NEW p, NEW fire, Good(w), At(w), Same(f, w, p)
  PROVE  LET v == MovePsprites(w, fire)
         IN  Good(v) /\ At(v) /\ Follows(w, v) /\ Same(EmittedFlash(EmittedWeapon_(f, fire)), v, p)
<1> DEFINE u == MoveWeapon(w, fire)
           h == EmittedWeapon_(f, fire)
           v == MoveFlash(u)
<1>1. Good(u) /\ At(u) /\ Follows(w, u) /\ Same(h, u, p)
  BY MoveWeaponIs
<1>2. MovePsprites(w, fire) = v
  BY DEF MovePsprites
<1> HIDE DEF u, h
<1>3. Good(v) /\ At(v) /\ Follows(u, v) /\ Same(EmittedFlash(h), v, p)
  BY <1>1, MoveFlashIs
<1> HIDE DEF v
<1>4. Follows(w, v)
  BY <1>1, <1>3, FollowsIsTransitive
<1> QED BY <1>2, <1>3, <1>4 DEF h

(* A set that holds 0 and, with a number's predecessor, the number.        *)
LEMMA CountUp ==
  ASSUME NEW N \in Nat, NEW T, 0 \in T, \A n \in 1 .. N : n - 1 \in T => n \in T
  PROVE  \A n \in 0 .. N : n \in T
<1> DEFINE Bad == {n \in 0 .. N : n \notin T}
<1> SUFFICES ASSUME Bad # {} PROVE FALSE
  OBVIOUS
<1>1. Bad \subseteq Nat
  OBVIOUS
<1>2. PICK m \in Bad : \A k \in Bad : <<k, m>> \notin OpToRel(<, Nat)
  <2> HIDE DEF Bad
  <2> QED BY <1>1, WFMin, NatLessThanWellFounded
<1>3. m \in 1 .. N /\ m - 1 \in 0 .. N
  OBVIOUS
<1>4. m - 1 \notin T
  BY <1>2, <1>3
<1>5. m - 1 \in Bad
  BY <1>3, <1>4
<1>6. <<m - 1, m>> \in OpToRel(<, Nat)
  BY <1>3 DEF OpToRel
<1> QED BY <1>2, <1>5, <1>6

(* One pass, the model's or the emitted code's.                            *)
Pass(emitted, v, fire) == IF emitted THEN EmittedFlash(EmittedWeapon_(v, fire)) ELSE MovePsprites(v, fire)
Passes(h, m, emitted, start, fire) ==
  h = [n \in 0 .. m |-> IF n = 0 THEN start ELSE Pass(emitted, h[n - 1], fire)]

LEMMA PassesExist ==
  ASSUME NEW N \in Nat, NEW emitted, NEW start, NEW fire
  PROVE  \E h : Passes(h, N, emitted, start, fire)
<1> DEFINE Runs(h, m) == Passes(h, m, emitted, start, fire)
           T == {m \in 0 .. N : \E h : Runs(h, m)}
<1>1. 0 \in T
  <2>1. Runs([n \in 0 .. 0 |-> start], 0)
    BY DEF Passes
  <2> HIDE DEF Runs
  <2> QED BY <2>1
<1>2. ASSUME NEW m \in 1 .. N, m - 1 \in T
      PROVE  m \in T
  <2>1. PICK h : Runs(h, m - 1)
    BY <1>2
  <2> DEFINE g == [n \in 0 .. m |-> IF n = m THEN Pass(emitted, h[m - 1], fire) ELSE h[n]]
  <2>2. ASSUME NEW n \in 0 .. m
        PROVE  g[n] = IF n = 0 THEN start ELSE Pass(emitted, g[n - 1], fire)
    <3>1. CASE n = m
      <4>1. g[n - 1] = h[m - 1] /\ n # 0
        BY <3>1
      <4> QED BY <3>1, <4>1
    <3>2. CASE n # m
      <4>1. n \in 0 .. m - 1 /\ g[n] = h[n]
        BY <3>2
      <4>2. h[n] = IF n = 0 THEN start ELSE Pass(emitted, h[n - 1], fire)
        BY <2>1, <4>1 DEF Passes
      <4>3. n # 0 => g[n - 1] = h[n - 1]
        BY <4>1
      <4> QED BY <4>1, <4>2, <4>3
    <3> QED BY <3>1, <3>2
  <2>3. Runs(g, m)
    <3> DEFINE b(n) == IF n = 0 THEN start ELSE Pass(emitted, g[n - 1], fire)
    <3>1. \A n \in 0 .. m : g[n] = b(n)
      BY <2>2
    <3>2. g = [n \in 0 .. m |-> g[n]]
      OBVIOUS
    <3> HIDE DEF g
    <3>3. g = [n \in 0 .. m |-> b(n)]
      <4> HIDE DEF b
      <4> QED BY <3>1, <3>2
    <3> QED BY <3>3 DEF Passes
  <2> HIDE DEF Runs, g
  <2> QED BY <2>3
<1>3. N \in T
  <2>1. N \in 0 .. N
    OBVIOUS
  <2> HIDE DEF T
  <2> QED BY <1>1, <1>2, <2>1, CountUp
<1>4. \E h : Runs(h, N)
  <2> HIDE DEF Runs
  <2> QED BY <1>3
<1> QED BY <1>4

LEMMA WeaponTicsAre ==
  ASSUME NEW w, NEW fire
  PROVE  \E h : Passes(h, WEAPON_TICS, FALSE, w, fire) /\ WeaponTics(w, fire) = h[WEAPON_TICS]
<1> DEFINE after == CHOOSE after : after = [n \in 0 .. WEAPON_TICS |->
                                              IF n = 0 THEN w ELSE MovePsprites(after[n - 1], fire)]
<1>1. WEAPON_TICS \in Nat
  BY PspriteBounds
<1>2. \E h : h = [n \in 0 .. WEAPON_TICS |-> IF n = 0 THEN w ELSE MovePsprites(h[n - 1], fire)]
  <2>1. PICK h : Passes(h, WEAPON_TICS, FALSE, w, fire)
    BY <1>1, PassesExist
  <2>2. h = [n \in 0 .. WEAPON_TICS |-> IF n = 0 THEN w ELSE MovePsprites(h[n - 1], fire)]
    BY <2>1 DEF Passes, Pass
  <2> QED BY <2>2
<1>3. after = [n \in 0 .. WEAPON_TICS |-> IF n = 0 THEN w ELSE MovePsprites(after[n - 1], fire)]
  BY <1>2
<1>4. WeaponTics(w, fire) = after[WEAPON_TICS]
  BY DEF WeaponTics
<1> HIDE DEF after
<1>5. Passes(after, WEAPON_TICS, FALSE, w, fire)
  BY <1>3 DEF Passes, Pass
<1> QED BY <1>4, <1>5

LEMMA EmittedTicsAre ==
  ASSUME NEW f, NEW fire
  PROVE  \E h : Passes(h, WEAPON_TICS, TRUE, f, fire) /\ EmittedTics(f, fire) = h[WEAPON_TICS]
<1> DEFINE pass == CHOOSE pass : pass = [n \in 0 .. WEAPON_TICS |->
                                           IF n = 0 THEN f ELSE EmittedFlash(EmittedWeapon_(pass[n - 1], fire))]
<1>1. WEAPON_TICS \in Nat
  BY PspriteBounds
<1>2. \E h : h = [n \in 0 .. WEAPON_TICS |-> IF n = 0 THEN f ELSE EmittedFlash(EmittedWeapon_(h[n - 1], fire))]
  <2>1. PICK h : Passes(h, WEAPON_TICS, TRUE, f, fire)
    BY <1>1, PassesExist
  <2>2. h = [n \in 0 .. WEAPON_TICS |-> IF n = 0 THEN f ELSE EmittedFlash(EmittedWeapon_(h[n - 1], fire))]
    BY <2>1 DEF Passes, Pass
  <2> QED BY <2>2
<1>3. pass = [n \in 0 .. WEAPON_TICS |-> IF n = 0 THEN f ELSE EmittedFlash(EmittedWeapon_(pass[n - 1], fire))]
  BY <1>2
<1>4. EmittedTics(f, fire) = pass[WEAPON_TICS]
  BY DEF EmittedTics
<1> HIDE DEF pass
<1>5. Passes(pass, WEAPON_TICS, TRUE, f, fire)
  BY <1>3 DEF Passes, Pass
<1> QED BY <1>4, <1>5

(* The frame's passes keep all of it, cell for cell.                       *)
LEMMA TicsKeep ==
  ASSUME NEW w, NEW f, NEW p, NEW fire, Good(w), At(w), Same(f, w, p)
  PROVE  LET v == WeaponTics(w, fire)
         IN  Good(v) /\ At(v) /\ Follows(w, v) /\ Same(EmittedTics(f, fire), v, p)
<1>0. WEAPON_TICS \in Nat
  BY PspriteBounds
<1>1. PICK h : Passes(h, WEAPON_TICS, FALSE, w, fire) /\ WeaponTics(w, fire) = h[WEAPON_TICS]
  BY WeaponTicsAre
<1>2. PICK g : Passes(g, WEAPON_TICS, TRUE, f, fire) /\ EmittedTics(f, fire) = g[WEAPON_TICS]
  BY EmittedTicsAre
<1> DEFINE Kp(n) == Good(h[n]) /\ At(h[n]) /\ Follows(w, h[n]) /\ Same(g[n], h[n], p)
           T == {n \in 0 .. WEAPON_TICS : Kp(n)}
<1>3. 0 \in T
  <2>1. h[0] = w /\ g[0] = f /\ 0 \in 0 .. WEAPON_TICS
    BY <1>0, <1>1, <1>2 DEF Passes
  <2>2. Follows(w, w)
    BY Screen DEF Follows, Untouched, At, Pose
  <2> QED BY <2>1, <2>2
<1>4. ASSUME NEW n \in 1 .. WEAPON_TICS, n - 1 \in T
      PROVE  n \in T
  <2> DEFINE u == h[n - 1]
             y == g[n - 1]
  <2>1. h[n] = MovePsprites(u, fire) /\ g[n] = EmittedFlash(EmittedWeapon_(y, fire)) /\ n \in 0 .. WEAPON_TICS
    BY <1>0, <1>1, <1>2 DEF Passes, Pass
  <2>2. Good(u) /\ At(u) /\ Follows(w, u) /\ Same(y, u, p)
    BY <1>4
  <2> HIDE DEF u, y
  <2>3. Kp(n)
    BY <2>1, <2>2, MovePspritesIs, FollowsIsTransitive
  <2> HIDE DEF Kp
  <2> QED BY <2>1, <2>3
<1>5. WEAPON_TICS \in T
  <2>1. WEAPON_TICS \in 0 .. WEAPON_TICS
    BY <1>0
  <2> HIDE DEF T
  <2> QED BY <1>0, <1>3, <1>4, <2>1, CountUp
<1> QED BY <1>1, <1>2, <1>5

(***************************************************************************)
(* Damage, and the death's weapon.                                         *)
(***************************************************************************)
SaveOf(w, dmg)  == IF w.armortype = 0 THEN 0 ELSE IF w.armortype = 1 THEN dmg \div 3 ELSE dmg \div 2
UsedUp(w, dmg)  == w.armortype # 0 /\ w.armor <= SaveOf(w, dmg)
SavedOf(w, dmg) == IF UsedUp(w, dmg) THEN w.armor ELSE SaveOf(w, dmg)

LEMMA SavedIs ==
  ASSUME NEW w, Good(w), NEW dmg \in 1 .. 255
  PROVE  /\ SavedOf(w, dmg) \in 0 .. dmg /\ SavedOf(w, dmg) <= w.armor /\ w.armor \in Nat
         /\ UsedUp(w, dmg) => SavedOf(w, dmg) = w.armor
         /\ ~UsedUp(w, dmg) => (w.armortype = 0 /\ SavedOf(w, dmg) = 0) \/ SavedOf(w, dmg) < w.armor
<1>1. w.armor \in Nat /\ w.armortype \in {0, 1, 2}
  BY InventoryBounds DEF Good, Flesh
<1>2. dmg \div 3 \in 0 .. dmg /\ dmg \div 2 \in 0 .. dmg
  OBVIOUS
<1> DEFINE d3 == dmg \div 3
           d2 == dmg \div 2
           a == w.armor
<1>3. SaveOf(w, dmg) = IF w.armortype = 0 THEN 0 ELSE IF w.armortype = 1 THEN d3 ELSE d2
  BY DEF SaveOf
<1>4. d3 \in 0 .. dmg /\ d2 \in 0 .. dmg /\ a \in Nat
  BY <1>1, <1>2
<1> HIDE DEF d3, d2
<1>5. SaveOf(w, dmg) \in 0 .. dmg /\ (w.armortype = 0 => SaveOf(w, dmg) = 0)
  BY <1>3, <1>4
<1> QED BY <1>1, <1>5 DEF UsedUp, SavedOf

(* The player struck, before it is asked whether he lives.                 *)
Struck(w, dmg, source) ==
  Draw([w EXCEPT !.armortype = IF UsedUp(w, dmg) THEN 0 ELSE @, !.armor = @ - SavedOf(w, dmg),
                 !.attacker = source, !.dc = Lesser(DC_CAP, @ + dmg - SavedOf(w, dmg)),
                 !.health = @ - (dmg - SavedOf(w, dmg))], 1)

Slain(w) == IF w.health <= 0 THEN [w EXCEPT !.dead = 1] ELSE w

LEMMA StruckIs ==
  ASSUME NEW w, Good(w), w.dead # 1, NEW dmg \in 1 .. 255, NEW source
  PROVE  LET x == Struck(w, dmg, source)
         IN  /\ DOMAIN x = Fields /\ x.health \in Int /\ x.health >= w.health - dmg
             /\ (x.health > 0 => Good(x)) /\ Good(Slain(x))
             /\ \A y \in Fields \ {"armortype", "armor", "attacker", "dc", "health", "rng"} : x[y] = w[y]
<1> DEFINE sv == SavedOf(w, dmg)
           ty == IF UsedUp(w, dmg) THEN 0 ELSE w.armortype
           ar == w.armor - sv
           dc == Lesser(DC_CAP, w.dc + dmg - sv)
           he == w.health - (dmg - sv)
           rn == (w.rng + 1) % RNG
           z == [w EXCEPT !.armortype = ty, !.armor = ar, !.attacker = source, !.dc = dc, !.health = he]
           x == [z EXCEPT !.rng = rn]
           d == Slain(x)
<1>1. Struck(w, dmg, source) = x
  <2>1. z.rng = w.rng
    BY FieldsAre DEF Good
  <2>2. Struck(w, dmg, source) = Draw(z, 1)
    BY DEF Struck
  <2> HIDE DEF z
  <2> QED BY <2>1, <2>2 DEF Draw
<1>2. sv \in 0 .. dmg /\ sv <= w.armor /\ w.armor \in Nat
      /\ (UsedUp(w, dmg) => sv = w.armor) /\ (~UsedUp(w, dmg) => (w.armortype = 0 /\ sv = 0) \/ sv < w.armor)
  BY SavedIs
<1>3. w.health \in Int /\ 0 < w.health /\ w.health <= 2 * MAXHEALTH /\ w.armortype \in 0 .. 2
      /\ (w.armortype = 0 <=> w.armor = 0) /\ w.armor <= 2 * ARMOR /\ w.dc \in Nat
  BY PlayerBounds, InventoryBounds DEF Good, Flesh, Counts
<1>4. rn \in 0 .. RNG - 1
  <2>1. w.rng + 1 \in Int /\ RNG \in Nat \ {0}
    BY PspriteBounds DEF Good, Trigger
  <2> QED BY <2>1, ModIs
<1>5. he \in Int /\ he >= w.health - dmg /\ -255 <= he /\ he <= 2 * MAXHEALTH
  <2> HIDE DEF sv
  <2> QED BY <1>2, <1>3, InventoryBounds
<1>6. dc \in 0 .. DC_CAP
  <2>1. DC_CAP \in Nat
    BY PlayerBounds
  <2>2. w.dc + dmg - sv \in Nat
    BY <1>2, <1>3
  <2> HIDE DEF sv
  <2> QED BY <2>1, <2>2 DEF Lesser
<1>7. ar \in 0 .. 2 * ARMOR /\ ty \in 0 .. 2 /\ (ty = 0 <=> ar = 0)
  <2> HIDE DEF sv
  <2> QED BY <1>2, <1>3, InventoryBounds
<1> HIDE DEF sv, ty, ar, dc, he, rn
<1>8. /\ DOMAIN x = Fields /\ x.health = he /\ x.armor = ar /\ x.armortype = ty /\ x.dc = dc /\ x.rng = rn
      /\ \A y \in Fields \ {"armortype", "armor", "attacker", "dc", "health", "rng"} : x[y] = w[y]
  BY FieldsAre DEF Good
<1> HIDE DEF x
<1>9. /\ DOMAIN d = Fields /\ d.health = he /\ d.armor = ar /\ d.armortype = ty /\ d.dc = dc /\ d.rng = rn
      /\ d.dead = IF he <= 0 THEN 1 ELSE w.dead
      /\ \A y \in Fields \ {"armortype", "armor", "attacker", "dc", "health", "rng", "dead"} : d[y] = w[y]
  <2>1. x.dead = w.dead
    BY <1>8, FieldsAre
  <2>2. CASE he <= 0
    <3>1. d = [x EXCEPT !.dead = 1]
      BY <1>8, <2>2 DEF Slain
    <3> HIDE DEF d
    <3> QED BY <1>8, <2>2, <3>1, FieldsAre
  <2>3. CASE ~(he <= 0)
    <3>1. d = x
      BY <1>8, <2>3 DEF Slain
    <3> HIDE DEF d
    <3> QED BY <1>8, <2>1, <2>3, <3>1
  <2> QED BY <2>2, <2>3
<1> HIDE DEF d
<1>10. /\ d.owned = w.owned /\ d.ready = w.ready /\ d.pending = w.pending /\ d.backpack = w.backpack
       /\ d.ammo = w.ammo /\ d.restart = w.restart /\ d.cards = w.cards /\ d.items = w.items
       /\ d.strength = w.strength /\ d.ironfeet = w.ironfeet /\ d.bonuscount = w.bonuscount
       /\ d.vdrop = w.vdrop /\ d.usedown = w.usedown /\ d.used = w.used /\ d.refire = w.refire
       /\ d.attackdown = w.attackdown /\ d.fst = w.fst /\ d.ftics = w.ftics
  BY <1>9, FieldsAre
<1>11. Owns(d) /\ Glow(d)
  BY <1>10 DEF Good, Owns, Glow
<1>12. Mags(d)
  BY <1>10 DEF Good, Mags, MaxAmmo
<1>13. Flesh(d)
  BY <1>3, <1>5, <1>7, <1>9, <1>10 DEF Good, Flesh
<1>14. Counts(d) /\ Trigger(d)
  BY <1>4, <1>6, <1>9, <1>10 DEF Good, Counts, Trigger
<1>15. Good(d)
  BY <1>9, <1>11, <1>12, <1>13, <1>14 DEF Good
<1>16. x.health > 0 => d = x
  BY <1>5, <1>8 DEF d, Slain
<1> QED BY <1>1, <1>5, <1>8, <1>15, <1>16 DEF d

(***************************************************************************)
(* The emitted kill's numbering of the states, on a map without a rifle.   *)
(***************************************************************************)
LEMMA JoinedAre ==
  ASSUME NEW S, NEW s, NEW t, s \in Seq(S), t \in Seq(S)
  PROVE  \A i \in 1 .. Len(s) + Len(t) : (s \o t)[i] = IF i <= Len(s) THEN s[i] ELSE t[i - Len(s)]
BY ConcatProperties

LEMMA JoinedOver ==
  ASSUME NEW S, NEW s, NEW t, s \in Seq(S), t \in Seq(S)
  PROVE  DOMAIN (s \o t) = 1 .. Len(s) + Len(t)
<1> DEFINE u == s \o t
<1>1. u \in Seq(S)
  BY ConcatProperties
<1>2. Len(u) = Len(s) + Len(t)
  BY ConcatProperties
<1> HIDE DEF u
<1>3. DOMAIN u = 1 .. Len(u)
  BY <1>1, LenProperties
<1>4. DOMAIN u = 1 .. Len(s) + Len(t)
  BY <1>2, <1>3
<1> QED BY <1>4 DEF u

LEMMA JoinedNone ==
  ASSUME NEW S, NEW s \in Seq(S)
  PROVE  s \o << >> = s
BY ConcatEmptySeq

LEMMA DownIsNumbered ==
  ASSUME NEW g \in Weapon \ {"plasma"}
  PROVE  LET d == WEAPONINFO[g].down IN LocalStates(FALSE)[Numbered(FALSE, d)] = d
<1> DEFINE first == << S_NULL, "S_LIGHTDONE", "S_PUNCH", "S_PUNCHDOWN", "S_PUNCHUP", "S_PUNCH1", "S_PUNCH2", "S_PUNCH3",
     "S_PUNCH4", "S_PUNCH5", "S_PISTOL", "S_PISTOLDOWN", "S_PISTOLUP", "S_PISTOL1", "S_PISTOL2",
     "S_PISTOL3", "S_PISTOL4", "S_PISTOLFLASH", "S_SGUN", "S_SGUNDOWN", "S_SGUNUP", "S_SGUN1", "S_SGUN2",
     "S_SGUN3", "S_SGUN4", "S_SGUN5", "S_SGUN6", "S_SGUN7", "S_SGUN8", "S_SGUN9", "S_SGUNFLASH1",
     "S_SGUNFLASH2", "S_SAW", "S_SAWB", "S_SAWDOWN", "S_SAWUP", "S_SAW1", "S_SAW2", "S_SAW3" >>
           last == << "S_MISSILE", "S_MISSILEDOWN", "S_MISSILEUP", "S_MISSILE1", "S_MISSILE2", "S_MISSILE3",
        "S_MISSILEFLASH1", "S_MISSILEFLASH2", "S_MISSILEFLASH3", "S_MISSILEFLASH4", "S_CHAIN",
        "S_CHAINDOWN", "S_CHAINUP", "S_CHAIN1", "S_CHAIN2", "S_CHAIN3", "S_CHAINFLASH1", "S_CHAINFLASH2" >>
           fset == { S_NULL, "S_LIGHTDONE", "S_PUNCH", "S_PUNCHDOWN", "S_PUNCHUP", "S_PUNCH1", "S_PUNCH2", "S_PUNCH3",
     "S_PUNCH4", "S_PUNCH5", "S_PISTOL", "S_PISTOLDOWN", "S_PISTOLUP", "S_PISTOL1", "S_PISTOL2",
     "S_PISTOL3", "S_PISTOL4", "S_PISTOLFLASH", "S_SGUN", "S_SGUNDOWN", "S_SGUNUP", "S_SGUN1", "S_SGUN2",
     "S_SGUN3", "S_SGUN4", "S_SGUN5", "S_SGUN6", "S_SGUN7", "S_SGUN8", "S_SGUN9", "S_SGUNFLASH1",
     "S_SGUNFLASH2", "S_SAW", "S_SAWB", "S_SAWDOWN", "S_SAWUP", "S_SAW1", "S_SAW2", "S_SAW3" }
           lset == { "S_MISSILE", "S_MISSILEDOWN", "S_MISSILEUP", "S_MISSILE1", "S_MISSILE2", "S_MISSILE3",
        "S_MISSILEFLASH1", "S_MISSILEFLASH2", "S_MISSILEFLASH3", "S_MISSILEFLASH4", "S_CHAIN",
        "S_CHAINDOWN", "S_CHAINUP", "S_CHAIN1", "S_CHAIN2", "S_CHAIN3", "S_CHAINFLASH1", "S_CHAINFLASH2" }
           S == fset \cup lset
<1>1. LocalStates(FALSE) = first \o <<>> \o last
  BY DEF LocalStates
<1>2. first \in Seq(fset) /\ Len(first) = 39
  <2>1. Len(first) = 39
    OBVIOUS
  <2>2. first \in Seq(fset)
    OBVIOUS
  <2> QED BY <2>1, <2>2
<1>3. first[4] = "S_PUNCHDOWN" /\ first[12] = "S_PISTOLDOWN" /\ first[20] = "S_SGUNDOWN" /\ first[35] = "S_SAWDOWN"
  <2>1. first[4] = "S_PUNCHDOWN" /\ first[12] = "S_PISTOLDOWN"
    OBVIOUS
  <2>2. first[20] = "S_SGUNDOWN" /\ first[35] = "S_SAWDOWN"
    OBVIOUS
  <2> QED BY <2>1, <2>2
<1>4. last \in Seq(lset) /\ Len(last) = 18
  OBVIOUS
<1>5. last[2] = "S_MISSILEDOWN" /\ last[12] = "S_CHAINDOWN"
  OBVIOUS
<1> HIDE DEF first, last, fset, lset
<1>6. first \in Seq(S) /\ last \in Seq(S)
  BY <1>2, <1>4, SeqMonotonic
<1> HIDE DEF S
<1> DEFINE all == first \o last
<1>7. first \o <<>> = first
  BY <1>6, JoinedNone
<1>8. Len(first) + Len(last) = 57
  BY <1>2, <1>4
<1>9. \A i \in 1 .. 57 : all[i] = IF i <= 39 THEN first[i] ELSE last[i - 39]
  <2>1. \A i \in 1 .. Len(first) + Len(last) : all[i] = IF i <= Len(first) THEN first[i] ELSE last[i - Len(first)]
    BY <1>6, JoinedAre, Zenon
  <2> HIDE DEF all
  <2> QED BY <1>2, <1>8, <2>1, Zenon
<1>10. all = LocalStates(FALSE)
  BY <1>1, <1>7
<1>11. DOMAIN all = 1 .. 57
  <2>1. DOMAIN all = 1 .. Len(first) + Len(last)
    BY <1>6, JoinedOver, Zenon
  <2> QED BY <1>8, <2>1, Zenon
<1> HIDE DEF all
<1>12. all[4] = "S_PUNCHDOWN" /\ all[12] = "S_PISTOLDOWN" /\ all[20] = "S_SGUNDOWN" /\ all[35] = "S_SAWDOWN"
  BY <1>3, <1>9
<1>13. all[41] = "S_MISSILEDOWN" /\ all[51] = "S_CHAINDOWN"
  <2>1. all[41] = last[41 - 39] /\ all[51] = last[51 - 39]
    BY <1>9
  <2>2. 41 - 39 = 2 /\ 51 - 39 = 12
    OBVIOUS
  <2> QED BY <1>5, <2>1, <2>2
<1> DEFINE d == WEAPONINFO[g].down
<1>14. d \in {"S_PUNCHDOWN", "S_PISTOLDOWN", "S_SGUNDOWN", "S_SAWDOWN", "S_MISSILEDOWN", "S_CHAINDOWN"}
  BY DEF WEAPONINFO, Info, Weapon
<1> HIDE DEF d
<1>15. \E i \in DOMAIN all : all[i] = d
  BY <1>11, <1>12, <1>13, <1>14
<1>16. LocalStates(FALSE)[Numbered(FALSE, d)] = d
  BY <1>10, <1>15 DEF Numbered
<1> QED BY <1>16 DEF d

(* The dead man's weapon, one step down.                                   *)
Dropped(y) == IF y + LOWERSPEED < WEAPONBOTTOM THEN y + LOWERSPEED ELSE WEAPONBOTTOM

LEMMA DropIs ==
  ASSUME NEW x, Good(x), x.dead = 1, x.sy \in WEAPONTOP .. WEAPONBOTTOM
  PROVE  LET t == WEAPONINFO[x.ready].down
         IN  SetWeapon(x, t, FALSE) = [x EXCEPT !.st = t, !.tics = Tics(t), !.sy = Dropped(x.sy)]
<1> DEFINE t == WEAPONINFO[x.ready].down
           v == Placed(x, t)
           u == [x EXCEPT !.st = t, !.tics = Tics(t), !.sy = Dropped(x.sy)]
<1>1. Enter(x, t) /\ Action(t) = "A_Lower" /\ t # Stays /\ t # S_NULL
  BY DownIs
<1>2. Tics(t) # 0
  <2>1. Tame(x.ready, t)
    BY <1>1, ReadyIsAWeapon, StatesAreTame DEF Good, Enter, Pose
  <2>2. Tics(t) = 0 <=> Raw(t) = 0
    BY <2>1, TicsAre DEF Tame
  <2> HIDE DEF t
  <2> QED BY <1>1, <2>1, <2>2 DEF Tame
<1> HIDE DEF t
<1>3. v.sy = x.sy /\ v.dead = 1
  BY <1>1, PlacedIs
<1>4. Lowered(v) = [v EXCEPT !.sy = x.sy + LOWERSPEED] /\ Lowered(v).sy = x.sy + LOWERSPEED
  <2>1. DOMAIN v = Fields
    BY DEF Placed, Good
  <2> HIDE DEF v
  <2> QED BY <1>3, <2>1, FieldsAre DEF Lowered
<1>5. Lower(v) = Stay([v EXCEPT !.sy = Dropped(x.sy)])
  <2> HIDE DEF v
  <2> QED BY <1>3, <1>4 DEF Lower, Dropped
<1>6. [v EXCEPT !.sy = Dropped(x.sy)] = u /\ u.tics = Tics(t)
  BY FieldsAre DEF Placed, Good
<1> HIDE DEF u, v
<1>7. SetOnce(Sets(x, t), FALSE) = Stay(u)
  <2>1. PspAction(v, Action(t), FALSE) = Stay(u)
    BY <1>1, <1>5, <1>6 DEF PspAction
  <2>2. Stay(u).sets = Stays /\ Stay(u).who = u
    BY DEF Stay
  <2> DEFINE ran == PspAction(v, Action(t), FALSE)
  <2>3. SetOnce(Sets(x, t), FALSE) =
          IF ran.sets # Stays \/ ran.who.tics # 0 THEN ran ELSE Sets(ran.who, Next_(ran.who.st))
    BY <1>1 DEF SetOnce, OnWhileNone, Sets, v, Placed
  <2> HIDE DEF ran
  <2>4. ran = Stay(u)
    BY <2>1 DEF ran
  <2> QED BY <1>2, <1>6, <2>2, <2>3, <2>4
<1> DEFINE r == Stay(u)
<1>8. SetOnce(r, FALSE) = r /\ r.who = u
  BY DEF SetOnce, Stay
<1> HIDE DEF r
<1>9. SetWeapon(x, t, FALSE) = u
  BY <1>7, <1>8 DEF SetWeapon, r
<1> QED BY <1>9 DEF t, u

LEMMA DamageIs ==
  ASSUME NEW w, Good(w), NEW dmg, NEW source
  PROVE  LET x == Struck(w, dmg, source)
         IN  DamagePlayer(w, dmg, source) =
               IF w.dead = 1 THEN w
               ELSE IF x.health <= 0 THEN SetWeapon([x EXCEPT !.dead = 1], WEAPONINFO[x.ready].down, FALSE)
               ELSE x
<1>1. Alive(w) <=> ~(w.dead = 1)
  BY DEF Good, Flesh, Alive
<1> QED BY <1>1 DEF DamagePlayer, Struck, SaveOf, UsedUp, SavedOf

(* What the weapon's part of the record is after a hit.                    *)
LEMMA DamageKeeps ==
  ASSUME NEW w, Good(w), At(w), NEW dmg \in 1 .. 255, NEW source
  PROVE  LET v == DamagePlayer(w, dmg, source)
         IN  /\ Good(v) /\ At(v) /\ (w.dead = 1 => v = w)
             /\ dmg < w.health => v.dead = w.dead
             /\ v.used = w.used /\ v.usedown = w.usedown /\ v.restart = w.restart
<1>1. CASE w.dead = 1
  <2>1. DamagePlayer(w, dmg, source) = w
    BY <1>1, DamageIs
  <2> QED BY <1>1, <2>1
<1>2. CASE w.dead # 1
  <2> DEFINE x == Struck(w, dmg, source)
             d == [x EXCEPT !.dead = 1]
             t == WEAPONINFO[x.ready].down
  <2>1. /\ DOMAIN x = Fields /\ x.health \in Int /\ x.health >= w.health - dmg
        /\ (x.health > 0 => Good(x)) /\ Good(Slain(x))
        /\ \A y \in Fields \ {"armortype", "armor", "attacker", "dc", "health", "rng"} : x[y] = w[y]
    BY <1>2, StruckIs
  <2>2. DamagePlayer(w, dmg, source) = IF x.health <= 0 THEN SetWeapon(d, t, FALSE) ELSE x
    BY <1>2, DamageIs
  <2> HIDE DEF x
  <2>3. /\ x.ready = w.ready /\ x.pending = w.pending /\ x.st = w.st /\ x.tics = w.tics /\ x.sy = w.sy
        /\ x.ammo = w.ammo /\ x.dead = w.dead /\ x.used = w.used /\ x.usedown = w.usedown /\ x.restart = w.restart
    BY <2>1, FieldsAre
  <2>4. w.health \in Int
    BY DEF Good, Flesh
  <2>5. CASE x.health <= 0
    <3>1. Good(d)
      BY <2>1, <2>5 DEF Slain
    <3>2. d.dead = 1 /\ d.sy = w.sy /\ d.ready = x.ready /\ d.used = w.used /\ d.usedown = w.usedown
          /\ d.restart = w.restart
      BY <2>1, <2>3, FieldsAre
    <3> HIDE DEF d
    <3>3. Enter(d, t)
      BY <3>1, <3>2, DownIs DEF At, Pose
    <3> HIDE DEF t
    <3>4. PICK h : Same(h, d, 0)
      BY SameExists
    <3> DEFINE v == SetWeapon(d, t, FALSE)
    <3>5. Good(v) /\ At(v) /\ Follows(d, v)
      BY <3>1, <3>3, <3>4, SetWeaponIs
    <3> HIDE DEF v
    <3>6. v.used = w.used /\ v.usedown = w.usedown /\ v.restart = w.restart
      BY <3>2, <3>5, UntouchedLeaves DEF Follows
    <3>7. ~(dmg < w.health)
      BY <2>1, <2>4, <2>5
    <3> QED BY <1>2, <2>2, <2>5, <3>5, <3>6, <3>7 DEF v
  <2>6. CASE ~(x.health <= 0)
    <3>1. Good(x)
      BY <2>1, <2>6
    <3>2. At(x)
      BY <2>3 DEF At, Pose, EnoughAmmo
    <3> QED BY <1>2, <2>2, <2>3, <2>6, <3>1, <3>2
  <2> QED BY <2>5, <2>6
<1> QED BY <1>1, <1>2

LEMMA DropAlike ==
  ASSUME NEW x, NEW h, NEW p, ~PlasmaMap, Good(x), x.dead = 1, x.sy \in WEAPONTOP .. WEAPONBOTTOM, Same(h, x, p)
  PROVE  Same(EmittedDrop(h), SetWeapon(x, WEAPONINFO[x.ready].down, FALSE), p)
<1> DEFINE t == WEAPONINFO[x.ready].down
           y == Dropped(x.sy)
<1>1. h.ready = x.ready /\ h.sy = x.sy
  BY SameReads
<1>2. x.ready \in Weapon \ {"plasma"}
  BY DEF Good, Owns
<1>3. LocalStates(PlasmaMap)[Numbered(FALSE, t)] = t
  <2>1. PlasmaMap = FALSE
    BY PspriteBounds
  <2> QED BY <1>2, <2>1, DownIsNumbered
<1>4. (IF (h.sy + LOWERSPEED) % 256 >= WEAPONBOTTOM THEN WEAPONBOTTOM ELSE (h.sy + LOWERSPEED) % 256) = y
  <2> DEFINE z == x.sy
             n == z + LOWERSPEED
  <2>1. z \in Nat /\ z <= WEAPONBOTTOM
    BY Screen
  <2> HIDE DEF z
  <2>2. n \in 0 .. 255
    BY <2>1, Screen
  <2>3. n % 256 = n
    <3> HIDE DEF n
    <3> QED BY <2>2
  <2>4. (h.sy + LOWERSPEED) % 256 = n
    BY <1>1, <2>3 DEF z
  <2>5. y = IF n < WEAPONBOTTOM THEN n ELSE WEAPONBOTTOM
    BY DEF Dropped, z
  <2> HIDE DEF n, y
  <2> QED BY <2>2, <2>4, <2>5, Screen
<1>5. EmittedDrop(h) = [h EXCEPT !.st = t, !.tics = Tics(t), !.sy = y]
  <2>1. (IF h.ready = "plasma" THEN "chainsaw" ELSE h.ready) = x.ready
    BY <1>1, <1>2
  <2> HIDE DEF y
  <2> QED BY <1>3, <1>4, <2>1 DEF EmittedDrop
<1>6. SetWeapon(x, t, FALSE) = [x EXCEPT !.st = t, !.tics = Tics(t), !.sy = y]
  BY DropIs
<1> DEFINE e == [h EXCEPT !.st = t, !.tics = Tics(t), !.sy = y]
           v == [x EXCEPT !.st = t, !.tics = Tics(t), !.sy = y]
<1> HIDE DEF t, y
<1>7. Same(e, v, p)
  BY FieldsAre DEF Same, Good
<1> HIDE DEF e, v
<1>8. EmittedDrop(h) = e /\ SetWeapon(x, t, FALSE) = v
  BY <1>5, <1>6 DEF e, v
<1> QED BY <1>7, <1>8 DEF t

(* The emitted cells struck.                                               *)
StruckFj(f, dmg, source) ==
  LET flash == (f.dc + dmg - SavedOf(f, dmg)) % 256
  IN  Draw([f EXCEPT !.armortype = IF UsedUp(f, dmg) THEN 0 ELSE @, !.armor = @ - SavedOf(f, dmg),
                     !.attacker = source, !.dc = IF flash > DC_CAP THEN DC_CAP ELSE flash,
                     !.health = (@ - (dmg - SavedOf(f, dmg))) % 4096], 1)

LEMMA StruckAlike ==
  ASSUME NEW w, NEW f, NEW p, Good(w), w.dead # 1, Same(f, w, p), NEW dmg \in 1 .. 255 - DC_CAP, NEW source
  PROVE  LET x == Struck(w, dmg, source)
             h == StruckFj(f, dmg, source)
         IN  Same(h, x, p) /\ Signed(h.health) = x.health
<1> DEFINE sv == SavedOf(w, dmg)
           ty == IF UsedUp(w, dmg) THEN 0 ELSE w.armortype
           ar == w.armor - sv
           dc == Lesser(DC_CAP, w.dc + dmg - sv)
           he == w.health - (dmg - sv)
           rn == (w.rng + 1) % RNG
           z == [w EXCEPT !.armortype = ty, !.armor = ar, !.attacker = source, !.dc = dc, !.health = he]
           y == [f EXCEPT !.armortype = ty, !.armor = ar, !.attacker = source, !.dc = dc, !.health = he % 4096]
           x == [z EXCEPT !.rng = rn]
           h == [y EXCEPT !.rng = rn]
<1>1. dmg \in 1 .. 255 /\ DC_CAP \in Nat /\ dmg + DC_CAP <= 255
  BY PlayerBounds
<1>2. sv \in 0 .. dmg /\ sv <= w.armor
  BY <1>1, SavedIs
<1>3. w.health \in Int /\ 0 < w.health /\ w.health <= 2 * MAXHEALTH /\ w.dc \in 0 .. DC_CAP
  BY DEF Good, Flesh, Counts
<1>4. /\ f.armortype = w.armortype /\ f.armor = w.armor /\ f.dc = w.dc /\ f.rng = w.rng /\ f.health = w.health
      /\ z.rng = w.rng /\ y.rng = w.rng
  <2>1. f.armortype = w.armortype /\ f.armor = w.armor /\ f.dc = w.dc /\ f.rng = w.rng
    BY SameReads
  <2>2. f.health = w.health
    BY <1>3, HealthReads
  <2>3. z.rng = w.rng
    BY FieldsAre DEF Good
  <2>4. y.rng = f.rng
    BY FieldsAre DEF Same
  <2> QED BY <2>1, <2>2, <2>3, <2>4
<1>5. UsedUp(f, dmg) = UsedUp(w, dmg) /\ SavedOf(f, dmg) = sv
  BY <1>4 DEF UsedUp, SavedOf, SaveOf
<1>6. (IF (f.dc + dmg - sv) % 256 > DC_CAP THEN DC_CAP ELSE (f.dc + dmg - sv) % 256) = dc
  <2> DEFINE n == w.dc + dmg - sv
  <2>1. n \in 0 .. 255
    <3> HIDE DEF sv
    <3> QED BY <1>1, <1>2, <1>3
  <2>2. dc = IF DC_CAP < n THEN DC_CAP ELSE n
    BY DEF Lesser
  <2>3. f.dc + dmg - sv = n
    BY <1>4
  <2> HIDE DEF n, dc
  <2>4. n % 256 = n
    BY <2>1
  <2> QED BY <1>1, <2>1, <2>2, <2>3, <2>4
<1>7. Signed(he % 4096) = he
  <2>1. he \in Int /\ -255 <= he /\ he < 2048
    <3> HIDE DEF sv
    <3> QED BY <1>1, <1>2, <1>3, InventoryBounds
  <2> HIDE DEF he
  <2> QED BY <2>1, SignedIs
<1>8. Struck(w, dmg, source) = x
  <2>1. Struck(w, dmg, source) = Draw(z, 1)
    BY DEF Struck
  <2> HIDE DEF z
  <2> QED BY <1>4, <2>1 DEF Draw
<1>9. StruckFj(f, dmg, source) = h
  <2>1. StruckFj(f, dmg, source) = Draw(y, 1)
    <3> DEFINE a1 == IF UsedUp(f, dmg) THEN 0 ELSE f.armortype
               a2 == f.armor - SavedOf(f, dmg)
               a3 == (f.health - (dmg - SavedOf(f, dmg))) % 4096
               a4 == IF (f.dc + dmg - SavedOf(f, dmg)) % 256 > DC_CAP THEN DC_CAP
                     ELSE (f.dc + dmg - SavedOf(f, dmg)) % 256
               g == [f EXCEPT !.armortype = a1, !.armor = a2, !.attacker = source, !.dc = a4, !.health = a3]
    <3>1. a1 = ty
      BY <1>4, <1>5
    <3>2. a2 = ar
      BY <1>4, <1>5
    <3>3. a3 = he % 4096
      BY <1>4, <1>5
    <3>4. a4 = dc
      BY <1>5, <1>6
    <3>5. StruckFj(f, dmg, source) = Draw(g, 1)
      BY DEF StruckFj
    <3> HIDE DEF ty, ar, dc, he, a1, a2, a3, a4
    <3>6. g = y
      BY <3>1, <3>2, <3>3, <3>4
    <3> QED BY <3>5, <3>6
  <2> HIDE DEF y
  <2> QED BY <1>4, <2>1 DEF Draw
<1> HIDE DEF ty, ar, dc, he, rn
<1>10. Same(h, x, p) /\ h.health = he % 4096 /\ x.health = he
  BY FieldsAre DEF Same, Good
<1> HIDE DEF h, x
<1> QED BY <1>7, <1>8, <1>9, <1>10

LEMMA DpGoIs ==
  ASSUME NEW w, NEW f, NEW p, Good(w), Same(f, w, p), NEW dmg, NEW source
  PROVE  LET h == StruckFj(f, dmg, source)
         IN  DpGo(f, dmg, source) =
               IF w.dead = 1 THEN f ELSE IF Signed(h.health) <= 0 THEN EmittedDrop([h EXCEPT !.dead = 1]) ELSE h
<1>1. f.dead = 1 \/ Signed(f.health) <= 0 <=> w.dead = 1
  <2>1. f.dead = w.dead /\ Signed(f.health) = w.health
    BY SameReads, HealthReads
  <2> QED BY <2>1 DEF Good, Flesh
<1> QED BY <1>1 DEF DpGo, StruckFj, SaveOf, UsedUp, SavedOf

(* A hit, the model's and the emitted one.                                 *)
LEMMA DamageAlike ==
  ASSUME NEW w, NEW f, NEW p, ~PlasmaMap, Good(w), At(w), Same(f, w, p), NEW dmg \in 1 .. 255 - DC_CAP, NEW source
  PROVE  Same(DpGo(f, dmg, source), DamagePlayer(w, dmg, source), p)
<1>1. CASE w.dead = 1
  <2>1. DamagePlayer(w, dmg, source) = w
    BY <1>1, DamageIs
  <2>2. DpGo(f, dmg, source) = f
    BY <1>1, DpGoIs
  <2> QED BY <2>1, <2>2
<1>2. CASE w.dead # 1
  <2> DEFINE x == Struck(w, dmg, source)
             h == StruckFj(f, dmg, source)
             d == [x EXCEPT !.dead = 1]
             k == [h EXCEPT !.dead = 1]
  <2>0. dmg \in 1 .. 255
    BY PlayerBounds
  <2>1. /\ DOMAIN x = Fields /\ Good(Slain(x))
        /\ \A y \in Fields \ {"armortype", "armor", "attacker", "dc", "health", "rng"} : x[y] = w[y]
    BY <1>2, <2>0, StruckIs
  <2>2. Same(h, x, p) /\ Signed(h.health) = x.health
    BY <1>2, StruckAlike
  <2>3. DamagePlayer(w, dmg, source) = IF x.health <= 0 THEN SetWeapon(d, WEAPONINFO[x.ready].down, FALSE) ELSE x
    BY <1>2, DamageIs
  <2>4. DpGo(f, dmg, source) = IF x.health <= 0 THEN EmittedDrop(k) ELSE h
    BY <1>2, <2>2, DpGoIs
  <2> HIDE DEF x, h
  <2>5. d.dead = 1 /\ d.sy = w.sy /\ d.ready = x.ready /\ Same(k, d, p)
    BY <2>1, <2>2, FieldsAre DEF Same
  <2>6. CASE x.health <= 0
    <3>1. Good(d)
      BY <2>1, <2>6 DEF Slain
    <3> HIDE DEF d, k
    <3>2. d.sy \in WEAPONTOP .. WEAPONBOTTOM
      BY <2>5 DEF At, Pose
    <3>3. Same(EmittedDrop(k), SetWeapon(d, WEAPONINFO[d.ready].down, FALSE), p)
      BY <2>5, <3>1, <3>2, DropAlike
    <3> QED BY <2>3, <2>4, <2>5, <2>6, <3>3
  <2>7. CASE ~(x.health <= 0)
    BY <2>2, <2>3, <2>4, <2>7
  <2> QED BY <2>6, <2>7
<1> QED BY <1>1, <1>2

(***************************************************************************)
(* The tic: the floor, the keys, the use and the counts.                   *)
(***************************************************************************)
(* What a step that leaves the weapon alone keeps.                         *)
Ticking == {"strength", "ironfeet", "dc", "bonuscount", "used", "usedown", "vdrop", "restart", "rng"}

LEMMA TickedIs ==
  ASSUME NEW w, NEW u, Good(w), At(w), DOMAIN u = Fields, \A x \in Fields \ Ticking : u[x] = w[x],
         Counts(u), u.restart \in {0, 1}, u.restart = 1 => u.dead = 1, u.rng \in 0 .. RNG - 1
  PROVE  Good(u) /\ At(u) /\ u.dead = w.dead /\ u.ammo = w.ammo /\ u.sy = w.sy /\ u.health = w.health
<1>1. /\ u.ready = w.ready /\ u.pending = w.pending /\ u.owned = w.owned /\ u.ammo = w.ammo
      /\ u.backpack = w.backpack /\ u.health = w.health /\ u.armor = w.armor /\ u.armortype = w.armortype
      /\ u.dead = w.dead /\ u.st = w.st /\ u.tics = w.tics /\ u.sy = w.sy /\ u.fst = w.fst /\ u.ftics = w.ftics
      /\ u.refire = w.refire /\ u.attackdown = w.attackdown
  BY FieldsAre DEF Ticking
<1>2. Owns(u) /\ Glow(u)
  BY <1>1 DEF Good, Owns, Glow
<1>3. Mags(u)
  BY <1>1 DEF Good, Mags, MaxAmmo
<1>4. Flesh(u) /\ Trigger(u)
  BY <1>1 DEF Good, Flesh, Trigger
<1>5. At(u)
  BY <1>1 DEF At, Pose, EnoughAmmo
<1> QED BY <1>1, <1>2, <1>3, <1>4, <1>5 DEF Good

LEMMA DrawnIs ==
  ASSUME NEW w, Good(w), At(w)
  PROVE  LET u == Draw(w, 1)
         IN  /\ Good(u) /\ At(u) /\ u.dead = w.dead /\ u.health = w.health /\ u.used = w.used
             /\ u.usedown = w.usedown /\ u.restart = w.restart
<1> DEFINE u == Draw(w, 1)
<1>1. Plain(w, u) /\ u.ammo = w.ammo
  BY DrawIs
<1> HIDE DEF u
<1>2. Good(u)
  BY <1>1, PlainIsGood
<1>3. u.dead = w.dead /\ u.health = w.health /\ u.used = w.used /\ u.usedown = w.usedown /\ u.restart = w.restart
  BY <1>1, UntouchedLeaves DEF Plain
<1>4. At(u)
  BY <1>1, <1>3 DEF Plain, At, Pose, EnoughAmmo
<1> QED BY <1>2, <1>3, <1>4 DEF u

(* The floor.                                                              *)
LEMMA FloorIs ==
  ASSUME NEW w, Good(w), At(w), NEW dmg \in FloorHurts
  PROVE  LET v == SpecialSector(w, dmg)
         IN  /\ Good(v) /\ At(v) /\ (dmg < w.health => v.dead = w.dead)
             /\ v.used = w.used /\ v.usedown = w.usedown /\ v.restart = w.restart
<1>1. dmg = 0 \/ dmg \in 1 .. 255
  BY PlayerBounds
<1>2. CASE dmg = 0
  BY <1>2 DEF SpecialSector
<1>3. CASE dmg # 0
  <2> DEFINE u == IF SuitDraws(w, dmg) THEN Draw(w, 1) ELSE w
             v == DamagePlayer(u, dmg, 0)
  <2>1. /\ Good(u) /\ At(u) /\ u.dead = w.dead /\ u.health = w.health /\ u.used = w.used
        /\ u.usedown = w.usedown /\ u.restart = w.restart
    BY DrawnIs
  <2>2. SpecialSector(w, dmg) = IF SuitStops(w, dmg) THEN u ELSE v
    BY <1>3 DEF SpecialSector
  <2> HIDE DEF u
  <2>3. /\ Good(v) /\ At(v) /\ (dmg < u.health => v.dead = u.dead)
        /\ v.used = u.used /\ v.usedown = u.usedown /\ v.restart = u.restart
    BY <1>1, <1>3, <2>1, DamageKeeps
  <2> HIDE DEF v
  <2> QED BY <2>1, <2>2, <2>3
<1> QED BY <1>2, <1>3

LEMMA FloorAlike ==
  ASSUME NEW w, NEW f, NEW p, Good(w), At(w), Same(f, w, p), NEW dmg \in FloorHurts, PlasmaMap => dmg = 0
  PROVE  Same(NkGo(f, dmg), SpecialSector(w, dmg), p)
<1>1. CASE dmg = 0
  BY <1>1 DEF SpecialSector, NkGo
<1>2. CASE dmg # 0
  <2>1. dmg \in 1 .. 255 - DC_CAP /\ ~PlasmaMap
    BY <1>2, PlayerBounds
  <2>2. f.ironfeet = w.ironfeet /\ w.ironfeet \in Nat
    <3>1. f.ironfeet = w.ironfeet
      BY SameReads
    <3> QED BY <3>1, InventoryBounds DEF Good, Counts
  <2> DEFINE u == Draw(w, 1)
             h == Draw(f, 1)
  <2>3. Good(u) /\ At(u)
    BY DrawnIs
  <2>4. Same(h, u, p)
    BY DrawAlike
  <2>5. Same(DpGo(f, dmg, 0), DamagePlayer(w, dmg, 0), p)
    BY <2>1, DamageAlike
  <2>6. h.rng = u.rng
    BY <2>4, SameReads
  <2>7. SpecialSector(w, dmg) = IF w.ironfeet = 0 THEN DamagePlayer(w, dmg, 0)
                                ELSE IF dmg # SUIT_LEAK_DAMAGE THEN w
                                ELSE IF u.rng = 0 THEN DamagePlayer(u, dmg, 0) ELSE u
    BY <1>2, <2>2 DEF SpecialSector, SuitStops, SuitDraws
  <2>8. NkGo(f, dmg) = IF w.ironfeet = 0 THEN DpGo(f, dmg, 0)
                       ELSE IF dmg # SUIT_LEAK_DAMAGE THEN f
                       ELSE IF h.rng = 0 THEN DpGo(h, dmg, 0) ELSE h
    BY <1>2, <2>2 DEF NkGo
  <2> HIDE DEF u, h
  <2>9. Same(DpGo(h, dmg, 0), DamagePlayer(u, dmg, 0), p)
    BY <2>1, <2>3, <2>4, DamageAlike
  <2> QED BY <2>4, <2>5, <2>6, <2>7, <2>8, <2>9
<1> QED BY <1>1, <1>2

(* A weapon asked for.                                                     *)
LEMMA AskedIs ==
  ASSUME NEW w, Good(w), At(w), NEW g \in w.owned
  PROVE  LET u == [w EXCEPT !.pending = g]
         IN  /\ Good(u) /\ At(u) /\ u.dead = w.dead /\ u.used = w.used /\ u.usedown = w.usedown
             /\ u.restart = w.restart /\ u.ammo = w.ammo /\ u.sy = w.sy
<1> DEFINE u == [w EXCEPT !.pending = g]
<1>1. DOMAIN u = Fields /\ u.pending = g /\ \A x \in Fields \ {"pending"} : u[x] = w[x]
  BY FieldsAre DEF Good
<1> HIDE DEF u
<1>2. g # NOCHANGE /\ g \in Weapon
  BY DEF Good, Owns, Weapon, NOCHANGE
<1>3. /\ u.ready = w.ready /\ u.owned = w.owned /\ u.ammo = w.ammo /\ u.dead = w.dead /\ u.used = w.used
      /\ u.usedown = w.usedown /\ u.restart = w.restart /\ u.sy = w.sy /\ u.st = w.st /\ u.tics = w.tics
      /\ u.refire = w.refire /\ u.attackdown = w.attackdown /\ u.rng = w.rng /\ u.fst = w.fst /\ u.ftics = w.ftics
  BY <1>1, FieldsAre
<1>4. Untouched(w, u)
  BY <1>1 DEF Good, Untouched, Kept
<1>5. Owns(u) /\ Trigger(u) /\ Glow(u)
  BY <1>1, <1>3 DEF Good, Owns, Trigger, Glow
<1>6. u.ammo \in [Ammo -> Nat] /\ \A a \in Ammo : u.ammo[a] <= w.ammo[a]
  BY <1>3 DEF Good, Mags
<1>7. Good(u)
  BY <1>4, <1>5, <1>6, UntouchedKeeps
<1>8. At(u)
  BY <1>1, <1>2, <1>3 DEF At, Pose, EnoughAmmo
<1> QED BY <1>3, <1>7, <1>8 DEF u

(* The keys.                                                               *)
LEMMA KeysAre ==
  ASSUME NEW w, NEW f, NEW p, Good(w), At(w), Same(f, w, p), NEW key \in Keys
  PROVE  LET v == WeaponKeys(w, key)
         IN  /\ Good(v) /\ At(v) /\ Same(EmittedKeys(f, key), v, p) /\ v.dead = w.dead /\ v.used = w.used
             /\ v.usedown = w.usedown /\ v.restart = w.restart
<1>1. f.ready = w.ready /\ f.owned = w.owned /\ f.strength = w.strength
  BY SameReads
<1>2. key \in Weapon \cup {NOCHANGE} /\ NOCHANGE \notin Weapon
  BY PlayerBounds DEF Weapon, NOCHANGE
<1>3. {"fist", "pistol"} \subseteq w.owned /\ w.owned \subseteq Weapon
  BY DEF Good, Owns
<1> DEFINE saw  == key = "fist" /\ "chainsaw" \in w.owned
           back == saw /\ w.ready = "chainsaw" /\ w.strength > 0
           new  == IF saw /\ ~(w.ready = "chainsaw" /\ w.strength > 0) THEN "chainsaw" ELSE key
           asks == key # NOCHANGE /\ new \in w.owned /\ new # w.ready
           u    == [w EXCEPT !.pending = new]
           h    == [f EXCEPT !.pending = new]
<1>4. WeaponKeys(w, key) = IF asks THEN u ELSE w
  BY DEF WeaponKeys
<1>5. EmittedKeys(f, key) = IF asks THEN h ELSE f
  <2>1. CASE saw
    <3>1. key # NOCHANGE /\ new \in w.owned
      BY <1>2, <1>3, <2>1 DEF Weapon
    <3>2. EmittedKeys(f, key) = IF f.ready # "chainsaw" THEN [f EXCEPT !.pending = "chainsaw"]
                                ELSE IF f.strength > 0 THEN [f EXCEPT !.pending = "fist"] ELSE f
      BY <1>1, <2>1 DEF EmittedKeys
    <3>3. CASE f.ready # "chainsaw"
      BY <1>1, <2>1, <3>1, <3>2, <3>3
    <3>4. CASE f.ready = "chainsaw" /\ f.strength > 0
      BY <1>1, <2>1, <3>1, <3>2, <3>4
    <3>5. CASE f.ready = "chainsaw" /\ ~(f.strength > 0)
      BY <1>1, <2>1, <3>1, <3>2, <3>5
    <3> QED BY <3>3, <3>4, <3>5
  <2>2. CASE ~saw
    <3>1. new = key
      BY <2>2
    <3>2. EmittedKeys(f, key) = IF key # NOCHANGE
                                THEN IF key \in f.owned /\ key # f.ready THEN [f EXCEPT !.pending = key] ELSE f
                                ELSE f
      BY <1>1, <2>2 DEF EmittedKeys
    <3> QED BY <1>1, <3>1, <3>2
  <2> QED BY <2>1, <2>2
<1>6. CASE asks
  <2> HIDE DEF new
  <2>1. /\ Good(u) /\ At(u) /\ u.dead = w.dead /\ u.used = w.used /\ u.usedown = w.usedown
        /\ u.restart = w.restart
    BY <1>6, AskedIs
  <2>2. Same(h, u, p)
    BY FieldsAre DEF Good, Same
  <2> HIDE DEF u, h
  <2> QED BY <1>4, <1>5, <1>6, <2>1, <2>2
<1>7. CASE ~asks
  <2> HIDE DEF asks
  <2> QED BY <1>4, <1>5, <1>7
<1> QED BY <1>6, <1>7

(* The use key.                                                            *)
LEMMA UseIs ==
  ASSUME NEW w, NEW f, NEW p, Good(w), At(w), Same(f, w, p), NEW use \in BOOLEAN
  PROVE  LET v == UseEdge(w, use)
         IN  /\ Good(v) /\ At(v) /\ Same(UseEdge(f, use), v, p) /\ v.dead = w.dead /\ v.restart = w.restart
             /\ (use => v.usedown = 1) /\ (w.usedown = 1 => v.used = 0)
<1> DEFINE a == IF use /\ w.usedown = 0 THEN 1 ELSE 0
           b == IF use THEN 1 ELSE 0
           u == [w EXCEPT !.used = a, !.usedown = b]
           h == [f EXCEPT !.used = a, !.usedown = b]
<1>1. UseEdge(w, use) = u
  BY DEF UseEdge
<1>2. UseEdge(f, use) = h
  <2>1. f.usedown = w.usedown
    BY SameReads
  <2> QED BY <2>1 DEF UseEdge
<1>3. a \in {0, 1} /\ b \in {0, 1} /\ (use => b = 1) /\ (w.usedown = 1 => a = 0)
  OBVIOUS
<1> HIDE DEF a, b
<1>4. DOMAIN u = Fields /\ u.used = a /\ u.usedown = b /\ \A x \in Fields \ {"used", "usedown"} : u[x] = w[x]
  BY FieldsAre DEF Good
<1>5. Same(h, u, p)
  BY FieldsAre DEF Good, Same
<1> HIDE DEF u, h
<1>6. /\ u.cards = w.cards /\ u.items = w.items /\ u.strength = w.strength /\ u.ironfeet = w.ironfeet
      /\ u.bonuscount = w.bonuscount /\ u.dc = w.dc /\ u.vdrop = w.vdrop /\ u.restart = w.restart /\ u.rng = w.rng
      /\ u.dead = w.dead
  BY <1>4, FieldsAre
<1>7. Counts(u)
  BY <1>3, <1>4, <1>6 DEF Good, Counts
<1>8. Good(u) /\ At(u)
  <2>1. \A x \in Fields \ Ticking : u[x] = w[x]
    BY <1>4 DEF Ticking
  <2>2. u.restart \in {0, 1} /\ (u.restart = 1 => u.dead = 1) /\ u.rng \in 0 .. RNG - 1
    BY <1>6 DEF Good, Flesh, Trigger
  <2> QED BY <1>4, <1>7, <2>1, <2>2, TickedIs
<1> QED BY <1>1, <1>2, <1>3, <1>4, <1>5, <1>6, <1>8

(* The emitted tic asks the use key before the floor and the keys, the     *)
(* model after them: neither reads what the other writes.                  *)
Cells == Fields \cup {"palcur"}
Pressed(g, a, b) == [g EXCEPT !.used = a, !.usedown = b]
Waits(g, h) == DOMAIN h = Cells /\ h.usedown = g.usedown

LEMMA DrawWaits ==
  ASSUME NEW g, DOMAIN g = Cells, NEW a, NEW b
  PROVE  Draw(Pressed(g, a, b), 1) = Pressed(Draw(g, 1), a, b) /\ Waits(g, Draw(g, 1))
<1> DEFINE h == Pressed(g, a, b)
           k == (g.rng + 1) % RNG
<1>1. h.rng = g.rng
  BY FieldsAre DEF Pressed, Cells
<1>2. Draw(h, 1) = [h EXCEPT !.rng = k] /\ Draw(g, 1) = [g EXCEPT !.rng = k]
  <2> HIDE DEF h
  <2> QED BY <1>1 DEF Draw
<1> HIDE DEF k
<1>3. [h EXCEPT !.rng = k] = Pressed([g EXCEPT !.rng = k], a, b) /\ Waits(g, [g EXCEPT !.rng = k])
  BY FieldsAre DEF Pressed, Cells, Waits
<1> HIDE DEF h
<1> QED BY <1>2, <1>3 DEF h

LEMMA StruckWaits ==
  ASSUME NEW g, DOMAIN g = Cells, NEW a, NEW b, NEW dmg, NEW source
  PROVE  /\ StruckFj(Pressed(g, a, b), dmg, source) = Pressed(StruckFj(g, dmg, source), a, b)
         /\ Waits(g, StruckFj(g, dmg, source))
<1> DEFINE h == Pressed(g, a, b)
           a1 == IF UsedUp(g, dmg) THEN 0 ELSE g.armortype
           a2 == g.armor - SavedOf(g, dmg)
           a3 == (g.health - (dmg - SavedOf(g, dmg))) % 4096
           a4 == IF (g.dc + dmg - SavedOf(g, dmg)) % 256 > DC_CAP THEN DC_CAP
                 ELSE (g.dc + dmg - SavedOf(g, dmg)) % 256
           x == [g EXCEPT !.armortype = a1, !.armor = a2, !.attacker = source, !.dc = a4, !.health = a3]
           y == [h EXCEPT !.armortype = a1, !.armor = a2, !.attacker = source, !.dc = a4, !.health = a3]
<1>1. h.armortype = g.armortype /\ h.armor = g.armor /\ h.health = g.health /\ h.dc = g.dc
  BY FieldsAre DEF Pressed, Cells
<1>2. StruckFj(g, dmg, source) = Draw(x, 1)
  BY DEF StruckFj
<1>3. StruckFj(h, dmg, source) = Draw(y, 1)
  <2> HIDE DEF h
  <2>1. UsedUp(h, dmg) = UsedUp(g, dmg) /\ SavedOf(h, dmg) = SavedOf(g, dmg)
    BY <1>1 DEF UsedUp, SavedOf, SaveOf
  <2> DEFINE b1 == IF UsedUp(h, dmg) THEN 0 ELSE h.armortype
             b2 == h.armor - SavedOf(h, dmg)
             b3 == (h.health - (dmg - SavedOf(h, dmg))) % 4096
             b4 == IF (h.dc + dmg - SavedOf(h, dmg)) % 256 > DC_CAP THEN DC_CAP
                   ELSE (h.dc + dmg - SavedOf(h, dmg)) % 256
             z == [h EXCEPT !.armortype = b1, !.armor = b2, !.attacker = source, !.dc = b4, !.health = b3]
  <2>2. b1 = a1 /\ b2 = a2
    BY <1>1, <2>1
  <2>3. b3 = a3 /\ b4 = a4
    BY <1>1, <2>1
  <2>4. StruckFj(h, dmg, source) = Draw(z, 1)
    BY DEF StruckFj
  <2> HIDE DEF a1, a2, a3, a4, b1, b2, b3, b4
  <2>5. z = y
    BY <2>2, <2>3
  <2> QED BY <2>4, <2>5
<1> HIDE DEF a1, a2, a3, a4
<1>4. y = Pressed(x, a, b) /\ Waits(g, x)
  BY FieldsAre DEF Pressed, Cells, Waits
<1> HIDE DEF x, y, h
<1>5. DOMAIN x = Cells
  BY <1>4 DEF Waits
<1>6. Draw(y, 1) = Pressed(Draw(x, 1), a, b) /\ Waits(x, Draw(x, 1))
  BY <1>4, <1>5, DrawWaits
<1> QED BY <1>2, <1>3, <1>4, <1>6 DEF Waits, h

LEMMA DropWaits ==
  ASSUME NEW g, DOMAIN g = Cells, NEW a, NEW b
  PROVE  /\ EmittedDrop([Pressed(g, a, b) EXCEPT !.dead = 1]) = Pressed(EmittedDrop([g EXCEPT !.dead = 1]), a, b)
         /\ Waits(g, EmittedDrop([g EXCEPT !.dead = 1]))
<1> DEFINE h == [Pressed(g, a, b) EXCEPT !.dead = 1]
           k == [g EXCEPT !.dead = 1]
           down == WEAPONINFO[IF k.ready = "plasma" THEN "chainsaw" ELSE k.ready].down
           low == (k.sy + LOWERSPEED) % 256
           st == LocalStates(PlasmaMap)[Numbered(FALSE, down)]
           sy == IF low >= WEAPONBOTTOM THEN WEAPONBOTTOM ELSE low
           tics == Tics(down)
           e == [h EXCEPT !.st = st, !.tics = tics, !.sy = sy]
           d == [k EXCEPT !.st = st, !.tics = tics, !.sy = sy]
<1>1. h.ready = k.ready /\ h.sy = k.sy
  BY FieldsAre DEF Pressed, Cells
<1>2. EmittedDrop(k) = d
  BY DEF EmittedDrop
<1>3. EmittedDrop(h) = e
  <2> HIDE DEF h, k
  <2> QED BY <1>1 DEF EmittedDrop
<1> HIDE DEF st, sy, tics
<1>4. e = Pressed(d, a, b) /\ Waits(g, d)
  BY FieldsAre DEF Pressed, Cells, Waits
<1> HIDE DEF e, d, h, k
<1> QED BY <1>2, <1>3, <1>4 DEF h, k

LEMMA DpGoWaits ==
  ASSUME NEW g, DOMAIN g = Cells, NEW a, NEW b, NEW dmg, NEW source
  PROVE  DpGo(Pressed(g, a, b), dmg, source) = Pressed(DpGo(g, dmg, source), a, b) /\ Waits(g, DpGo(g, dmg, source))
<1> DEFINE h == Pressed(g, a, b)
           x == StruckFj(g, dmg, source)
           y == StruckFj(h, dmg, source)
           out(f, z) == IF f.dead = 1 \/ Signed(f.health) <= 0 THEN f
                        ELSE IF Signed(z.health) <= 0 THEN EmittedDrop([z EXCEPT !.dead = 1]) ELSE z
<1>1. DpGo(g, dmg, source) = out(g, x) /\ DpGo(h, dmg, source) = out(h, y)
  BY DEF DpGo, StruckFj, SaveOf, UsedUp, SavedOf
<1>2. h.dead = g.dead /\ h.health = g.health
  BY FieldsAre DEF Pressed, Cells
<1>3. y = Pressed(x, a, b) /\ Waits(g, x)
  BY StruckWaits
<1> HIDE DEF x, y
<1>4. DOMAIN x = Cells
  BY <1>3 DEF Waits
<1>5. y.health = x.health
  BY <1>3, <1>4, FieldsAre DEF Pressed, Cells
<1> DEFINE dx == EmittedDrop([x EXCEPT !.dead = 1])
           dy == EmittedDrop([y EXCEPT !.dead = 1])
<1>6. dy = Pressed(dx, a, b) /\ Waits(x, dx)
  BY <1>3, <1>4, DropWaits
<1>7. Waits(g, g)
  BY DEF Waits
<1>8. out(g, x) = IF g.dead = 1 \/ Signed(g.health) <= 0 THEN g ELSE IF Signed(x.health) <= 0 THEN dx ELSE x
  OBVIOUS
<1>9. out(h, y) = IF g.dead = 1 \/ Signed(g.health) <= 0 THEN h ELSE IF Signed(x.health) <= 0 THEN dy ELSE y
  BY <1>2, <1>5
<1>10. Waits(g, dx)
  BY <1>3, <1>6 DEF Waits
<1> HIDE DEF dx, dy, out
<1>11. out(h, y) = Pressed(out(g, x), a, b) /\ Waits(g, out(g, x))
  <2>1. CASE g.dead = 1 \/ Signed(g.health) <= 0
    BY <1>7, <1>8, <1>9, <2>1
  <2>2. CASE ~(g.dead = 1 \/ Signed(g.health) <= 0) /\ Signed(x.health) <= 0
    BY <1>6, <1>8, <1>9, <1>10, <2>2
  <2>3. CASE ~(g.dead = 1 \/ Signed(g.health) <= 0) /\ ~(Signed(x.health) <= 0)
    BY <1>3, <1>8, <1>9, <2>3
  <2> QED BY <2>1, <2>2, <2>3
<1> HIDE DEF h
<1> QED BY <1>1, <1>11 DEF h

LEMMA FloorWaits ==
  ASSUME NEW g, DOMAIN g = Cells, NEW a, NEW b, NEW dmg
  PROVE  NkGo(Pressed(g, a, b), dmg) = Pressed(NkGo(g, dmg), a, b) /\ Waits(g, NkGo(g, dmg))
<1> DEFINE h == Pressed(g, a, b)
           x == Draw(g, 1)
           y == Draw(h, 1)
           dg == DpGo(g, dmg, 0)
           dh == DpGo(h, dmg, 0)
           dx == DpGo(x, dmg, 0)
           dy == DpGo(y, dmg, 0)
<1>1. y = Pressed(x, a, b) /\ Waits(g, x)
  BY DrawWaits
<1>2. dh = Pressed(dg, a, b) /\ Waits(g, dg)
  BY DpGoWaits
<1>3. h.ironfeet = g.ironfeet
  BY FieldsAre DEF Pressed, Cells
<1>4. NkGo(g, dmg) = IF dmg = 0 THEN g ELSE IF g.ironfeet = 0 THEN dg
                     ELSE IF dmg # SUIT_LEAK_DAMAGE THEN g ELSE IF x.rng = 0 THEN dx ELSE x
  BY DEF NkGo
<1>5. NkGo(h, dmg) = IF dmg = 0 THEN h ELSE IF g.ironfeet = 0 THEN dh
                     ELSE IF dmg # SUIT_LEAK_DAMAGE THEN h ELSE IF y.rng = 0 THEN dy ELSE y
  <2> HIDE DEF h
  <2> QED BY <1>3 DEF NkGo
<1> HIDE DEF x, y, h, dg, dh
<1>6. DOMAIN x = Cells
  BY <1>1 DEF Waits
<1>7. dy = Pressed(dx, a, b) /\ Waits(x, dx)
  BY <1>1, <1>6, DpGoWaits
<1>8. Waits(g, dx) /\ Waits(g, g)
  BY <1>1, <1>7 DEF Waits
<1>9. y.rng = x.rng
  BY <1>1, <1>6, FieldsAre DEF Pressed, Cells
<1> HIDE DEF dx, dy
<1>10. h = Pressed(g, a, b)
  BY DEF h
<1>11. NkGo(h, dmg) = Pressed(NkGo(g, dmg), a, b) /\ Waits(g, NkGo(g, dmg))
  <2>1. CASE dmg = 0 \/ (g.ironfeet # 0 /\ dmg # SUIT_LEAK_DAMAGE)
    BY <1>4, <1>5, <1>8, <1>10, <2>1
  <2>2. CASE dmg # 0 /\ g.ironfeet = 0
    BY <1>2, <1>4, <1>5, <2>2
  <2>3. CASE dmg # 0 /\ g.ironfeet # 0 /\ dmg = SUIT_LEAK_DAMAGE
    <3>1. CASE x.rng = 0
      BY <1>4, <1>5, <1>7, <1>8, <1>9, <2>3, <3>1
    <3>2. CASE x.rng # 0
      BY <1>1, <1>4, <1>5, <1>9, <2>3, <3>2
    <3> QED BY <3>1, <3>2
  <2> QED BY <2>1, <2>2, <2>3
<1> QED BY <1>11 DEF h

LEMMA KeysWait ==
  ASSUME NEW g, DOMAIN g = Cells, NEW a, NEW b, NEW key
  PROVE  EmittedKeys(Pressed(g, a, b), key) = Pressed(EmittedKeys(g, key), a, b) /\ Waits(g, EmittedKeys(g, key))
<1> DEFINE h == Pressed(g, a, b)
           saw  == key = "fist" /\ "chainsaw" \in g.owned
           to == IF saw THEN IF g.ready # "chainsaw" THEN "chainsaw" ELSE IF g.strength > 0 THEN "fist" ELSE NOCHANGE
                 ELSE IF key \in g.owned /\ key # g.ready THEN key ELSE NOCHANGE
           x == [g EXCEPT !.pending = to]
           y == [h EXCEPT !.pending = to]
<1>1. h.ready = g.ready /\ h.owned = g.owned /\ h.strength = g.strength
  BY FieldsAre DEF Pressed, Cells
<1>2. EmittedKeys(g, key) = IF to # NOCHANGE THEN x ELSE g
  <2>1. CASE saw
    BY <2>1 DEF EmittedKeys, NOCHANGE
  <2>2. CASE ~saw
    BY <2>2 DEF EmittedKeys, NOCHANGE
  <2> QED BY <2>1, <2>2
<1>3. EmittedKeys(h, key) = IF to # NOCHANGE THEN y ELSE h
  <2> HIDE DEF h
  <2>1. CASE saw
    BY <1>1, <2>1 DEF EmittedKeys, NOCHANGE
  <2>2. CASE ~saw
    BY <1>1, <2>2 DEF EmittedKeys, NOCHANGE
  <2> QED BY <2>1, <2>2
<1> HIDE DEF to
<1>4. y = Pressed(x, a, b) /\ Waits(g, x) /\ Waits(g, g)
  BY FieldsAre DEF Pressed, Cells, Waits
<1> HIDE DEF x, y
<1>5. EmittedKeys(h, key) = Pressed(EmittedKeys(g, key), a, b) /\ Waits(g, EmittedKeys(g, key))
  BY <1>2, <1>3, <1>4
<1> QED BY <1>5 DEF h

LEMMA UseWaits ==
  ASSUME NEW g, DOMAIN g = Cells, NEW use, NEW dmg, NEW key
  PROVE  EmittedKeys(NkGo(UseEdge(g, use), dmg), key) = UseEdge(EmittedKeys(NkGo(g, dmg), key), use)
<1> DEFINE a == IF use /\ g.usedown = 0 THEN 1 ELSE 0
           b == IF use THEN 1 ELSE 0
           x == NkGo(g, dmg)
           y == EmittedKeys(x, key)
<1>1. UseEdge(g, use) = Pressed(g, a, b)
  BY DEF UseEdge, Pressed
<1>2. NkGo(Pressed(g, a, b), dmg) = Pressed(x, a, b) /\ Waits(g, x)
  BY FloorWaits
<1> HIDE DEF x
<1>3. DOMAIN x = Cells /\ x.usedown = g.usedown
  BY <1>2 DEF Waits
<1>4. EmittedKeys(Pressed(x, a, b), key) = Pressed(y, a, b) /\ Waits(x, y)
  BY <1>3, KeysWait
<1> HIDE DEF y
<1>5. y.usedown = g.usedown
  BY <1>3, <1>4 DEF Waits
<1>6. UseEdge(y, use) = Pressed(y, a, b)
  BY <1>5 DEF UseEdge, Pressed
<1> HIDE DEF a, b
<1>7. EmittedKeys(NkGo(UseEdge(g, use), dmg), key) = UseEdge(y, use)
  BY <1>1, <1>2, <1>4, <1>6
<1> QED BY <1>7 DEF x, y

LEMMA CountsDown ==
  ASSUME NEW w, NEW f, NEW p, Good(w), At(w), Same(f, w, p)
  PROVE  LET v == [w EXCEPT !.strength = IF @ = 0 THEN 0 ELSE Lesser(@ + 1, STRENGTH_CAP), !.ironfeet = Down1(@),
                            !.dc = Down1(@), !.bonuscount = Down1(@)]
             g == (f.strength + 1) % (STRENGTH_CAP + 1)
             h == [f EXCEPT !.dc = Down1(@), !.ironfeet = Down1(@), !.bonuscount = Down1(@),
                            !.strength = IF @ = 0 THEN 0 ELSE IF g = 0 THEN STRENGTH_CAP ELSE g]
         IN  /\ Good(v) /\ At(v) /\ Same(h, v, p) /\ v.dead = w.dead /\ v.used = w.used
             /\ v.usedown = w.usedown /\ v.restart = w.restart
<1> DEFINE s == IF w.strength = 0 THEN 0 ELSE Lesser(w.strength + 1, STRENGTH_CAP)
           i == Down1(w.ironfeet)
           c == Down1(w.dc)
           n == Down1(w.bonuscount)
           v == [w EXCEPT !.strength = s, !.ironfeet = i, !.dc = c, !.bonuscount = n]
           h == [f EXCEPT !.dc = c, !.ironfeet = i, !.bonuscount = n, !.strength = s]
           g == (f.strength + 1) % (STRENGTH_CAP + 1)
<1>1. f.strength = w.strength /\ f.ironfeet = w.ironfeet /\ f.dc = w.dc /\ f.bonuscount = w.bonuscount
  BY SameReads
<1>2. w.strength \in 0 .. STRENGTH_CAP /\ w.ironfeet \in 0 .. IRONTICS /\ w.bonuscount \in 0 .. BONUS_CAP
      /\ w.dc \in 0 .. DC_CAP /\ STRENGTH_CAP \in Nat \ {0} /\ IRONTICS \in Nat /\ BONUS_CAP \in Nat /\ DC_CAP \in Nat
  BY InventoryBounds, PlayerBounds DEF Good, Counts
<1>3. s \in 0 .. STRENGTH_CAP /\ i \in 0 .. IRONTICS /\ n \in 0 .. BONUS_CAP /\ c \in 0 .. DC_CAP
  <2>1. s \in 0 .. STRENGTH_CAP
    BY <1>2 DEF Lesser
  <2>2. i \in 0 .. IRONTICS
    BY <1>2 DEF Down1
  <2>3. n \in 0 .. BONUS_CAP
    BY <1>2 DEF Down1
  <2>4. c \in 0 .. DC_CAP
    BY <1>2 DEF Down1
  <2> QED BY <2>1, <2>2, <2>3, <2>4
<1>4. (IF f.strength = 0 THEN 0 ELSE IF g = 0 THEN STRENGTH_CAP ELSE g) = s
  <2> DEFINE k == w.strength
             m == (k + 1) % (STRENGTH_CAP + 1)
  <2>1. k \in 0 .. STRENGTH_CAP /\ STRENGTH_CAP \in Nat \ {0}
    BY <1>2
  <2>2. s = IF k = 0 THEN 0 ELSE IF k + 1 < STRENGTH_CAP THEN k + 1 ELSE STRENGTH_CAP
    BY DEF Lesser
  <2>3. g = m /\ f.strength = k
    BY <1>1
  <2> HIDE DEF k, s, g
  <2>4. CASE k < STRENGTH_CAP
    <3>1. m = k + 1
      BY <2>1, <2>4
    <3> HIDE DEF m
    <3> QED BY <2>1, <2>2, <2>3, <2>4, <3>1
  <2>5. CASE k = STRENGTH_CAP
    <3>1. m = 0
      BY <2>1, <2>5
    <3> HIDE DEF m
    <3> QED BY <2>1, <2>2, <2>3, <2>5, <3>1
  <2> QED BY <2>1, <2>4, <2>5
<1>5. h = [f EXCEPT !.dc = Down1(@), !.ironfeet = Down1(@), !.bonuscount = Down1(@),
                    !.strength = IF @ = 0 THEN 0 ELSE IF g = 0 THEN STRENGTH_CAP ELSE g]
  <2> HIDE DEF s, g
  <2> QED BY <1>1, <1>4
<1> HIDE DEF s, i, c, n
<1>6. /\ DOMAIN v = Fields /\ v.strength = s /\ v.ironfeet = i /\ v.dc = c /\ v.bonuscount = n
      /\ \A x \in Fields \ {"strength", "ironfeet", "dc", "bonuscount"} : v[x] = w[x]
  BY FieldsAre DEF Good
<1>7. Same(h, v, p)
  BY FieldsAre DEF Good, Same
<1>8. v = [w EXCEPT !.strength = IF @ = 0 THEN 0 ELSE Lesser(@ + 1, STRENGTH_CAP), !.ironfeet = Down1(@),
                    !.dc = Down1(@), !.bonuscount = Down1(@)]
  BY DEF s, i, c, n
<1> HIDE DEF v, h
<1>9. /\ v.cards = w.cards /\ v.items = w.items /\ v.vdrop = w.vdrop /\ v.used = w.used /\ v.usedown = w.usedown
      /\ v.restart = w.restart /\ v.rng = w.rng /\ v.dead = w.dead
  BY <1>6, FieldsAre
<1>10. Counts(v)
  BY <1>3, <1>6, <1>9 DEF Good, Counts
<1>11. \A x \in Fields \ Ticking : v[x] = w[x]
  BY <1>6 DEF Ticking
<1>12. v.restart \in {0, 1} /\ (v.restart = 1 => v.dead = 1) /\ v.rng \in 0 .. RNG - 1
  BY <1>9 DEF Good, Flesh, Trigger
<1>13. Good(v) /\ At(v)
  BY <1>6, <1>10, <1>11, <1>12, TickedIs
<1> QED BY <1>5, <1>7, <1>8, <1>9, <1>13

(* What the tic is given.                                                  *)
Input(in) == in.key \in Keys /\ in.floor \in FloorHurts /\ in.use \in BOOLEAN

(* The living player's tic.                                                *)
LEMMA LiveIs ==
  ASSUME NEW w, NEW f, NEW p, NEW in, Good(w), At(w), Same(f, w, p), w.dead # 1, Input(in)
  PROVE  LET v == LiveThink(w, in)
         IN  /\ Good(v) /\ At(v) /\ (in.floor < w.health => v.dead = w.dead) /\ v.restart = w.restart
             /\ (in.use => v.usedown = 1) /\ (w.usedown = 1 => v.used = 0)
             /\ (PlasmaMap => in.floor = 0) => Same(EmittedTic(f, in), v, p)
<1> DEFINE a == SpecialSector(w, in.floor)
           b == WeaponKeys(a, in.key)
           c == UseEdge(b, in.use)
           d == WeaponTics(c, in.fire)
           v == LiveThink(w, in)
           ef == NkGo(f, in.floor)
           g0 == CHOOSE g : Same(g, a, 0)
           g  == IF Same(ef, a, p) THEN ef ELSE g0
           q  == IF Same(ef, a, p) THEN p ELSE 0
           gb == EmittedKeys(g, in.key)
           gc == UseEdge(gb, in.use)
           gd == EmittedTics(gc, in.fire)
<1>1. /\ Good(a) /\ At(a) /\ (in.floor < w.health => a.dead = w.dead)
      /\ a.used = w.used /\ a.usedown = w.usedown /\ a.restart = w.restart
  BY FloorIs DEF Input
<1>2. (PlasmaMap => in.floor = 0) => Same(ef, a, p)
  BY FloorAlike DEF Input
<1>3. UseEdge(EmittedKeys(ef, in.key), in.use) = EmittedKeys(NkGo(UseEdge(f, in.use), in.floor), in.key)
  <2>1. DOMAIN f = Cells
    BY DEF Same, Cells
  <2> QED BY <2>1, UseWaits
<1> HIDE DEF a, ef
<1>4. Same(g, a, q)
  <2>1. Same(g0, a, 0)
    BY SameExists
  <2> QED BY <2>1
<1> HIDE DEF g, q
<1>5. /\ Good(b) /\ At(b) /\ Same(gb, b, q) /\ b.dead = a.dead /\ b.used = a.used
      /\ b.usedown = a.usedown /\ b.restart = a.restart
  BY <1>1, <1>4, KeysAre DEF Input
<1> HIDE DEF b, gb
<1>6. /\ Good(c) /\ At(c) /\ Same(gc, c, q) /\ c.dead = b.dead /\ c.restart = b.restart
      /\ (in.use => c.usedown = 1) /\ (b.usedown = 1 => c.used = 0)
  BY <1>5, UseIs DEF Input
<1> HIDE DEF c, gc
<1>7. Good(d) /\ At(d) /\ Follows(c, d) /\ Same(gd, d, q)
  BY <1>6, TicsKeep
<1> HIDE DEF d, gd
<1>8. d.dead = c.dead /\ d.used = c.used /\ d.usedown = c.usedown /\ d.restart = c.restart
  BY <1>7, UntouchedLeaves DEF Follows
<1> DEFINE vd == [d EXCEPT !.strength = IF @ = 0 THEN 0 ELSE Lesser(@ + 1, STRENGTH_CAP), !.ironfeet = Down1(@),
                           !.dc = Down1(@), !.bonuscount = Down1(@)]
           k  == (gd.strength + 1) % (STRENGTH_CAP + 1)
           gv == [gd EXCEPT !.dc = Down1(@), !.ironfeet = Down1(@), !.bonuscount = Down1(@),
                            !.strength = IF @ = 0 THEN 0 ELSE IF k = 0 THEN STRENGTH_CAP ELSE k]
<1>9. /\ Good(vd) /\ At(vd) /\ Same(gv, vd, q) /\ vd.dead = d.dead /\ vd.used = d.used
      /\ vd.usedown = d.usedown /\ vd.restart = d.restart
  BY <1>7, CountsDown
<1>10. v = vd
  BY DEF LiveThink, a, b, c, d
<1>11. ASSUME PlasmaMap => in.floor = 0 PROVE Same(EmittedTic(f, in), v, p)
  <2>1. g = ef /\ q = p
    BY <1>2, <1>11 DEF g, q
  <2>2. f.dead # 1
    BY SameReads
  <2>3. gc = EmittedKeys(NkGo(UseEdge(f, in.use), in.floor), in.key)
    BY <1>3, <2>1 DEF gc, gb
  <2> HIDE DEF gc
  <2>4. EmittedTic(f, in) = gv
    BY <2>2, <2>3 DEF EmittedTic, gd
  <2> HIDE DEF gv, vd, v
  <2> QED BY <1>9, <1>10, <2>1, <2>4
<1> HIDE DEF vd, gv, v
<1> QED BY <1>1, <1>5, <1>6, <1>8, <1>9, <1>10, <1>11 DEF v

(* The dead player's tic.                                                  *)
LEMMA DeathIs ==
  ASSUME NEW w, NEW f, NEW p, NEW in, Good(w), At(w), Same(f, w, p), w.dead = 1, Input(in)
  PROVE  LET v == DeathThink(w, in)
         IN  /\ Good(v) /\ At(v) /\ Same(EmittedTic(f, in), v, p) /\ v.ammo = w.ammo /\ v.sy >= w.sy
             /\ v.used = w.used /\ (in.use => v.restart = 1)
<1> DEFINE low == WeaponTics(w, in.fire)
           g   == EmittedTics(f, in.fire)
           vd  == Lesser(low.vdrop + 1, VIEW_DROP_MAX)
           dc  == IF low.attacker = 0 \/ in.facing THEN Down1(low.dc) ELSE low.dc
           re  == IF in.use THEN 1 ELSE low.restart
           v   == [low EXCEPT !.vdrop = vd, !.dc = dc, !.restart = re]
           h   == [g EXCEPT !.vdrop = vd, !.dc = dc, !.restart = re]
<1>1. Good(low) /\ At(low) /\ Follows(w, low) /\ Same(g, low, p)
  BY TicsKeep
<1>2. DeathThink(w, in) = v
  BY DEF DeathThink
<1> HIDE DEF low
<1>3. f.dead = 1 /\ g.vdrop = low.vdrop /\ g.dc = low.dc /\ g.attacker = low.attacker /\ g.restart = low.restart
  BY <1>1, SameReads
<1>4. EmittedTic(f, in) = [DtTurn(g, in.facing) EXCEPT !.restart = IF in.use THEN 1 ELSE @]
  BY <1>3 DEF EmittedTic
<1> HIDE DEF g
<1>5. low.vdrop \in 0 .. VIEW_DROP_MAX /\ VIEW_DROP_MAX \in Nat /\ low.dc \in 0 .. DC_CAP /\ DC_CAP \in Nat
  BY <1>1, PlayerBounds DEF Good, Counts
<1>6. vd \in 0 .. VIEW_DROP_MAX /\ dc \in 0 .. DC_CAP /\ (IF g.vdrop < VIEW_DROP_MAX THEN g.vdrop + 1 ELSE g.vdrop) = vd
  <2>1. vd \in 0 .. VIEW_DROP_MAX
    BY <1>5 DEF Lesser
  <2>2. dc \in 0 .. DC_CAP
    BY <1>5 DEF Down1
  <2>3. (IF g.vdrop < VIEW_DROP_MAX THEN g.vdrop + 1 ELSE g.vdrop) = vd
    BY <1>3, <1>5 DEF Lesser
  <2> QED BY <2>1, <2>2, <2>3
<1>7. DtTurn(g, in.facing) = [g EXCEPT !.vdrop = vd, !.dc = dc]
  <2>1. (IF g.attacker = 0 \/ in.facing THEN Down1(g.dc) ELSE g.dc) = dc
    BY <1>3
  <2> HIDE DEF vd, dc
  <2> QED BY <1>6, <2>1 DEF DtTurn
<1>8. EmittedTic(f, in) = h
  <2> DEFINE t == [g EXCEPT !.vdrop = vd, !.dc = dc]
  <2> HIDE DEF vd, dc
  <2>1. t.restart = low.restart
    BY <1>1, <1>3, FieldsAre DEF Same
  <2>2. EmittedTic(f, in) = [t EXCEPT !.restart = re]
    <3> HIDE DEF t
    <3> QED BY <1>4, <1>7, <2>1 DEF t
  <2> HIDE DEF re
  <2> QED BY <2>2
<1>9. re \in {0, 1} /\ (in.use => re = 1)
  BY <1>1 DEF Good, Flesh
<1> HIDE DEF vd, dc, re
<1>10. /\ DOMAIN v = Fields /\ v.vdrop = vd /\ v.dc = dc /\ v.restart = re
       /\ \A x \in Fields \ {"vdrop", "dc", "restart"} : v[x] = low[x]
  BY <1>1, FieldsAre DEF Good
<1>11. Same(h, v, p)
  BY <1>1, FieldsAre DEF Good, Same
<1> HIDE DEF v, h
<1>12. /\ v.cards = low.cards /\ v.items = low.items /\ v.strength = low.strength /\ v.ironfeet = low.ironfeet
       /\ v.bonuscount = low.bonuscount /\ v.used = low.used /\ v.usedown = low.usedown /\ v.rng = low.rng
       /\ v.dead = low.dead /\ v.ammo = low.ammo /\ v.sy = low.sy
  BY <1>10, FieldsAre
<1>13. low.dead = 1 /\ low.used = w.used
  BY <1>1, UntouchedLeaves DEF Follows
<1>14. Counts(v)
  BY <1>1, <1>6, <1>10, <1>12 DEF Good, Counts
<1>15. \A x \in Fields \ Ticking : v[x] = low[x]
  BY <1>10 DEF Ticking
<1>16. v.rng \in 0 .. RNG - 1
  BY <1>1, <1>12 DEF Good, Trigger
<1>17. Good(v) /\ At(v)
  BY <1>1, <1>9, <1>10, <1>12, <1>13, <1>14, <1>15, <1>16, TickedIs
<1>18. v.ammo = w.ammo /\ v.sy >= w.sy
  BY <1>1, <1>12 DEF Follows
<1> QED BY <1>2, <1>8, <1>9, <1>10, <1>11, <1>12, <1>13, <1>17, <1>18

(* The level's start.                                                      *)
LEMMA StartIs ==
  /\ Good(Start) /\ At(Start) /\ Start.dead = 0 /\ Start.used = 0 /\ Start.usedown = 1 /\ Start.restart = 0
  /\ Start.health = MAXHEALTH
<1> DEFINE s == Start
<1>1. /\ DOMAIN s = Fields /\ s.ready = "pistol" /\ s.pending = NOCHANGE /\ s.owned = {"fist", "pistol"}
      /\ s.ammo = [a \in Ammo |-> IF a = "clip" THEN INITIAL_BULLETS ELSE 0] /\ s.backpack = 0
  BY DEF Start, Fields
<1>2. /\ s.health = MAXHEALTH /\ s.armor = 0 /\ s.armortype = 0 /\ s.cards = {} /\ s.strength = 0 /\ s.ironfeet = 0
      /\ s.bonuscount = 0 /\ s.dc = 0 /\ s.vdrop = 0 /\ s.restart = 0 /\ s.items = Items
  BY DEF Start
<1>3. /\ s.st = "S_PISTOLUP" /\ s.tics = Tics("S_PISTOLUP") /\ s.sy = WEAPONBOTTOM - RAISESPEED
      /\ s.fst = S_NULL /\ s.ftics = 0 /\ s.refire = 0 /\ s.attackdown = 1 /\ s.usedown = 1 /\ s.used = 0
      /\ s.dead = 0 /\ s.rng = 0
  BY DEF Start
<1> HIDE DEF s
<1>4. Owns(s)
  BY <1>1 DEF Owns, Weapon, NOCHANGE
<1>5. Mags(s)
  <2>1. INITIAL_BULLETS \in Nat /\ INITIAL_BULLETS <= MAXAMMO["clip"] /\ \A a \in Ammo : MAXAMMO[a] \in Nat
    BY PlayerBounds, InventoryBounds DEF Ammo
  <2>2. \A a \in Ammo : MaxAmmo(s, a) = MAXAMMO[a]
    BY <1>1, <2>1 DEF MaxAmmo
  <2>3. \A a \in Ammo : s.ammo[a] \in Nat /\ s.ammo[a] <= MAXAMMO[a]
    BY <1>1, <2>1
  <2>4. s.ammo \in [Ammo -> Nat]
    BY <1>1, <2>1
  <2> QED BY <1>1, <2>2, <2>3, <2>4 DEF Mags
<1>6. Flesh(s)
  BY <1>2, <1>3, InventoryBounds DEF Flesh
<1>7. Counts(s)
  BY <1>2, <1>3, InventoryBounds, PlayerBounds DEF Counts
<1>8. Trigger(s) /\ Glow(s)
  BY <1>3, PspriteBounds DEF Trigger, Glow
<1>9. At(s)
  <2>1. Row("S_PISTOLUP", 1, "A_Raise", "S_PISTOLUP")
    BY PistolRows
  <2>2. Tics("S_PISTOLUP") \in 1 .. 12
    BY <2>1, TicsAre DEF Row
  <2>3. "S_PISTOLUP" \in WeaponStates["pistol"]
    BY DEF WeaponStates
  <2>4. s.sy \in WEAPONTOP .. WEAPONBOTTOM /\ s.sy > WEAPONTOP
    BY <1>3, Screen
  <2> QED BY <1>1, <1>3, <2>1, <2>2, <2>3, <2>4 DEF At, Pose, Row, Moving, Shoots
<1>10. Good(s)
  BY <1>1, <1>4, <1>5, <1>6, <1>7, <1>8 DEF Good
<1> QED BY <1>2, <1>3, <1>9, <1>10 DEF s

LEMMA StartFjIs ==
  /\ Same(StartFj, Start, 0)
  /\ \A f : Same(RestartFj(f), Start, f.palcur)
<1>1. Start.health = MAXHEALTH /\ MAXHEALTH % 4096 = MAXHEALTH
  BY StartIs, InventoryBounds
<1>2. "palcur" \notin Fields
  BY FieldsAre
<1>3. DOMAIN StartFj = Fields \cup {"palcur"} /\ StartFj.palcur = 0 /\ (\A x \in Fields : StartFj[x] = Start[x])
  BY <1>2 DEF StartFj, Fields
<1>4. Same(StartFj, Start, 0)
  BY <1>1, <1>3 DEF Same
<1>5. ASSUME NEW f PROVE Same(RestartFj(f), Start, f.palcur)
  BY <1>2, <1>4 DEF Same, RestartFj
<1> QED BY <1>4, <1>5

(* The player's phase, the restart of the level in it.                     *)
LEMMA PhaseIs ==
  ASSUME NEW w, NEW f, NEW p, NEW in, Good(w), At(w), Same(f, w, p), Input(in)
  PROVE  LET v == PlayerPhase(w, in)
         IN  /\ Good(v) /\ At(v)
             /\ w.dead = 1 /\ v.dead = 1 => v.ammo = w.ammo /\ v.sy >= w.sy
             /\ in.use => v.usedown = 1 \/ v.restart = 1
             /\ w.usedown = 1 \/ w.restart = 1 => v.used = 0
             /\ (PlasmaMap => in.floor = 0) => Same(EmittedPhase(f, in), v, p)
<1> DEFINE u  == IF w.restart = 1 THEN Start ELSE w
           g  == IF f.restart = 1 THEN RestartFj(f) ELSE f
           on == [u EXCEPT !.used = 0]
           h  == [g EXCEPT !.used = 0]
           v  == PlayerPhase(w, in)
<1>1. f.restart = w.restart /\ f.palcur = p
  BY SameReads
<1>2. Good(u) /\ At(u) /\ Same(g, u, p)
  BY <1>1, StartIs, StartFjIs
<1>4. w.usedown = 1 \/ w.restart = 1 => u.usedown = 1
  BY StartIs
<1>5. v = IF on.dead = 1 THEN DeathThink(on, in) ELSE LiveThink(on, in)
  BY DEF PlayerPhase, Restart
<1>6. EmittedPhase(f, in) = EmittedTic(h, in)
  BY DEF EmittedPhase
<1>7. w.dead = 1 /\ u.dead = 1 => u.ammo = w.ammo /\ u.sy = w.sy
  BY StartIs
<1>8. w.dead = 1 /\ u.dead # 1 => u.health = MAXHEALTH
  BY StartIs
<1> HIDE DEF u, g, v
<1>9. DOMAIN on = Fields /\ on.used = 0 /\ \A x \in Fields \ {"used"} : on[x] = u[x]
  BY <1>2, FieldsAre DEF Good
<1>10. Same(h, on, p)
  BY <1>2, FieldsAre DEF Good, Same
<1> HIDE DEF on, h
<1>11. /\ on.cards = u.cards /\ on.items = u.items /\ on.strength = u.strength /\ on.ironfeet = u.ironfeet
       /\ on.bonuscount = u.bonuscount /\ on.dc = u.dc /\ on.vdrop = u.vdrop /\ on.usedown = u.usedown
       /\ on.restart = u.restart /\ on.rng = u.rng /\ on.dead = u.dead
  BY <1>9, FieldsAre
<1>12. Good(on) /\ At(on) /\ on.dead = u.dead /\ on.ammo = u.ammo /\ on.sy = u.sy /\ on.health = u.health
  <2>1. Counts(on)
    BY <1>2, <1>9, <1>11 DEF Good, Counts
  <2>2. \A x \in Fields \ Ticking : on[x] = u[x]
    BY <1>9 DEF Ticking
  <2>3. on.restart \in {0, 1} /\ (on.restart = 1 => on.dead = 1) /\ on.rng \in 0 .. RNG - 1
    BY <1>2, <1>11 DEF Good, Flesh, Trigger
  <2> QED BY <1>2, <1>9, <2>1, <2>2, <2>3, TickedIs
<1>13. CASE on.dead = 1
  <2> DEFINE d == DeathThink(on, in)
  <2>1. /\ Good(d) /\ At(d) /\ Same(EmittedTic(h, in), d, p) /\ d.ammo = on.ammo /\ d.sy >= on.sy
        /\ d.used = on.used /\ (in.use => d.restart = 1)
    BY <1>10, <1>12, <1>13, DeathIs
  <2>2. v = d
    BY <1>5, <1>13
  <2> HIDE DEF d
  <2> QED BY <1>6, <1>7, <1>9, <1>12, <1>13, <2>1, <2>2 DEF v
<1>14. CASE on.dead # 1
  <2> DEFINE l == LiveThink(on, in)
  <2>1. /\ Good(l) /\ At(l) /\ (in.floor < on.health => l.dead = on.dead) /\ l.restart = on.restart
        /\ (in.use => l.usedown = 1) /\ (on.usedown = 1 => l.used = 0)
        /\ (PlasmaMap => in.floor = 0) => Same(EmittedTic(h, in), l, p)
    BY <1>10, <1>12, <1>14, LiveIs
  <2>2. v = l
    BY <1>5, <1>14
  <2>3. in.floor < MAXHEALTH
    BY PlayerBounds DEF Input
  <2> HIDE DEF l
  <2>4. w.dead = 1 => v.dead # 1
    BY <1>8, <1>12, <1>14, <2>1, <2>2, <2>3
  <2> QED BY <1>4, <1>6, <1>11, <2>1, <2>2, <2>4 DEF v
<1> QED BY <1>13, <1>14

(***************************************************************************)
(* The pickups.                                                            *)
(***************************************************************************)
(* What a pickup may change.                                               *)
Gifts == {"ammo", "pending", "owned", "backpack", "health", "armor", "armortype", "cards", "strength", "ironfeet",
          "bonuscount", "items"}

LEMMA GiftIs ==
  ASSUME NEW w, NEW u, Good(w), At(w), DOMAIN u = Fields, \A x \in Fields \ Gifts : u[x] = w[x],
         Owns(u), Mags(u), Flesh(u), u.cards \subseteq CardThing, u.items \subseteq Items,
         u.strength \in 0 .. STRENGTH_CAP, u.ironfeet \in 0 .. IRONTICS, u.bonuscount \in 0 .. BONUS_CAP,
         u.pending = NOCHANGE => w.pending = NOCHANGE, \A a \in Ammo : u.ammo[a] >= w.ammo[a]
  PROVE  /\ Good(u) /\ At(u) /\ u.dead = w.dead /\ u.used = w.used /\ u.usedown = w.usedown
         /\ u.restart = w.restart /\ u.ready = w.ready
<1>1. /\ u.ready = w.ready /\ u.dead = w.dead /\ u.used = w.used /\ u.usedown = w.usedown /\ u.restart = w.restart
      /\ u.st = w.st /\ u.tics = w.tics /\ u.sy = w.sy /\ u.fst = w.fst /\ u.ftics = w.ftics
      /\ u.refire = w.refire /\ u.attackdown = w.attackdown /\ u.rng = w.rng /\ u.dc = w.dc /\ u.vdrop = w.vdrop
  BY FieldsAre DEF Gifts
<1>2. Counts(u) /\ Trigger(u) /\ Glow(u)
  BY <1>1 DEF Good, Counts, Trigger, Glow
<1>3. EnoughAmmo(w) => EnoughAmmo(u)
  <2>1. AmmoOf[w.ready] = "none" \/ AmmoOf[w.ready] \in Ammo
    <3>1. w.ready \in Weapon
      BY ReadyIsAWeapon DEF Good
    <3> QED BY <3>1 DEF Weapon, AmmoOf, Ammo
  <2>2. \A a \in Ammo : u.ammo[a] \in Nat /\ w.ammo[a] \in Nat
    BY DEF Good, Mags
  <2> QED BY <1>1, <2>1, <2>2 DEF EnoughAmmo
<1>4. At(u)
  BY <1>1, <1>3 DEF At, Pose
<1> QED BY <1>1, <1>2, <1>4 DEF Good

(* u and its cells h, after a pickup by w.                                 *)
Better(w, u, h, p) ==
  /\ Good(u) /\ At(u) /\ Same(h, u, p) /\ u.dead = w.dead /\ u.used = w.used /\ u.usedown = w.usedown
  /\ u.restart = w.restart /\ u.ready = w.ready /\ u.items = w.items

LEMMA BetterIs ==
  ASSUME NEW w, NEW u, NEW h, NEW p, Good(w), At(w), DOMAIN u = Fields, \A x \in Fields \ Gifts : u[x] = w[x],
         Owns(u), Mags(u), Flesh(u), u.cards \subseteq CardThing, u.items \subseteq Items,
         u.strength \in 0 .. STRENGTH_CAP, u.ironfeet \in 0 .. IRONTICS, u.bonuscount \in 0 .. BONUS_CAP,
         u.pending = NOCHANGE => w.pending = NOCHANGE, \A a \in Ammo : u.ammo[a] >= w.ammo[a],
         u.items = w.items, Same(h, u, p)
  PROVE  Better(w, u, h, p)
<1>1. /\ Good(u) /\ At(u) /\ u.dead = w.dead /\ u.used = w.used /\ u.usedown = w.usedown
      /\ u.restart = w.restart /\ u.ready = w.ready
  BY GiftIs
<1> QED BY <1>1 DEF Better

LEMMA BetterIsTransitive ==
  ASSUME NEW w, NEW u, NEW v, NEW h, NEW k, NEW p, NEW q, Better(w, u, h, p), Better(u, v, k, q)
  PROVE  Better(w, v, k, q)
BY DEF Better

(* The two results of a give.                                              *)
Gives(w, r, e, p) == Better(w, r.who, e.who, p) /\ r.taken = e.taken /\ r.taken \in BOOLEAN

LEMMA BackpackIs ==
  ASSUME NEW w, NEW f, NEW p, Good(w), At(w), Same(f, w, p)
  PROVE  Better(w, [w EXCEPT !.backpack = 1], [f EXCEPT !.backpack = 1], p)
<1> DEFINE u == [w EXCEPT !.backpack = 1]
           h == [f EXCEPT !.backpack = 1]
<1>1. DOMAIN u = Fields /\ u.backpack = 1 /\ \A x \in Fields \ {"backpack"} : u[x] = w[x]
  BY FieldsAre DEF Good
<1>2. Same(h, u, p)
  BY FieldsAre DEF Good, Same
<1> HIDE DEF u, h
<1>3. /\ u.ready = w.ready /\ u.pending = w.pending /\ u.owned = w.owned /\ u.ammo = w.ammo /\ u.health = w.health
      /\ u.dead = w.dead /\ u.armor = w.armor /\ u.armortype = w.armortype /\ u.restart = w.restart
      /\ u.cards = w.cards /\ u.items = w.items /\ u.strength = w.strength /\ u.ironfeet = w.ironfeet
      /\ u.bonuscount = w.bonuscount
  BY <1>1, FieldsAre
<1>4. Owns(u) /\ Flesh(u)
  BY <1>3 DEF Good, Owns, Flesh
<1>5. Mags(u)
  <2>1. ASSUME NEW a \in Ammo PROVE u.ammo[a] <= MaxAmmo(u, a)
    <3>1. w.ammo[a] \in Nat /\ w.ammo[a] <= MaxAmmo(w, a) /\ MAXAMMO[a] \in Nat
      BY InventoryBounds DEF Good, Mags
    <3> QED BY <1>1, <1>3, <3>1 DEF MaxAmmo
  <2> QED BY <1>1, <1>3, <2>1 DEF Good, Mags
<1>6. \A x \in Fields \ Gifts : u[x] = w[x]
  BY <1>1 DEF Gifts
<1>7. \A a \in Ammo : u.ammo[a] >= w.ammo[a]
  BY <1>3 DEF Good, Mags
<1>8. /\ u.cards \subseteq CardThing /\ u.items \subseteq Items /\ u.strength \in 0 .. STRENGTH_CAP
      /\ u.ironfeet \in 0 .. IRONTICS /\ u.bonuscount \in 0 .. BONUS_CAP
  BY <1>3 DEF Good, Counts
<1>9. u.pending = NOCHANGE => w.pending = NOCHANGE
  BY <1>3
<1>10. Better(w, u, h, p)
  BY <1>1, <1>2, <1>3, <1>4, <1>5, <1>6, <1>7, <1>8, <1>9, BetterIs
<1> QED BY <1>10 DEF u, h

(* Rounds, and the weapon they bring up.                                   *)
LEMMA LoadedIs ==
  ASSUME NEW w, NEW f, NEW p, Good(w), At(w), Same(f, w, p), NEW m \in [Ammo -> Nat],
         \A a \in Ammo : m[a] <= MaxAmmo(w, a) /\ m[a] >= w.ammo[a],
         NEW g \in w.owned \cup {NOCHANGE}, g = NOCHANGE => w.pending = NOCHANGE
  PROVE  Better(w, [w EXCEPT !.ammo = m, !.pending = g], [f EXCEPT !.ammo = m, !.pending = g], p)
<1> DEFINE u == [w EXCEPT !.ammo = m, !.pending = g]
           h == [f EXCEPT !.ammo = m, !.pending = g]
<1>1. DOMAIN u = Fields /\ u.ammo = m /\ u.pending = g /\ \A x \in Fields \ {"ammo", "pending"} : u[x] = w[x]
  BY FieldsAre DEF Good
<1>2. Same(h, u, p)
  BY FieldsAre DEF Good, Same
<1> HIDE DEF u, h
<1>3. /\ u.ready = w.ready /\ u.backpack = w.backpack /\ u.owned = w.owned /\ u.health = w.health
      /\ u.dead = w.dead /\ u.armor = w.armor /\ u.armortype = w.armortype /\ u.restart = w.restart
      /\ u.cards = w.cards /\ u.items = w.items /\ u.strength = w.strength /\ u.ironfeet = w.ironfeet
      /\ u.bonuscount = w.bonuscount
  BY <1>1, FieldsAre
<1>4. Owns(u) /\ Flesh(u)
  BY <1>1, <1>3 DEF Good, Owns, Flesh
<1>5. Mags(u)
  BY <1>1, <1>3 DEF Good, Mags, MaxAmmo
<1>6. \A x \in Fields \ Gifts : u[x] = w[x]
  BY <1>1 DEF Gifts
<1>7. /\ u.cards \subseteq CardThing /\ u.items \subseteq Items /\ u.strength \in 0 .. STRENGTH_CAP
      /\ u.ironfeet \in 0 .. IRONTICS /\ u.bonuscount \in 0 .. BONUS_CAP
  BY <1>3 DEF Good, Counts
<1>8. u.pending = NOCHANGE => w.pending = NOCHANGE
  BY <1>1
<1>9. \A a \in Ammo : u.ammo[a] >= w.ammo[a]
  BY <1>1
<1>10. Better(w, u, h, p)
  BY <1>1, <1>2, <1>3, <1>4, <1>5, <1>6, <1>7, <1>8, <1>9, BetterIs
<1> QED BY <1>10 DEF u, h

LEMMA NoWrap ==
  ASSUME NEW n \in Nat, NEW m \in Nat \ {0}, n < m
  PROVE  n % m = n
OBVIOUS

LEMMA BetterItself ==
  ASSUME NEW w, NEW f, NEW p, Good(w), At(w), Same(f, w, p)
  PROVE  Better(w, w, f, p)
BY DEF Better

(* A clip of a, or five, in one magazine: none spills, and none wraps.     *)
LEMMA RoundsAre ==
  ASSUME NEW w, Good(w), NEW a \in Ammo, NEW n \in Nat, n <= 5 * CLIPAMMO[a]
  PROVE  /\ w.ammo[a] \in Nat /\ MaxAmmo(w, a) \in Nat /\ w.ammo[a] <= MaxAmmo(w, a)
         /\ (w.ammo[a] + n) % 4096 = w.ammo[a] + n
<1>1. w.ammo[a] \in Nat /\ w.ammo[a] <= MaxAmmo(w, a) /\ w.backpack \in {0, 1}
  BY DEF Good, Mags
<1>2. MAXAMMO[a] \in Nat /\ CLIPAMMO[a] \in Nat /\ 2 * MAXAMMO[a] + 5 * CLIPAMMO[a] < 4096
  BY InventoryBounds
<1>3. MaxAmmo(w, a) \in Nat /\ MaxAmmo(w, a) <= 2 * MAXAMMO[a]
  BY <1>1, <1>2 DEF MaxAmmo
<1> DEFINE m == MaxAmmo(w, a)
           k == w.ammo[a]
           most == MAXAMMO[a]
           clip == CLIPAMMO[a]
<1>4. k \in Nat /\ m \in Nat /\ most \in Nat /\ clip \in Nat /\ k <= m /\ m <= 2 * most /\ 2 * most + 5 * clip < 4096
      /\ n <= 5 * clip
  BY <1>1, <1>2, <1>3
<1> HIDE DEF m, k, most, clip
<1>5. k + n \in Nat /\ k + n < 4096
  BY <1>4
<1>6. (k + n) % 4096 = k + n
  BY <1>5, NoWrap
<1> QED BY <1>4, <1>6 DEF m, k

LEMMA SwitchIs ==
  ASSUME NEW w, Good(w), NEW a \in Ammo
  PROVE  Switch(w, a) \in w.owned \cup {NOCHANGE} /\ (Switch(w, a) = NOCHANGE => w.pending = NOCHANGE)
<1>1. "pistol" \in w.owned /\ w.pending \in w.owned \cup {NOCHANGE} /\ w.owned \subseteq Weapon
  BY DEF Good, Owns
<1>2. NOCHANGE \notin Weapon
  BY DEF Weapon, NOCHANGE
<1>3. NOCHANGE \notin w.owned
  BY <1>1, <1>2
<1> HIDE DEF NOCHANGE
<1>4. CASE a = "clip"
  BY <1>1, <1>3, <1>4 DEF Switch
<1>5. CASE a = "shell"
  BY <1>1, <1>3, <1>5 DEF Switch
<1>6. CASE a = "cell"
  BY <1>1, <1>3, <1>6 DEF Switch
<1>7. CASE a = "misl"
  BY <1>1, <1>3, <1>7 DEF Switch
<1> QED BY <1>4, <1>5, <1>6, <1>7 DEF Ammo

LEMMA SwitchAlike ==
  ASSUME NEW f, NEW w, NEW p, Same(f, w, p), NEW a \in Ammo
  PROVE  Switch(f, a) = Switch(w, a) /\ MaxAmmo(f, a) = MaxAmmo(w, a)
<1>1. f.ready = w.ready /\ f.owned = w.owned /\ f.pending = w.pending /\ f.backpack = w.backpack
  BY SameReads
<1>2. MaxAmmo(f, a) = MaxAmmo(w, a)
  BY <1>1 DEF MaxAmmo
<1> QED BY <1>1, <1>2 DEF Switch, Ammo

LEMMA AmmoGiven ==
  ASSUME NEW w, NEW f, NEW p, Good(w), At(w), Same(f, w, p), NEW a \in Ammo, NEW clips \in Nat,
         NEW n \in Nat, n = Rounds(a, clips), n <= 5 * CLIPAMMO[a]
  PROVE  Gives(w, GiveAmmo(w, a, clips), Ga(f, a, n), p)
<1>1. f.ammo = w.ammo /\ MaxAmmo(f, a) = MaxAmmo(w, a) /\ Switch(f, a) = Switch(w, a) /\ f.pending = w.pending
  BY SameReads, SwitchAlike
<1>2. /\ w.ammo[a] \in Nat /\ MaxAmmo(w, a) \in Nat /\ w.ammo[a] <= MaxAmmo(w, a)
      /\ (w.ammo[a] + n) % 4096 = w.ammo[a] + n
  BY RoundsAre
<1>3. CASE w.ammo[a] = MaxAmmo(w, a)
  <2>1. GiveAmmo(w, a, clips) = Refused(w) /\ Ga(f, a, n) = Refused(f)
    BY <1>1, <1>3 DEF GiveAmmo, Ga
  <2> QED BY <2>1, BetterItself DEF Gives, Refused
<1>4. CASE w.ammo[a] # MaxAmmo(w, a)
  <2> DEFINE k == Lesser(w.ammo[a] + n, MaxAmmo(w, a))
             g == IF w.ammo[a] = 0 THEN Switch(w, a) ELSE w.pending
             m == [w.ammo EXCEPT ![a] = k]
             u == [w EXCEPT !.ammo = m, !.pending = g]
             h == [f EXCEPT !.ammo = m, !.pending = g]
  <2>1. GiveAmmo(w, a, clips) = Taken(u)
    BY <1>4, FieldsAre DEF GiveAmmo, Good
  <2>2. Ga(f, a, n) = Taken(h)
    <3> DEFINE k2 == Lesser((f.ammo[a] + n) % 4096, MaxAmmo(f, a))
               g2 == IF f.ammo[a] = 0 THEN Switch(f, a) ELSE f.pending
    <3>1. Ga(f, a, n) = Taken([f EXCEPT !.ammo = [f.ammo EXCEPT ![a] = k2], !.pending = g2])
      BY <1>1, <1>4 DEF Ga
    <3>2. k2 = k /\ g2 = g
      BY <1>1, <1>2
    <3> HIDE DEF k, g, k2, g2
    <3> QED BY <1>1, <3>1, <3>2
  <2>3. k \in Nat /\ k <= MaxAmmo(w, a) /\ k >= w.ammo[a]
    BY <1>2 DEF Lesser
  <2>4. g \in w.owned \cup {NOCHANGE} /\ (g = NOCHANGE => w.pending = NOCHANGE)
    BY SwitchIs DEF Good, Owns
  <2> HIDE DEF k, g
  <2>5. w.ammo \in [Ammo -> Nat] /\ \A b \in Ammo : w.ammo[b] <= MaxAmmo(w, b)
    BY DEF Good, Mags
  <2>6. m \in [Ammo -> Nat]
    BY <2>3, <2>5
  <2>7. \A b \in Ammo : m[b] <= MaxAmmo(w, b) /\ m[b] >= w.ammo[b]
    BY <2>3, <2>5
  <2> HIDE DEF m
  <2>8. Better(w, u, h, p)
    BY <2>4, <2>6, <2>7, LoadedIs
  <2> HIDE DEF u, h
  <2> QED BY <2>1, <2>2, <2>8 DEF Gives, Taken
<1> QED BY <1>3, <1>4

(* A weapon among his own.                                                 *)
LEMMA OwnedIs ==
  ASSUME NEW w, NEW f, NEW p, Good(w), At(w), Same(f, w, p), NEW g \in Weapon, g = "plasma" => PlasmaMap
  PROVE  Better(w, [w EXCEPT !.owned = @ \cup {g}, !.pending = g], [f EXCEPT !.owned = @ \cup {g}, !.pending = g], p)
<1> DEFINE o == w.owned \cup {g}
           u == [w EXCEPT !.owned = o, !.pending = g]
           h == [f EXCEPT !.owned = o, !.pending = g]
<1>0. u = [w EXCEPT !.owned = @ \cup {g}, !.pending = g] /\ h = [f EXCEPT !.owned = @ \cup {g}, !.pending = g]
  <2>1. f.owned = w.owned
    BY SameReads
  <2> QED BY <2>1
<1>1. DOMAIN u = Fields /\ u.owned = o /\ u.pending = g /\ \A x \in Fields \ {"owned", "pending"} : u[x] = w[x]
  BY FieldsAre DEF Good
<1>2. Same(h, u, p)
  BY FieldsAre DEF Good, Same
<1> HIDE DEF u, h
<1>3. /\ u.ready = w.ready /\ u.backpack = w.backpack /\ u.ammo = w.ammo /\ u.health = w.health
      /\ u.dead = w.dead /\ u.armor = w.armor /\ u.armortype = w.armortype /\ u.restart = w.restart
      /\ u.cards = w.cards /\ u.items = w.items /\ u.strength = w.strength /\ u.ironfeet = w.ironfeet
      /\ u.bonuscount = w.bonuscount
  BY <1>1, FieldsAre
<1>4. Owns(u) /\ Flesh(u)
  BY <1>1, <1>3 DEF Good, Owns, Flesh
<1>5. Mags(u)
  BY <1>3 DEF Good, Mags, MaxAmmo
<1>6. \A x \in Fields \ Gifts : u[x] = w[x]
  BY <1>1 DEF Gifts
<1>7. /\ u.cards \subseteq CardThing /\ u.items \subseteq Items /\ u.strength \in 0 .. STRENGTH_CAP
      /\ u.ironfeet \in 0 .. IRONTICS /\ u.bonuscount \in 0 .. BONUS_CAP
  BY <1>3 DEF Good, Counts
<1>8. u.pending = NOCHANGE => w.pending = NOCHANGE
  BY <1>1 DEF Weapon, NOCHANGE
<1>9. \A a \in Ammo : u.ammo[a] >= w.ammo[a]
  BY <1>3 DEF Good, Mags
<1>10. Better(w, u, h, p)
  BY <1>1, <1>2, <1>3, <1>4, <1>5, <1>6, <1>7, <1>8, <1>9, BetterIs
<1> QED BY <1>0, <1>10

LEMMA WeaponGiven ==
  ASSUME NEW w, NEW f, NEW p, Good(w), At(w), Same(f, w, p), NEW g \in Weapon, g = "plasma" => PlasmaMap,
         NEW clips \in 0 .. 2, AmmoOf[g] # "none" => clips # 0
  PROVE  Gives(w, GiveWeapon(w, g, clips), EmittedWeapon(f, g, clips), p)
<1> DEFINE r == IF AmmoOf[g] = "none" THEN Refused(w) ELSE GiveAmmo(w, AmmoOf[g], clips)
           e == IF AmmoOf[g] = "none" THEN Refused(f) ELSE Ga(f, AmmoOf[g], clips * CLIPAMMO[AmmoOf[g]])
<1>1. Gives(w, r, e, p)
  <2>1. CASE AmmoOf[g] = "none"
    BY <2>1, BetterItself DEF Gives, Refused
  <2>2. CASE AmmoOf[g] # "none"
    <3> DEFINE a == AmmoOf[g]
               n == clips * CLIPAMMO[a]
    <3>1. a \in Ammo
      BY <2>2 DEF Weapon, AmmoOf, Ammo
    <3>2. CLIPAMMO[a] \in Nat /\ clips # 0 /\ clips \in Nat
      BY <2>2, <3>1, InventoryBounds
    <3> HIDE DEF a
    <3>3. n = Rounds(a, clips)
      BY <3>2 DEF Rounds
    <3>4. n \in Nat /\ n <= 5 * CLIPAMMO[a]
      <4>1. clips = 1 \/ clips = 2
        BY <3>2
      <4> QED BY <3>2, <4>1
    <3> HIDE DEF n
    <3>5. Gives(w, GiveAmmo(w, a, clips), Ga(f, a, n), p)
      BY <3>1, <3>2, <3>3, <3>4, AmmoGiven
    <3> QED BY <2>2, <3>5 DEF a, n
  <2> QED BY <2>1, <2>2
<1>2. /\ GiveWeapon(w, g, clips) =
           IF g \in w.owned THEN r ELSE Taken([r.who EXCEPT !.owned = @ \cup {g}, !.pending = g])
      /\ EmittedWeapon(f, g, clips) =
           IF g \in f.owned THEN e ELSE Taken([e.who EXCEPT !.owned = @ \cup {g}, !.pending = g])
  BY DEF GiveWeapon, EmittedWeapon
<1> HIDE DEF r, e
<1>3. f.owned = w.owned
  BY SameReads
<1>4. Better(w, [r.who EXCEPT !.owned = @ \cup {g}, !.pending = g], [e.who EXCEPT !.owned = @ \cup {g}, !.pending = g], p)
  <2>1. Better(w, r.who, e.who, p)
    BY <1>1 DEF Gives
  <2> DEFINE u == r.who
             h == e.who
  <2>2. Good(u) /\ At(u) /\ Same(h, u, p)
    BY <2>1 DEF Better
  <2> HIDE DEF u, h
  <2>3. Better(u, [u EXCEPT !.owned = @ \cup {g}, !.pending = g], [h EXCEPT !.owned = @ \cup {g}, !.pending = g], p)
    BY <2>2, OwnedIs
  <2> QED BY <2>1, <2>3, BetterIsTransitive DEF u, h
<1> DEFINE u == [r.who EXCEPT !.owned = @ \cup {g}, !.pending = g]
           h == [e.who EXCEPT !.owned = @ \cup {g}, !.pending = g]
<1>5. Gives(w, Taken(u), Taken(h), p)
  <2>1. Better(w, u, h, p)
    BY <1>4
  <2> HIDE DEF u, h
  <2> QED BY <2>1 DEF Gives, Taken
<1>6. CASE g \in w.owned
  BY <1>1, <1>2, <1>3, <1>6
<1>7. CASE g \notin w.owned
  <2>1. GiveWeapon(w, g, clips) = Taken(u) /\ EmittedWeapon(f, g, clips) = Taken(h)
    BY <1>2, <1>3, <1>7
  <2> HIDE DEF u, h
  <2> QED BY <1>5, <2>1
<1> QED BY <1>6, <1>7

(* Health, of one who has some.                                            *)
LEMMA HealthIs ==
  ASSUME NEW w, NEW f, NEW p, Good(w), At(w), Same(f, w, p),
         w.dead # 1, NEW k \in 1 .. 2 * MAXHEALTH
  PROVE  Better(w, [w EXCEPT !.health = k], [f EXCEPT !.health = k], p)
<1> DEFINE u == [w EXCEPT !.health = k]
           h == [f EXCEPT !.health = k]
<1>1. DOMAIN u = Fields /\ u.health = k
      /\ \A x \in Fields \ {"health"} : u[x] = w[x]
  BY FieldsAre DEF Good
<1>2. Same(h, u, p)
  <2>1. k % 4096 = k
    BY InventoryBounds, NoWrap
  <2> QED BY <2>1, FieldsAre DEF Good, Same
<1> HIDE DEF u, h
<1>3. /\ u.ready = w.ready /\ u.pending = w.pending /\ u.owned = w.owned /\ u.backpack = w.backpack
      /\ u.ammo = w.ammo /\ u.dead = w.dead /\ u.armor = w.armor /\ u.armortype = w.armortype
      /\ u.restart = w.restart /\ u.cards = w.cards /\ u.items = w.items /\ u.strength = w.strength
      /\ u.ironfeet = w.ironfeet /\ u.bonuscount = w.bonuscount
  BY <1>1, FieldsAre
<1>4. Owns(u) /\ Flesh(u)
  BY InventoryBounds, <1>1, <1>3 DEF Good, Owns, Flesh
<1>5. Mags(u)
  BY <1>3 DEF Good, Mags, MaxAmmo
<1>6. \A x \in Fields \ Gifts : u[x] = w[x]
  BY <1>1 DEF Gifts
<1>7. /\ u.cards \subseteq CardThing /\ u.items \subseteq Items /\ u.strength \in 0 .. STRENGTH_CAP
      /\ u.ironfeet \in 0 .. IRONTICS /\ u.bonuscount \in 0 .. BONUS_CAP
  BY <1>1, <1>3, InventoryBounds DEF Good, Counts
<1>8. u.pending = NOCHANGE => w.pending = NOCHANGE
  BY <1>1, <1>3
<1>9. \A a \in Ammo : u.ammo[a] >= w.ammo[a]
  BY <1>3 DEF Good, Mags
<1>10. Better(w, u, h, p)
  BY <1>1, <1>2, <1>3, <1>4, <1>5, <1>6, <1>7, <1>8, <1>9, BetterIs
<1> QED BY <1>10 DEF u, h

LEMMA ArmorIs ==
  ASSUME NEW w, NEW f, NEW p, Good(w), At(w), Same(f, w, p),
         NEW t \in 1 .. 2, NEW k \in 1 .. 2 * ARMOR
  PROVE  Better(w, [w EXCEPT !.armortype = t, !.armor = k], [f EXCEPT !.armortype = t, !.armor = k], p)
<1> DEFINE u == [w EXCEPT !.armortype = t, !.armor = k]
           h == [f EXCEPT !.armortype = t, !.armor = k]
<1>1. DOMAIN u = Fields /\ u.armortype = t /\ u.armor = k
      /\ \A x \in Fields \ {"armortype", "armor"} : u[x] = w[x]
  BY FieldsAre DEF Good
<1>2. Same(h, u, p)
  BY FieldsAre DEF Good, Same
<1> HIDE DEF u, h
<1>3. /\ u.ready = w.ready /\ u.pending = w.pending /\ u.owned = w.owned /\ u.backpack = w.backpack
      /\ u.ammo = w.ammo /\ u.health = w.health /\ u.dead = w.dead /\ u.restart = w.restart
      /\ u.cards = w.cards /\ u.items = w.items /\ u.strength = w.strength /\ u.ironfeet = w.ironfeet
      /\ u.bonuscount = w.bonuscount
  BY <1>1, FieldsAre
<1>4. Owns(u) /\ Flesh(u)
  BY InventoryBounds, <1>1, <1>3 DEF Good, Owns, Flesh
<1>5. Mags(u)
  BY <1>3 DEF Good, Mags, MaxAmmo
<1>6. \A x \in Fields \ Gifts : u[x] = w[x]
  BY <1>1 DEF Gifts
<1>7. /\ u.cards \subseteq CardThing /\ u.items \subseteq Items /\ u.strength \in 0 .. STRENGTH_CAP
      /\ u.ironfeet \in 0 .. IRONTICS /\ u.bonuscount \in 0 .. BONUS_CAP
  BY <1>1, <1>3, InventoryBounds DEF Good, Counts
<1>8. u.pending = NOCHANGE => w.pending = NOCHANGE
  BY <1>1, <1>3
<1>9. \A a \in Ammo : u.ammo[a] >= w.ammo[a]
  BY <1>3 DEF Good, Mags
<1>10. Better(w, u, h, p)
  BY <1>1, <1>2, <1>3, <1>4, <1>5, <1>6, <1>7, <1>8, <1>9, BetterIs
<1> QED BY <1>10 DEF u, h

LEMMA CardsAre ==
  ASSUME NEW w, NEW f, NEW p, Good(w), At(w), Same(f, w, p),
         NEW c \in SUBSET CardThing, NEW n \in 0 .. BONUS_CAP
  PROVE  Better(w, [w EXCEPT !.cards = c, !.bonuscount = n], [f EXCEPT !.cards = c, !.bonuscount = n], p)
<1> DEFINE u == [w EXCEPT !.cards = c, !.bonuscount = n]
           h == [f EXCEPT !.cards = c, !.bonuscount = n]
<1>1. DOMAIN u = Fields /\ u.cards = c /\ u.bonuscount = n
      /\ \A x \in Fields \ {"cards", "bonuscount"} : u[x] = w[x]
  BY FieldsAre DEF Good
<1>2. Same(h, u, p)
  BY FieldsAre DEF Good, Same
<1> HIDE DEF u, h
<1>3. /\ u.ready = w.ready /\ u.pending = w.pending /\ u.owned = w.owned /\ u.backpack = w.backpack
      /\ u.ammo = w.ammo /\ u.health = w.health /\ u.dead = w.dead /\ u.armor = w.armor
      /\ u.armortype = w.armortype /\ u.restart = w.restart /\ u.items = w.items /\ u.strength = w.strength
      /\ u.ironfeet = w.ironfeet
  BY <1>1, FieldsAre
<1>4. Owns(u) /\ Flesh(u)
  BY <1>1, <1>3 DEF Good, Owns, Flesh
<1>5. Mags(u)
  BY <1>3 DEF Good, Mags, MaxAmmo
<1>6. \A x \in Fields \ Gifts : u[x] = w[x]
  BY <1>1 DEF Gifts
<1>7. /\ u.cards \subseteq CardThing /\ u.items \subseteq Items /\ u.strength \in 0 .. STRENGTH_CAP
      /\ u.ironfeet \in 0 .. IRONTICS /\ u.bonuscount \in 0 .. BONUS_CAP
  BY <1>1, <1>3, InventoryBounds DEF Good, Counts
<1>8. u.pending = NOCHANGE => w.pending = NOCHANGE
  BY <1>1, <1>3
<1>9. \A a \in Ammo : u.ammo[a] >= w.ammo[a]
  BY <1>3 DEF Good, Mags
<1>10. Better(w, u, h, p)
  BY <1>1, <1>2, <1>3, <1>4, <1>5, <1>6, <1>7, <1>8, <1>9, BetterIs
<1> QED BY <1>10 DEF u, h

LEMMA SuitIs ==
  ASSUME NEW w, NEW f, NEW p, Good(w), At(w), Same(f, w, p),
         NEW n \in 0 .. IRONTICS
  PROVE  Better(w, [w EXCEPT !.ironfeet = n], [f EXCEPT !.ironfeet = n], p)
<1> DEFINE u == [w EXCEPT !.ironfeet = n]
           h == [f EXCEPT !.ironfeet = n]
<1>1. DOMAIN u = Fields /\ u.ironfeet = n
      /\ \A x \in Fields \ {"ironfeet"} : u[x] = w[x]
  BY FieldsAre DEF Good
<1>2. Same(h, u, p)
  BY FieldsAre DEF Good, Same
<1> HIDE DEF u, h
<1>3. /\ u.ready = w.ready /\ u.pending = w.pending /\ u.owned = w.owned /\ u.backpack = w.backpack
      /\ u.ammo = w.ammo /\ u.health = w.health /\ u.dead = w.dead /\ u.armor = w.armor
      /\ u.armortype = w.armortype /\ u.restart = w.restart /\ u.cards = w.cards /\ u.items = w.items
      /\ u.strength = w.strength /\ u.bonuscount = w.bonuscount
  BY <1>1, FieldsAre
<1>4. Owns(u) /\ Flesh(u)
  BY <1>1, <1>3 DEF Good, Owns, Flesh
<1>5. Mags(u)
  BY <1>3 DEF Good, Mags, MaxAmmo
<1>6. \A x \in Fields \ Gifts : u[x] = w[x]
  BY <1>1 DEF Gifts
<1>7. /\ u.cards \subseteq CardThing /\ u.items \subseteq Items /\ u.strength \in 0 .. STRENGTH_CAP
      /\ u.ironfeet \in 0 .. IRONTICS /\ u.bonuscount \in 0 .. BONUS_CAP
  BY <1>1, <1>3, InventoryBounds DEF Good, Counts
<1>8. u.pending = NOCHANGE => w.pending = NOCHANGE
  BY <1>1, <1>3
<1>9. \A a \in Ammo : u.ammo[a] >= w.ammo[a]
  BY <1>3 DEF Good, Mags
<1>10. Better(w, u, h, p)
  BY <1>1, <1>2, <1>3, <1>4, <1>5, <1>6, <1>7, <1>8, <1>9, BetterIs
<1> QED BY <1>10 DEF u, h

LEMMA BerserkIs ==
  ASSUME NEW w, NEW f, NEW p, Good(w), At(w), Same(f, w, p),
         NEW g \in w.owned \cup {NOCHANGE}, g = NOCHANGE => w.pending = NOCHANGE
  PROVE  Better(w, [w EXCEPT !.strength = 1, !.pending = g], [f EXCEPT !.strength = 1, !.pending = g], p)
<1> DEFINE u == [w EXCEPT !.strength = 1, !.pending = g]
           h == [f EXCEPT !.strength = 1, !.pending = g]
<1>1. DOMAIN u = Fields /\ u.strength = 1 /\ u.pending = g
      /\ \A x \in Fields \ {"strength", "pending"} : u[x] = w[x]
  BY FieldsAre DEF Good
<1>2. Same(h, u, p)
  BY FieldsAre DEF Good, Same
<1> HIDE DEF u, h
<1>3. /\ u.ready = w.ready /\ u.owned = w.owned /\ u.backpack = w.backpack /\ u.ammo = w.ammo
      /\ u.health = w.health /\ u.dead = w.dead /\ u.armor = w.armor /\ u.armortype = w.armortype
      /\ u.restart = w.restart /\ u.cards = w.cards /\ u.items = w.items /\ u.ironfeet = w.ironfeet
      /\ u.bonuscount = w.bonuscount
  BY <1>1, FieldsAre
<1>4. Owns(u) /\ Flesh(u)
  BY <1>1, <1>3 DEF Good, Owns, Flesh
<1>5. Mags(u)
  BY <1>3 DEF Good, Mags, MaxAmmo
<1>6. \A x \in Fields \ Gifts : u[x] = w[x]
  BY <1>1 DEF Gifts
<1>7. /\ u.cards \subseteq CardThing /\ u.items \subseteq Items /\ u.strength \in 0 .. STRENGTH_CAP
      /\ u.ironfeet \in 0 .. IRONTICS /\ u.bonuscount \in 0 .. BONUS_CAP
  BY <1>1, <1>3, InventoryBounds DEF Good, Counts
<1>8. u.pending = NOCHANGE => w.pending = NOCHANGE
  BY <1>1, <1>3
<1>9. \A a \in Ammo : u.ammo[a] >= w.ammo[a]
  BY <1>3 DEF Good, Mags
<1>10. Better(w, u, h, p)
  BY <1>1, <1>2, <1>3, <1>4, <1>5, <1>6, <1>7, <1>8, <1>9, BetterIs
<1> QED BY <1>10 DEF u, h

LEMMA BonusIs ==
  ASSUME NEW w, NEW f, NEW p, Good(w), At(w), Same(f, w, p),
         NEW n \in 0 .. BONUS_CAP
  PROVE  Better(w, [w EXCEPT !.bonuscount = n], [f EXCEPT !.bonuscount = n], p)
<1> DEFINE u == [w EXCEPT !.bonuscount = n]
           h == [f EXCEPT !.bonuscount = n]
<1>1. DOMAIN u = Fields /\ u.bonuscount = n
      /\ \A x \in Fields \ {"bonuscount"} : u[x] = w[x]
  BY FieldsAre DEF Good
<1>2. Same(h, u, p)
  BY FieldsAre DEF Good, Same
<1> HIDE DEF u, h
<1>3. /\ u.ready = w.ready /\ u.pending = w.pending /\ u.owned = w.owned /\ u.backpack = w.backpack
      /\ u.ammo = w.ammo /\ u.health = w.health /\ u.dead = w.dead /\ u.armor = w.armor
      /\ u.armortype = w.armortype /\ u.restart = w.restart /\ u.cards = w.cards /\ u.items = w.items
      /\ u.strength = w.strength /\ u.ironfeet = w.ironfeet
  BY <1>1, FieldsAre
<1>4. Owns(u) /\ Flesh(u)
  BY <1>1, <1>3 DEF Good, Owns, Flesh
<1>5. Mags(u)
  BY <1>3 DEF Good, Mags, MaxAmmo
<1>6. \A x \in Fields \ Gifts : u[x] = w[x]
  BY <1>1 DEF Gifts
<1>7. /\ u.cards \subseteq CardThing /\ u.items \subseteq Items /\ u.strength \in 0 .. STRENGTH_CAP
      /\ u.ironfeet \in 0 .. IRONTICS /\ u.bonuscount \in 0 .. BONUS_CAP
  BY <1>1, <1>3, InventoryBounds DEF Good, Counts
<1>8. u.pending = NOCHANGE => w.pending = NOCHANGE
  BY <1>1, <1>3
<1>9. \A a \in Ammo : u.ammo[a] >= w.ammo[a]
  BY <1>3 DEF Good, Mags
<1>10. Better(w, u, h, p)
  BY <1>1, <1>2, <1>3, <1>4, <1>5, <1>6, <1>7, <1>8, <1>9, BetterIs
<1> QED BY <1>10 DEF u, h

LEMMA BodyGiven ==
  ASSUME NEW w, NEW f, NEW p, Good(w), At(w), Same(f, w, p), w.dead # 1, NEW num \in Nat \ {0}, num <= MAXHEALTH + 25
  PROVE  Gives(w, GiveBody(w, num), EmittedBody(f, num), p)
<1>1. w.health \in Int /\ w.health > 0 /\ w.health <= 2 * MAXHEALTH /\ f.health = w.health
  BY HealthReads DEF Good, Flesh
<1>2. MAXHEALTH \in Nat /\ 2 * MAXHEALTH < 2048
  BY InventoryBounds
<1>3. CASE w.health >= MAXHEALTH
  <2>1. GiveBody(w, num) = Refused(w) /\ EmittedBody(f, num) = Refused(f)
    BY <1>1, <1>3 DEF GiveBody, EmittedBody
  <2> QED BY <2>1, BetterItself DEF Gives, Refused
<1>4. CASE ~(w.health >= MAXHEALTH)
  <2> DEFINE k == Lesser(w.health + num, MAXHEALTH)
             u == [w EXCEPT !.health = k]
             h == [f EXCEPT !.health = k]
  <2>1. (w.health + num) % 4096 = w.health + num
    <3> DEFINE s == w.health + num
    <3>1. s \in Nat /\ s < 4096
      BY <1>1, <1>2, <1>4
    <3> HIDE DEF s
    <3>2. s % 4096 = s
      BY <3>1, NoWrap
    <3> QED BY <3>2 DEF s
  <2>2. k \in 1 .. 2 * MAXHEALTH
    BY <1>1, <1>2, <1>4 DEF Lesser
  <2>3. GiveBody(w, num) = Taken(u) /\ EmittedBody(f, num) = Taken(h)
    BY <1>1, <1>4, <2>1 DEF GiveBody, EmittedBody, Healed
  <2> HIDE DEF k
  <2>4. Better(w, u, h, p)
    BY <2>2, HealthIs
  <2> HIDE DEF u, h
  <2> QED BY <2>3, <2>4 DEF Gives, Taken
<1> QED BY <1>3, <1>4

(* A bonus of health, to twice the most.                                   *)
LEMMA HealthGiven ==
  ASSUME NEW w, NEW f, NEW p, Good(w), At(w), Same(f, w, p), w.dead # 1, NEW num \in 1 .. MAXHEALTH
  PROVE  Better(w, [w EXCEPT !.health = Lesser(@ + num, 2 * MAXHEALTH)], Healed(f, num, 2 * MAXHEALTH), p)
<1>1. w.health \in Int /\ w.health > 0 /\ w.health <= 2 * MAXHEALTH /\ f.health = w.health
  BY HealthReads DEF Good, Flesh
<1>2. MAXHEALTH \in Nat /\ 2 * MAXHEALTH < 2048
  BY InventoryBounds
<1> DEFINE k == Lesser(w.health + num, 2 * MAXHEALTH)
<1>3. (w.health + num) % 4096 = w.health + num
  <2> DEFINE s == w.health + num
  <2>1. s \in Nat /\ s < 4096
    BY <1>1, <1>2
  <2> HIDE DEF s
  <2>2. s % 4096 = s
    BY <2>1, NoWrap
  <2> QED BY <2>2 DEF s
<1>4. k \in 1 .. 2 * MAXHEALTH
  BY <1>1, <1>2 DEF Lesser
<1>5. Healed(f, num, 2 * MAXHEALTH) = [f EXCEPT !.health = k]
  BY <1>1, <1>3 DEF Healed
<1> QED BY <1>4, <1>5, HealthIs

LEMMA ArmorGiven ==
  ASSUME NEW w, NEW f, NEW p, Good(w), At(w), Same(f, w, p), NEW t \in 1 .. 2
  PROVE  Gives(w, GiveArmor(w, t),
               IF f.armor < t * ARMOR THEN Taken([f EXCEPT !.armortype = t, !.armor = (t * ARMOR) % 256])
               ELSE Refused(f), p)
<1>1. f.armor = w.armor /\ w.armor \in 0 .. 2 * ARMOR
  BY SameReads DEF Good, Flesh
<1> DEFINE k == t * ARMOR
<1>2. k \in 1 .. 2 * ARMOR /\ k \in Nat /\ k < 256
  <2>1. t = 1 \/ t = 2
    OBVIOUS
  <2> QED BY <2>1, InventoryBounds
<1>3. 1 * ARMOR \in Int /\ ARMOR \in Nat
  BY InventoryBounds
<1>4. GiveArmor(w, t) = IF w.armor >= k THEN Refused(w) ELSE Taken([w EXCEPT !.armortype = t, !.armor = k])
  BY DEF GiveArmor
<1> HIDE DEF k
<1>5. k % 256 = k
  BY <1>2, NoWrap
<1> DEFINE u == [w EXCEPT !.armortype = t, !.armor = k]
           h == [f EXCEPT !.armortype = t, !.armor = k]
           e == IF f.armor < k THEN Taken([f EXCEPT !.armortype = t, !.armor = k % 256]) ELSE Refused(f)
<1>6. Better(w, u, h, p)
  BY <1>2, ArmorIs
<1>7. e = IF f.armor < k THEN Taken(h) ELSE Refused(f)
  BY <1>5
<1> HIDE DEF u, h
<1>8. CASE w.armor >= k
  <2>1. GiveArmor(w, t) = Refused(w) /\ e = Refused(f)
    BY <1>1, <1>2, <1>4, <1>7, <1>8
  <2> HIDE DEF e
  <2>2. Gives(w, GiveArmor(w, t), e, p)
    BY <2>1, BetterItself DEF Gives, Refused
  <2> QED BY <2>2 DEF e, k
<1>9. CASE ~(w.armor >= k)
  <2>1. GiveArmor(w, t) = Taken(u) /\ e = Taken(h)
    BY <1>1, <1>2, <1>4, <1>7, <1>9 DEF u
  <2> HIDE DEF e
  <2>2. Gives(w, GiveArmor(w, t), e, p)
    BY <1>6, <2>1 DEF Gives, Taken
  <2> QED BY <2>2 DEF e, k
<1> QED BY <1>8, <1>9

(* An armor's bonus, to twice the armor; the first one makes it green.     *)
LEMMA BonusGiven ==
  ASSUME NEW w, NEW f, NEW p, Good(w), At(w), Same(f, w, p)
  PROVE  Better(w, [w EXCEPT !.armor = Lesser(@ + 1, 2 * ARMOR), !.armortype = IF @ = 0 THEN 1 ELSE @],
                   [f EXCEPT !.armor = Lesser((@ + 1) % 256, 2 * ARMOR), !.armortype = IF @ = 0 THEN 1 ELSE @], p)
<1>1. /\ f.armor = w.armor /\ w.armor \in 0 .. 2 * ARMOR /\ f.armortype = w.armortype /\ w.armortype \in 0 .. 2
  BY SameReads DEF Good, Flesh
<1>2. ARMOR \in Nat \ {0} /\ 2 * ARMOR < 255
  BY InventoryBounds
<1> DEFINE k == Lesser(w.armor + 1, 2 * ARMOR)
           t == IF w.armortype = 0 THEN 1 ELSE w.armortype
<1>3. (w.armor + 1) % 256 = w.armor + 1
  <2> DEFINE s == w.armor + 1
  <2>1. s \in Nat /\ s < 256
    BY <1>1, <1>2
  <2> HIDE DEF s
  <2>2. s % 256 = s
    BY <2>1, NoWrap
  <2> QED BY <2>2 DEF s
<1>4. k \in 1 .. 2 * ARMOR /\ t \in 1 .. 2
  BY <1>1, <1>2 DEF Lesser
<1> DEFINE u == [w EXCEPT !.armortype = t, !.armor = k]
           h == [f EXCEPT !.armortype = t, !.armor = k]
<1>5. u = [w EXCEPT !.armor = Lesser(@ + 1, 2 * ARMOR), !.armortype = IF @ = 0 THEN 1 ELSE @]
  <2>1. u = [w EXCEPT !.armor = k, !.armortype = t]
    <3> HIDE DEF k, t
    <3> QED OBVIOUS
  <2> QED BY <2>1
<1>6. h = [f EXCEPT !.armor = Lesser((@ + 1) % 256, 2 * ARMOR), !.armortype = IF @ = 0 THEN 1 ELSE @]
  <2> DEFINE k2 == Lesser((f.armor + 1) % 256, 2 * ARMOR)
             t2 == IF f.armortype = 0 THEN 1 ELSE f.armortype
  <2>1. k2 = k /\ t2 = t
    BY <1>1, <1>3
  <2>2. [f EXCEPT !.armor = Lesser((@ + 1) % 256, 2 * ARMOR), !.armortype = IF @ = 0 THEN 1 ELSE @]
          = [f EXCEPT !.armor = k2, !.armortype = t2]
    OBVIOUS
  <2> HIDE DEF k, t, k2, t2
  <2>3. h = [f EXCEPT !.armor = k, !.armortype = t]
    OBVIOUS
  <2> QED BY <2>1, <2>2, <2>3
<1> HIDE DEF k, t
<1>7. Better(w, u, h, p)
  BY <1>4, ArmorIs
<1> QED BY <1>5, <1>6, <1>7

LEMMA CardGiven ==
  ASSUME NEW w, NEW f, NEW p, Good(w), At(w), Same(f, w, p), NEW c \in CardThing
  PROVE  Better(w, IF c \in w.cards THEN w ELSE [w EXCEPT !.cards = @ \cup {c}, !.bonuscount = BONUSADD],
                   IF c \in f.cards THEN f ELSE [f EXCEPT !.bonuscount = BONUSADD, !.cards = @ \cup {c}], p)
<1>1. f.cards = w.cards /\ w.cards \in SUBSET CardThing /\ BONUSADD \in 0 .. BONUS_CAP
  BY SameReads, InventoryBounds DEF Good, Counts
<1> DEFINE k == w.cards \cup {c}
           n == BONUSADD
           u == [w EXCEPT !.cards = k, !.bonuscount = n]
           h == [f EXCEPT !.cards = k, !.bonuscount = n]
<1>2. k \in SUBSET CardThing /\ n \in 0 .. BONUS_CAP
  BY <1>1
<1>3. /\ u = [w EXCEPT !.cards = @ \cup {c}, !.bonuscount = BONUSADD]
      /\ h = [f EXCEPT !.bonuscount = BONUSADD, !.cards = @ \cup {c}]
  BY <1>1
<1> HIDE DEF k, n
<1>4. Better(w, u, h, p)
  BY <1>2, CardsAre
<1> HIDE DEF u, h
<1>5. CASE c \in w.cards
  BY <1>1, <1>5, BetterItself
<1>6. CASE c \notin w.cards
  BY <1>1, <1>3, <1>4, <1>6
<1> QED BY <1>5, <1>6

(* Berserk: the health, and the fist.                                      *)
LEMMA BerserkGiven ==
  ASSUME NEW w, NEW f, NEW p, Good(w), At(w), Same(f, w, p), w.dead # 1
  PROVE  Better(w,
           [GiveBody(w, MAXHEALTH).who EXCEPT !.strength = 1, !.pending = IF w.ready = "fist" THEN @ ELSE "fist"],
           [EmittedBody(f, MAXHEALTH).who EXCEPT !.strength = 1, !.pending = IF f.ready = "fist" THEN @ ELSE "fist"],
           p)
<1> DEFINE u == GiveBody(w, MAXHEALTH).who
           h == EmittedBody(f, MAXHEALTH).who
<1>1. Better(w, u, h, p)
  BY BodyGiven, InventoryBounds DEF Gives
<1> HIDE DEF u, h
<1>2. Good(u) /\ At(u) /\ Same(h, u, p) /\ u.ready = w.ready
  BY <1>1 DEF Better
<1>3. f.ready = w.ready /\ h.pending = u.pending
  BY <1>2, SameReads
<1> DEFINE g == IF w.ready = "fist" THEN u.pending ELSE "fist"
           v == [u EXCEPT !.strength = 1, !.pending = g]
           k == [h EXCEPT !.strength = 1, !.pending = g]
<1>4. /\ v = [u EXCEPT !.strength = 1, !.pending = IF w.ready = "fist" THEN @ ELSE "fist"]
      /\ k = [h EXCEPT !.strength = 1, !.pending = IF f.ready = "fist" THEN @ ELSE "fist"]
  <2> DEFINE g2 == IF f.ready = "fist" THEN h.pending ELSE "fist"
  <2>1. g2 = g
    BY <1>3
  <2>2. [h EXCEPT !.strength = 1, !.pending = IF f.ready = "fist" THEN @ ELSE "fist"]
          = [h EXCEPT !.strength = 1, !.pending = g2]
    OBVIOUS
  <2>3. [u EXCEPT !.strength = 1, !.pending = IF w.ready = "fist" THEN @ ELSE "fist"] = v
    OBVIOUS
  <2> HIDE DEF g, g2
  <2> QED BY <2>1, <2>2, <2>3
<1>5. g \in u.owned \cup {NOCHANGE} /\ (g = NOCHANGE => u.pending = NOCHANGE)
  <2>1. "fist" \in u.owned /\ u.pending \in u.owned \cup {NOCHANGE} /\ "fist" # NOCHANGE
    BY <1>2 DEF Good, Owns, NOCHANGE
  <2> HIDE DEF NOCHANGE
  <2> QED BY <2>1
<1> HIDE DEF g
<1>6. Better(u, v, k, p)
  BY <1>2, <1>5, BerserkIs
<1>7. Better(w, v, k, p)
  BY <1>1, <1>6, BetterIsTransitive
<1> QED BY <1>4, <1>7 DEF u, h

LEMMA ClipGiven ==
  ASSUME NEW w, NEW u, NEW h, NEW p, NEW a \in Ammo, Better(w, u, h, p)
  PROVE  Better(w, GiveAmmo(u, a, 1).who, Ga(h, a, CLIPAMMO[a]).who, p)
<1>1. Good(u) /\ At(u) /\ Same(h, u, p)
  BY DEF Better
<1>2. CLIPAMMO[a] \in Nat
  BY InventoryBounds
<1>3. CLIPAMMO[a] = Rounds(a, 1) /\ CLIPAMMO[a] <= 5 * CLIPAMMO[a]
  BY <1>2 DEF Rounds
<1>4. Gives(u, GiveAmmo(u, a, 1), Ga(h, a, CLIPAMMO[a]), p)
  BY <1>1, <1>2, <1>3, AmmoGiven
<1>5. Better(u, GiveAmmo(u, a, 1).who, Ga(h, a, CLIPAMMO[a]).who, p)
  BY <1>4 DEF Gives
<1> QED BY <1>5, BetterIsTransitive

LEMMA BackpackGiven ==
  ASSUME NEW w, NEW f, NEW p, Good(w), At(w), Same(f, w, p)
  PROVE  Better(w, GiveClips([w EXCEPT !.backpack = 1]), EmittedClips([f EXCEPT !.backpack = 1]), p)
<1> DEFINE u0 == [w EXCEPT !.backpack = 1]
           h0 == [f EXCEPT !.backpack = 1]
<1>1. Better(w, u0, h0, p)
  BY BackpackIs
<1> HIDE DEF u0, h0
<1> DEFINE u1 == GiveAmmo(u0, "clip", 1).who
           h1 == Ga(h0, "clip", CLIPAMMO["clip"]).who
<1>2. Better(w, u1, h1, p)
  BY <1>1, ClipGiven DEF Ammo
<1> HIDE DEF u1, h1
<1> DEFINE u2 == GiveAmmo(u1, "shell", 1).who
           h2 == Ga(h1, "shell", CLIPAMMO["shell"]).who
<1>3. Better(w, u2, h2, p)
  BY <1>2, ClipGiven DEF Ammo
<1> HIDE DEF u2, h2
<1> DEFINE u3 == GiveAmmo(u2, "cell", 1).who
           h3 == Ga(h2, "cell", CLIPAMMO["cell"]).who
<1>4. Better(w, u3, h3, p)
  BY <1>3, ClipGiven DEF Ammo
<1> HIDE DEF u3, h3
<1> DEFINE u4 == GiveAmmo(u3, "misl", 1).who
           h4 == Ga(h3, "misl", CLIPAMMO["misl"]).who
<1>5. Better(w, u4, h4, p)
  BY <1>4, ClipGiven DEF Ammo
<1>6. GiveClips(u0) = u4 /\ EmittedClips(h0) = h4
  BY DEF GiveClips, EmittedClips, u1, u2, u3, h1, h2, h3
<1> QED BY <1>5, <1>6 DEF u0, h0

LEMMA TakenIs ==
  ASSUME NEW w, NEW u, NEW h, NEW p, Better(w, u, h, p)
  PROVE  Gives(w, Taken(u), Taken(h), p)
BY DEF Gives, Taken

(* Each thing gives the model and the cells the same.                      *)
LEMMA ThingGiven ==
  ASSUME NEW w, NEW f, NEW p, Good(w), At(w), Same(f, w, p), w.dead # 1, NEW thing \in Thing,
         thing = "PLAS" => PlasmaMap
  PROVE  Gives(w, Given(w, thing), EmittedGive(f, thing), p)
<1>1. CASE thing \in DOMAIN AmmoThing
  <2> DEFINE a == AmmoThing[thing][1]
             clips == AmmoThing[thing][2]
             n == Rounds(a, clips)
  <2>1. Given(w, thing) = GiveAmmo(w, a, clips) /\ EmittedGive(f, thing) = Ga(f, a, n)
    BY <1>1 DEF Given, EmittedGive, AmmoThing, WeaponThing, ArmorThing, BodyThing, CardThing
  <2>2. a \in Ammo /\ clips \in {0, 1, 5}
    BY <1>1 DEF AmmoThing, Ammo
  <2> HIDE DEF a, clips
  <2>3. CLIPAMMO[a] \in Nat
    BY <2>2, InventoryBounds
  <2>4. n \in Nat /\ n <= 5 * CLIPAMMO[a] /\ clips \in Nat
    BY <2>2, <2>3 DEF Rounds
  <2> HIDE DEF n
  <2>5. n = Rounds(a, clips)
    BY DEF n
  <2> QED BY <2>1, <2>2, <2>4, <2>5, AmmoGiven
<1>2. CASE thing \in DOMAIN WeaponThing
  <2> DEFINE g == WeaponThing[thing][1]
             clips == WeaponThing[thing][2]
  <2>1. Given(w, thing) = GiveWeapon(w, g, clips) /\ EmittedGive(f, thing) = EmittedWeapon(f, g, clips)
    BY <1>2 DEF Given, EmittedGive, AmmoThing, WeaponThing, ArmorThing, BodyThing, CardThing
  <2>2. g \in Weapon /\ clips \in 0 .. 2 /\ (AmmoOf[g] # "none" => clips # 0) /\ (g = "plasma" => thing = "PLAS")
    BY <1>2 DEF WeaponThing, Weapon, AmmoOf
  <2> HIDE DEF g, clips
  <2> QED BY <2>1, <2>2, WeaponGiven
<1>3. CASE thing \in DOMAIN ArmorThing
  <2> DEFINE t == ArmorThing[thing]
  <2>1. /\ Given(w, thing) = GiveArmor(w, t)
        /\ EmittedGive(f, thing) =
             IF f.armor < t * ARMOR THEN Taken([f EXCEPT !.armortype = t, !.armor = (t * ARMOR) % 256])
             ELSE Refused(f)
    BY <1>3 DEF Given, EmittedGive, AmmoThing, WeaponThing, ArmorThing, BodyThing, CardThing
  <2>2. t \in 1 .. 2
    BY <1>3 DEF ArmorThing
  <2> HIDE DEF t
  <2> QED BY <2>1, <2>2, ArmorGiven
<1>4. CASE thing \in DOMAIN BodyThing
  <2> DEFINE n == BodyThing[thing]
  <2>1. Given(w, thing) = GiveBody(w, n) /\ EmittedGive(f, thing) = EmittedBody(f, n)
    BY <1>4 DEF Given, EmittedGive, AmmoThing, WeaponThing, ArmorThing, BodyThing, CardThing
  <2>2. n \in {10, 25}
    BY <1>4 DEF BodyThing
  <2> HIDE DEF n
  <2>3. n \in Nat \ {0} /\ n <= MAXHEALTH + 25
    BY <2>2, InventoryBounds
  <2> QED BY <2>1, <2>3, BodyGiven
<1>5. CASE thing \in CardThing
  <2> DEFINE u == IF thing \in w.cards THEN w ELSE [w EXCEPT !.cards = @ \cup {thing}, !.bonuscount = BONUSADD]
             h == IF thing \in f.cards THEN f ELSE [f EXCEPT !.bonuscount = BONUSADD, !.cards = @ \cup {thing}]
  <2>1. Given(w, thing) = Taken(u) /\ EmittedGive(f, thing) = Taken(h)
    BY <1>5 DEF Given, EmittedGive, AmmoThing, WeaponThing, ArmorThing, BodyThing, CardThing
  <2>2. Better(w, u, h, p)
    BY <1>5, CardGiven
  <2> HIDE DEF u, h
  <2> QED BY <2>1, <2>2, TakenIs
<1>6. CASE thing = "BON1"
  <2> DEFINE u == [w EXCEPT !.health = Lesser(@ + 1, 2 * MAXHEALTH)]
             h == Healed(f, 1, 2 * MAXHEALTH)
  <2>1. Given(w, thing) = Taken(u) /\ EmittedGive(f, thing) = Taken(h)
    BY <1>6 DEF Given, EmittedGive, AmmoThing, WeaponThing, ArmorThing, BodyThing, CardThing
  <2>2. 1 \in 1 .. MAXHEALTH
    BY InventoryBounds
  <2>3. Better(w, u, h, p)
    BY <2>2, HealthGiven
  <2> HIDE DEF u, h
  <2> QED BY <2>1, <2>3, TakenIs
<1>7. CASE thing = "BON2"
  <2> DEFINE u == [w EXCEPT !.armor = Lesser(@ + 1, 2 * ARMOR), !.armortype = IF @ = 0 THEN 1 ELSE @]
             h == [f EXCEPT !.armor = Lesser((@ + 1) % 256, 2 * ARMOR), !.armortype = IF @ = 0 THEN 1 ELSE @]
  <2>1. Given(w, thing) = Taken(u) /\ EmittedGive(f, thing) = Taken(h)
    BY <1>7 DEF Given, EmittedGive, AmmoThing, WeaponThing, ArmorThing, BodyThing, CardThing
  <2>2. Better(w, u, h, p)
    BY BonusGiven
  <2> HIDE DEF u, h
  <2> QED BY <2>1, <2>2, TakenIs
<1>8. CASE thing = "SOUL"
  <2> DEFINE u == [w EXCEPT !.health = Lesser(@ + MAXHEALTH, 2 * MAXHEALTH)]
             h == Healed(f, MAXHEALTH, 2 * MAXHEALTH)
  <2>1. Given(w, thing) = Taken(u) /\ EmittedGive(f, thing) = Taken(h)
    BY <1>8 DEF Given, EmittedGive, AmmoThing, WeaponThing, ArmorThing, BodyThing, CardThing
  <2>2. MAXHEALTH \in 1 .. MAXHEALTH
    BY InventoryBounds
  <2>3. Better(w, u, h, p)
    BY <2>2, HealthGiven
  <2> HIDE DEF u, h
  <2> QED BY <2>1, <2>3, TakenIs
<1>9. CASE thing = "SUIT"
  <2> DEFINE u == [w EXCEPT !.ironfeet = IRONTICS]
             h == [f EXCEPT !.ironfeet = IRONTICS]
  <2>1. Given(w, thing) = Taken(u) /\ EmittedGive(f, thing) = Taken(h)
    BY <1>9 DEF Given, EmittedGive, AmmoThing, WeaponThing, ArmorThing, BodyThing, CardThing
  <2>2. IRONTICS \in 0 .. IRONTICS
    BY InventoryBounds
  <2>3. Better(w, u, h, p)
    BY <2>2, SuitIs
  <2> HIDE DEF u, h
  <2> QED BY <2>1, <2>3, TakenIs
<1>10. CASE thing = "PSTR"
  <2> DEFINE u == [GiveBody(w, MAXHEALTH).who EXCEPT !.strength = 1, !.pending = IF w.ready = "fist" THEN @ ELSE "fist"]
             h == [EmittedBody(f, MAXHEALTH).who EXCEPT !.strength = 1, !.pending = IF f.ready = "fist" THEN @ ELSE "fist"]
  <2>1. Given(w, thing) = Taken(u) /\ EmittedGive(f, thing) = Taken(h)
    BY <1>10 DEF Given, EmittedGive, AmmoThing, WeaponThing, ArmorThing, BodyThing, CardThing
  <2>2. Better(w, u, h, p)
    BY BerserkGiven
  <2> HIDE DEF u, h
  <2> QED BY <2>1, <2>2, TakenIs
<1>11. CASE thing = "BPAK"
  <2> DEFINE u == GiveClips([w EXCEPT !.backpack = 1])
             h == EmittedClips([f EXCEPT !.backpack = 1])
  <2>1. Given(w, thing) = Taken(u) /\ EmittedGive(f, thing) = Taken(h)
    BY <1>11 DEF Given, EmittedGive, AmmoThing, WeaponThing, ArmorThing, BodyThing, CardThing
  <2>2. Better(w, u, h, p)
    BY BackpackGiven
  <2> HIDE DEF u, h
  <2> QED BY <2>1, <2>2, TakenIs
<1> QED BY <1>1, <1>2, <1>3, <1>4, <1>5, <1>6, <1>7, <1>8, <1>9, <1>10, <1>11 DEF Thing

(* The gold flash, saturating in two ways.                                 *)
LEMMA TouchIs ==
  ASSUME NEW w, NEW f, NEW p, Good(w), At(w), Same(f, w, p), w.dead # 1, NEW thing \in Thing,
         thing = "PLAS" => PlasmaMap
  PROVE  /\ Gives(w, Touch(w, thing), EmittedTouch(f, thing), p)
         /\ ~Touch(w, thing).taken => Touch(w, thing) = Given(w, thing)
<1> DEFINE give == Given(w, thing)
           egive == EmittedGive(f, thing)
           u == give.who
           h == egive.who
           k == Lesser(u.bonuscount + BONUSADD, BONUS_CAP)
           v == [u EXCEPT !.bonuscount = k]
           m == [h EXCEPT !.bonuscount = k]
<1>1. Gives(w, give, egive, p)
  BY ThingGiven
<1>2. /\ Touch(w, thing) = IF give.taken THEN Taken([u EXCEPT !.bonuscount = Lesser(@ + BONUSADD, BONUS_CAP)]) ELSE give
      /\ EmittedTouch(f, thing) =
           IF egive.taken
           THEN Taken([h EXCEPT !.bonuscount = IF @ > BONUS_CAP - BONUSADD THEN BONUS_CAP ELSE @ + BONUSADD])
           ELSE egive
  BY DEF Touch, EmittedTouch
<1> HIDE DEF give, egive
<1>3. Better(w, u, h, p) /\ give.taken = egive.taken /\ give.taken \in BOOLEAN
  BY <1>1 DEF Gives
<1> HIDE DEF u, h
<1>4. Good(u) /\ At(u) /\ Same(h, u, p) /\ h.bonuscount = u.bonuscount /\ u.bonuscount \in 0 .. BONUS_CAP
  BY <1>3, SameReads DEF Better, Good, Counts
<1>5. BONUSADD \in Nat /\ BONUS_CAP \in Nat /\ BONUSADD <= BONUS_CAP
  BY InventoryBounds
<1> DEFINE e == IF h.bonuscount > BONUS_CAP - BONUSADD THEN BONUS_CAP ELSE h.bonuscount + BONUSADD
<1>6. k \in 0 .. BONUS_CAP /\ e = k
  BY <1>4, <1>5 DEF Lesser
<1>7. /\ [u EXCEPT !.bonuscount = Lesser(@ + BONUSADD, BONUS_CAP)] = v
      /\ [h EXCEPT !.bonuscount = IF @ > BONUS_CAP - BONUSADD THEN BONUS_CAP ELSE @ + BONUSADD] = m
  <2>1. [h EXCEPT !.bonuscount = IF @ > BONUS_CAP - BONUSADD THEN BONUS_CAP ELSE @ + BONUSADD]
          = [h EXCEPT !.bonuscount = e]
    OBVIOUS
  <2>2. [u EXCEPT !.bonuscount = Lesser(@ + BONUSADD, BONUS_CAP)] = v
    OBVIOUS
  <2> HIDE DEF k, e
  <2> QED BY <1>6, <2>1, <2>2
<1> HIDE DEF k
<1>8. Better(u, v, m, p)
  BY <1>4, <1>6, BonusIs
<1>9. Better(w, v, m, p)
  BY <1>3, <1>8, BetterIsTransitive
<1> HIDE DEF v, m
<1>10. CASE give.taken
  <2>1. Touch(w, thing) = Taken(v) /\ EmittedTouch(f, thing) = Taken(m)
    BY <1>2, <1>3, <1>7, <1>10
  <2>2. Gives(w, Taken(v), Taken(m), p) /\ Taken(v).taken
    BY <1>9, TakenIs DEF Taken
  <2> QED BY <2>1, <2>2
<1>11. CASE ~give.taken
  <2>1. Touch(w, thing) = give /\ EmittedTouch(f, thing) = egive
    BY <1>2, <1>3, <1>11
  <2> QED BY <1>1, <2>1 DEF give
<1> QED BY <1>3, <1>10, <1>11

(* An item less.                                                           *)
LEMMA ItemGone ==
  ASSUME NEW w, NEW f, NEW p, Good(w), At(w), Same(f, w, p), NEW i
  PROVE  LET u == [w EXCEPT !.items = @ \ {i}]
             h == [f EXCEPT !.items = @ \ {i}]
         IN  /\ Good(u) /\ At(u) /\ Same(h, u, p) /\ u.dead = w.dead /\ u.used = w.used /\ u.usedown = w.usedown
             /\ u.restart = w.restart
<1> DEFINE k == w.items \ {i}
           u == [w EXCEPT !.items = k]
           h == [f EXCEPT !.items = k]
<1>0. [w EXCEPT !.items = @ \ {i}] = u /\ [f EXCEPT !.items = @ \ {i}] = h
  <2>1. f.items = w.items
    BY SameReads
  <2> QED BY <2>1
<1>1. k \subseteq Items
  BY DEF Good, Counts
<1> HIDE DEF k
<1>2. DOMAIN u = Fields /\ u.items = k /\ \A x \in Fields \ {"items"} : u[x] = w[x]
  BY FieldsAre DEF Good
<1>3. Same(h, u, p)
  BY FieldsAre DEF Good, Same
<1> HIDE DEF u, h
<1>4. /\ u.ready = w.ready /\ u.pending = w.pending /\ u.owned = w.owned /\ u.backpack = w.backpack
      /\ u.ammo = w.ammo /\ u.health = w.health /\ u.dead = w.dead /\ u.armor = w.armor
      /\ u.armortype = w.armortype /\ u.restart = w.restart /\ u.cards = w.cards /\ u.strength = w.strength
      /\ u.ironfeet = w.ironfeet /\ u.bonuscount = w.bonuscount
  BY <1>2, FieldsAre
<1>5. Owns(u) /\ Flesh(u) /\ Mags(u)
  BY <1>4 DEF Good, Owns, Flesh, Mags, MaxAmmo
<1>6. \A x \in Fields \ Gifts : u[x] = w[x]
  BY <1>2 DEF Gifts
<1>7. /\ u.cards \subseteq CardThing /\ u.items \subseteq Items /\ u.strength \in 0 .. STRENGTH_CAP
      /\ u.ironfeet \in 0 .. IRONTICS /\ u.bonuscount \in 0 .. BONUS_CAP
  BY <1>1, <1>2, <1>4 DEF Good, Counts
<1>8. \A a \in Ammo : u.ammo[a] >= w.ammo[a]
  BY <1>4 DEF Good, Mags
<1>9. Good(u) /\ At(u) /\ u.dead = w.dead /\ u.used = w.used /\ u.usedown = w.usedown /\ u.restart = w.restart
  BY <1>2, <1>4, <1>5, <1>6, <1>7, <1>8, GiftIs
<1> QED BY <1>0, <1>3, <1>9

LEMMA PickUpIs ==
  ASSUME NEW w, NEW f, NEW p, Good(w), At(w), Same(f, w, p), NEW i \in Items
  PROVE  LET u == PickUp(w, i)
             h == PkGo(f, i)
         IN  /\ Good(u) /\ At(u) /\ Same(h, u, p) /\ u.dead = w.dead /\ u.used = w.used /\ u.usedown = w.usedown
             /\ u.restart = w.restart /\ (w.dead = 1 => u = w)
<1> DEFINE t == Touch(w, KindOf[i])
           e == EmittedTouch(f, KindOf[i])
<1>1. f.dead = w.dead /\ f.items = w.items /\ w.dead \in {0, 1} /\ (Alive(w) <=> w.dead # 1)
  BY SameReads DEF Good, Flesh, Alive
<1>2. /\ PickUp(w, i) = IF Alive(w) /\ i \in w.items /\ t.taken THEN [t.who EXCEPT !.items = @ \ {i}] ELSE w
      /\ PkGo(f, i) = IF f.dead = 0 /\ i \in f.items /\ e.taken THEN [e.who EXCEPT !.items = @ \ {i}] ELSE f
  BY DEF PickUp, PkGo
<1>3. CASE w.dead = 1
  BY <1>1, <1>2, <1>3
<1>4. CASE w.dead # 1
  <2>1. KindOf[i] \in Thing /\ (KindOf[i] = "PLAS" => PlasmaMap)
    BY PlayerBounds
  <2>2. Gives(w, t, e, p)
    BY <1>4, <2>1, TouchIs
  <2> HIDE DEF t, e
  <2>3. CASE i \in w.items /\ t.taken
    <3> DEFINE u == t.who
               h == e.who
    <3>1. PickUp(w, i) = [u EXCEPT !.items = @ \ {i}] /\ PkGo(f, i) = [h EXCEPT !.items = @ \ {i}]
      BY <1>1, <1>2, <1>4, <2>2, <2>3 DEF Gives
    <3>2. Better(w, u, h, p)
      BY <2>2 DEF Gives
    <3> HIDE DEF u, h
    <3> DEFINE v == [u EXCEPT !.items = @ \ {i}]
               k == [h EXCEPT !.items = @ \ {i}]
    <3>3. /\ Good(v) /\ At(v) /\ Same(k, v, p) /\ v.dead = u.dead /\ v.used = u.used /\ v.usedown = u.usedown
          /\ v.restart = u.restart
      BY <3>2, ItemGone DEF Better
    <3> HIDE DEF v, k
    <3>4. u.dead = w.dead /\ u.used = w.used /\ u.usedown = w.usedown /\ u.restart = w.restart
      BY <3>2 DEF Better
    <3>5. PickUp(w, i) = v /\ PkGo(f, i) = k
      BY <3>1 DEF v, k
    <3> QED BY <1>4, <3>3, <3>4, <3>5
  <2>4. CASE ~(i \in w.items /\ t.taken)
    <3>1. PickUp(w, i) = w /\ PkGo(f, i) = f
      BY <1>1, <1>2, <1>4, <2>2, <2>4 DEF Gives
    <3> QED BY <3>1
  <2> QED BY <2>3, <2>4
<1> QED BY <1>3, <1>4

(***************************************************************************)
(* The palette.                                                            *)
(***************************************************************************)
LEMMA TimesKeepsOrder ==
  ASSUME NEW a \in Nat, NEW b \in Nat, a <= b, NEW m \in Nat
  PROVE  a * m <= b * m
OBVIOUS

LEMMA DivisionIs ==
  ASSUME NEW n \in Nat, NEW m \in Nat \ {0}
  PROVE  /\ n \div m \in Nat /\ (n \div m) * m <= n /\ n < (n \div m) * m + m
OBVIOUS

LEMMA ReachesIs ==
  ASSUME NEW n \in Nat, NEW m \in Nat \ {0}, NEW k \in Nat
  PROVE  n \div m >= k <=> n >= k * m
<1> DEFINE q == n \div m
<1>1. q \in Nat /\ q * m <= n /\ n < q * m + m
  BY DivisionIs
<1> HIDE DEF q
<1>2. q * m \in Nat /\ k * m \in Nat /\ (q + 1) * m = q * m + m
  BY <1>1
<1>3. CASE q >= k
  <2>1. k * m <= q * m
    BY <1>1, <1>3, TimesKeepsOrder
  <2> QED BY <1>1, <1>2, <1>3, <2>1 DEF q
<1>4. CASE ~(q >= k)
  <2>1. q + 1 \in Nat /\ q + 1 <= k
    BY <1>1, <1>4
  <2>2. (q + 1) * m <= k * m
    BY <2>1, TimesKeepsOrder
  <2> QED BY <1>1, <1>2, <1>4, <2>2 DEF q
<1> QED BY <1>3, <1>4

(* The nibble counts what the quotient counts by d.                        *)
LEMMA NibbleIs ==
  ASSUME NEW str \in Nat, NEW d \in Nat \ {0}, NEW unit \in Nat \ {0}, NEW k \in Nat
  PROVE  str \div (d * unit) >= k <=> str \div unit >= k * d
<1>1. d * unit \in Nat \ {0} /\ k * d \in Nat /\ k * (d * unit) = (k * d) * unit
  OBVIOUS
<1> DEFINE m == d * unit
           e == k * d
<1>2. m \in Nat \ {0} /\ e \in Nat /\ k * m = e * unit
  BY <1>1
<1> HIDE DEF m, e
<1>3. str \div m >= k <=> str >= k * m
  BY <1>2, ReachesIs
<1>4. str \div unit >= e <=> str >= e * unit
  BY <1>2, ReachesIs
<1>5. str \div m >= k <=> str \div unit >= e
  BY <1>2, <1>3, <1>4
<1> QED BY <1>5 DEF m, e

(* A count, in steps of the palette's, rounded up.                         *)
LEMMA StepsAre ==
  ASSUME NEW n \in Nat, NEW m \in Nat \ {0}
  PROVE  /\ (n + m - 1) \div m \in Nat
         /\ n > 0 => (n + m - 1) \div m >= 1
         /\ 0 < n /\ n <= m => (n + m - 1) \div m = 1
         /\ m < n /\ n <= 2 * m => (n + m - 1) \div m = 2
<1> DEFINE k == n + m - 1
           q == k \div m
<1>1. k \in Nat
  OBVIOUS
<1>2. k = n + m - 1
  OBVIOUS
<1> HIDE DEF k
<1>3. q \in Nat
  BY <1>1, DivisionIs
<1>4. (q >= 1 <=> k >= 1 * m) /\ (q >= 2 <=> k >= 2 * m) /\ (q >= 3 <=> k >= 3 * m)
  BY <1>1, ReachesIs
<1> HIDE DEF q
<1>5. /\ n > 0 => q >= 1
      /\ 0 < n /\ n <= m => q = 1
      /\ m < n /\ n <= 2 * m => q = 2
  BY <1>2, <1>3, <1>4
<1> QED BY <1>3, <1>5 DEF q, k

LEMMA StepsKeepOrder ==
  ASSUME NEW a \in Nat, NEW b \in Nat, a <= b, NEW m \in Nat \ {0}
  PROVE  a \div m <= b \div m
<1> DEFINE q == a \div m
<1>1. q \in Nat /\ q * m <= a
  BY DivisionIs
<1> HIDE DEF q
<1>2. b \div m \in Nat /\ (b \div m >= q <=> b >= q * m)
  BY <1>1, ReachesIs, DivisionIs
<1>3. q * m \in Nat
  BY <1>1
<1>4. b \div m >= q
  BY <1>1, <1>2, <1>3
<1> QED BY <1>1, <1>2, <1>4 DEF q

(* A red is monotone, so the larger count's red is the larger red.         *)
LEMMA RedIs ==
  ASSUME NEW a \in Nat, NEW b \in Nat
  PROVE  RedPal(a) \in 0 .. 8 /\ RedPal(Larger(a, b)) = Larger(RedPal(a), RedPal(b))
<1>1. PAL_STEP \in Nat \ {0}
  BY PlayerBounds
<1> DEFINE steps(n) == (n + PAL_STEP - 1) \div PAL_STEP
<1>2. ASSUME NEW n \in Nat PROVE steps(n) \in Nat
  BY <1>1, StepsAre
<1>3. ASSUME NEW n \in Nat, NEW m \in Nat, n <= m PROVE steps(n) <= steps(m)
  <2> DEFINE n2 == n + PAL_STEP - 1
             m2 == m + PAL_STEP - 1
  <2>1. n2 \in Nat /\ m2 \in Nat /\ n2 <= m2
    BY <1>1, <1>3
  <2> HIDE DEF n2, m2
  <2>2. n2 \div PAL_STEP <= m2 \div PAL_STEP
    BY <1>1, <2>1, StepsKeepOrder
  <2> QED BY <2>2 DEF n2, m2
<1>4. \A n \in Nat : RedPal(n) = IF n = 0 THEN 0 ELSE Lesser(7, steps(n)) + 1
  BY DEF RedPal
<1> HIDE DEF steps
<1>5. ASSUME NEW n \in Nat PROVE RedPal(n) \in 0 .. 8
  BY <1>2, <1>4 DEF Lesser
<1>6. ASSUME NEW n \in Nat, NEW m \in Nat, n <= m PROVE RedPal(n) <= RedPal(m)
  <2>1. steps(n) \in Nat /\ steps(m) \in Nat /\ steps(n) <= steps(m)
    BY <1>2, <1>3, <1>6
  <2>2. CASE n = 0
    BY <1>4, <1>5, <2>2
  <2>3. CASE n # 0
    <3>1. m # 0
      BY <1>6, <2>3
    <3> QED BY <1>4, <2>1, <2>3, <3>1 DEF Lesser
  <2> QED BY <2>2, <2>3
<1>7. CASE a <= b
  <2>1. Larger(a, b) = b
    BY <1>7 DEF Larger
  <2>2. RedPal(a) <= RedPal(b) /\ RedPal(a) \in 0 .. 8 /\ RedPal(b) \in 0 .. 8
    BY <1>5, <1>6, <1>7
  <2> QED BY <2>1, <2>2 DEF Larger
<1>8. CASE ~(a <= b)
  <2>1. Larger(a, b) = a
    BY <1>8 DEF Larger
  <2>2. RedPal(b) <= RedPal(a) /\ RedPal(a) \in 0 .. 8 /\ RedPal(b) \in 0 .. 8
    BY <1>5, <1>6, <1>8
  <2> QED BY <2>1, <2>2 DEF Larger
<1> QED BY <1>5, <1>7, <1>8

(* Berserk's count, and its red.                                           *)
Berserks(s) == IF s = 0 THEN 0 ELSE BERSERK - s \div BERSERK_UNIT

LEMMA BerserkRedIs ==
  ASSUME NEW s \in Nat
  PROVE  Berserks(s) \in Int /\ BerserkRed(s) = IF Berserks(s) > 0 THEN RedPal(Berserks(s)) ELSE 0
<1> DEFINE d == BERSERK - PAL_STEP
           q == s \div BERSERK_UNIT
           b == BERSERK - q
           nibble == s \div (d * BERSERK_UNIT)
<1>1. PAL_STEP \in Nat \ {0} /\ BERSERK \in Nat /\ BERSERK_UNIT \in Nat \ {0}
  BY PlayerBounds
<1>2. d \in Nat \ {0} /\ PAL_STEP = 2 * d /\ BERSERK = 3 * d
  BY <1>1, BerserkNibbles
<1>3. q \in Nat
  BY <1>1, DivisionIs
<1>4. d * BERSERK_UNIT \in Nat \ {0}
  BY <1>1, <1>2
<1>5. nibble \in Nat
  <2> DEFINE m == d * BERSERK_UNIT
  <2> HIDE DEF m
  <2>1. s \div m \in Nat
    BY <1>4, DivisionIs DEF m
  <2> QED BY <2>1 DEF m
<1>6. BerserkRed(s) = IF s = 0 \/ nibble >= 3 THEN 0 ELSE IF nibble = 0 THEN 3 ELSE 2
  BY DEF BerserkRed
<1>7. Berserks(s) = IF s = 0 THEN 0 ELSE b
  BY DEF Berserks
<1> HIDE DEF d, q
<1>8. (nibble >= 1 <=> q >= 1 * d) /\ (nibble >= 3 <=> q >= 3 * d)
  <2>1. nibble >= 1 <=> q >= 1 * d
    BY <1>1, <1>2, NibbleIs DEF q
  <2>2. nibble >= 3 <=> q >= 3 * d
    BY <1>1, <1>2, NibbleIs DEF q
  <2> QED BY <2>1, <2>2
<1> HIDE DEF nibble
<1>9. b \in Int /\ b = 3 * d - q
  BY <1>2, <1>3
<1> HIDE DEF b
<1>10. CASE s = 0
  BY <1>6, <1>7, <1>10
<1>11. CASE s # 0 /\ nibble >= 3
  <2>1. ~(b > 0)
    BY <1>2, <1>3, <1>8, <1>9, <1>11
  <2> QED BY <1>6, <1>7, <1>9, <1>11, <2>1
<1>12. CASE s # 0 /\ nibble = 0
  <2>1. b > 0 /\ b \in Nat /\ PAL_STEP < b /\ b <= 2 * PAL_STEP
    BY <1>2, <1>3, <1>8, <1>9, <1>12
  <2>2. (b + PAL_STEP - 1) \div PAL_STEP = 2
    BY <1>1, <2>1, StepsAre
  <2>3. RedPal(b) = 3
    BY <2>1, <2>2 DEF RedPal, Lesser
  <2> QED BY <1>6, <1>7, <1>9, <1>12, <2>1, <2>3
<1>13. CASE s # 0 /\ nibble # 0 /\ ~(nibble >= 3)
  <2>1. b > 0 /\ b \in Nat /\ b <= PAL_STEP
    BY <1>2, <1>3, <1>5, <1>8, <1>9, <1>13
  <2>2. (b + PAL_STEP - 1) \div PAL_STEP = 1
    BY <1>1, <2>1, StepsAre
  <2>3. RedPal(b) = 2
    BY <2>1, <2>2 DEF RedPal, Lesser
  <2> QED BY <1>6, <1>7, <1>9, <1>13, <2>1, <2>3
<1> QED BY <1>10, <1>11, <1>12, <1>13

LEMMA GoldIs ==
  ASSUME NEW n \in Nat
  PROVE  GoldPal(n) \in 0 .. 12 /\ (GoldPal(n) = 0 <=> n = 0)
<1>1. PAL_STEP \in Nat \ {0}
  BY PlayerBounds
<1> DEFINE k == (n + PAL_STEP - 1) \div PAL_STEP
<1>2. k \in Nat
  BY <1>1, StepsAre
<1>3. GoldPal(n) = IF n = 0 THEN 0 ELSE Lesser(3, k) + 9
  BY DEF GoldPal
<1> HIDE DEF k
<1> QED BY <1>2, <1>3 DEF Lesser

(* The palette that pal_new makes of the cells is palette_index's.         *)
LEMMA PaletteIs ==
  ASSUME NEW w, NEW f, NEW p, Good(w), Same(f, w, p)
  PROVE  PalNew(f) = PaletteIndex(w) /\ PalNew(f) \in 0 .. 13
<1>1. f.dc = w.dc /\ f.strength = w.strength /\ f.bonuscount = w.bonuscount /\ f.ironfeet = w.ironfeet
  BY SameReads
<1>2. w.dc \in Nat /\ w.strength \in Nat /\ w.bonuscount \in Nat
  BY DEF Good, Counts
<1> DEFINE dc == w.dc
           s == w.strength
           b == Berserks(s)
           g == w.bonuscount
           red == RedPal(Larger(dc, b))
           blink == Blinking(w.ironfeet)
<1>3. b \in Int /\ BerserkRed(s) = IF b > 0 THEN RedPal(b) ELSE 0
  BY <1>2, BerserkRedIs
<1>4. PaletteIndex(w) = IF red # 0 THEN red ELSE IF g > 0 THEN GoldPal(g) ELSE IF blink THEN 13 ELSE 0
  BY DEF PaletteIndex, Berserks
<1>5. PalNew(f) = LET r   == Larger(RedPal(dc), BerserkRed(s))
                      any == IF r # 0 THEN r ELSE GoldPal(g)
                  IN  IF any = 0 /\ blink THEN 13 ELSE any
  BY <1>1 DEF PalNew
<1>6. dc \in Nat /\ g \in Nat
  BY <1>2
<1> HIDE DEF dc, s, b, g, blink
<1>7. RedPal(dc) \in 0 .. 8
  BY <1>6, RedIs
<1>8. Larger(RedPal(dc), BerserkRed(s)) = red
  <2>1. CASE b > 0
    <3>1. b \in Nat
      BY <1>3, <2>1
    <3> QED BY <1>3, <1>6, <2>1, <3>1, RedIs
  <2>2. CASE ~(b > 0)
    <3>1. Larger(dc, b) = dc
      BY <1>3, <1>6, <2>2 DEF Larger
    <3>2. Larger(RedPal(dc), 0) = RedPal(dc)
      BY <1>7 DEF Larger
    <3> QED BY <1>3, <2>2, <3>1, <3>2
  <2> QED BY <2>1, <2>2
<1>9. red \in 0 .. 8
  <2>1. CASE b > 0
    <3>1. b \in Nat
      BY <1>3, <2>1
    <3>2. RedPal(b) \in 0 .. 8
      BY <3>1, RedIs
    <3> QED BY <1>3, <1>7, <1>8, <2>1, <3>2 DEF Larger
  <2>2. CASE ~(b > 0)
    BY <1>3, <1>7, <1>8, <2>2 DEF Larger
  <2> QED BY <2>1, <2>2
<1> HIDE DEF red
<1>10. GoldPal(g) \in 0 .. 12 /\ (GoldPal(g) = 0 <=> g = 0)
  BY <1>6, GoldIs
<1> QED BY <1>4, <1>5, <1>6, <1>8, <1>9, <1>10

(***************************************************************************)
(* The invariant: of the model's player, and of the cells beside him.      *)
(***************************************************************************)
PlayerInv ==
  /\ Good(ws) /\ At(ws) /\ turn \in {"think", "move", "world", "show"} /\ held \in BOOLEAN
  /\ held => ws.usedown = 1 \/ ws.restart = 1

CellsInv == Same(fj, ws, shown) /\ shown \in 0 .. 13

(* A step of the player's, the dead man's shot and the held key's in it.   *)
Steady(w, v) == w.dead = 1 /\ v.dead = 1 => v.ammo = w.ammo /\ v.sy >= w.sy

OnePress(v) == turn = "think" /\ turn' = "move" /\ held => v.used = 0

LEMMA StillIsSteady ==
  ASSUME NEW w, NEW v, At(w), v = w
  PROVE  Steady(w, v)
<1>1. w.sy \in Int
  BY PspriteBounds DEF At, Pose
<1> QED BY <1>1 DEF Steady

LEMMA InitPlayer == Init => PlayerInv
<1>1. Uses \subseteq BOOLEAN
  BY PlayerBounds
<1> QED BY <1>1, StartIs DEF Init, PlayerInv

LEMMA InitCells == Init => CellsInv
BY StartFjIs DEF Init, CellsInv

LEMMA ThinkPlayer ==
  ASSUME PlayerInv, Think
  PROVE  PlayerInv' /\ Steady(ws, ws') /\ OnePress(ws')
<1>1. PICK key \in Keys, fire \in Fires, use \in Uses, floor \in FloorHurts, facing \in BOOLEAN :
        LET in == [key |-> key, fire |-> fire, use |-> use, floor |-> floor, facing |-> facing]
        IN  ws' = PlayerPhase(ws, in) /\ held' = use
  BY DEF Think
<1> DEFINE in == [key |-> key, fire |-> fire, use |-> use, floor |-> floor, facing |-> facing]
<1>2. ws' = PlayerPhase(ws, in) /\ held' = in.use
  BY <1>1
<1>3. Input(in)
  BY PlayerBounds DEF Input
<1> HIDE DEF in
<1>4. PICK f : Same(f, ws, 0)
  BY SameExists
<1>5. /\ Good(ws') /\ At(ws')
      /\ ws.dead = 1 /\ ws'.dead = 1 => ws'.ammo = ws.ammo /\ ws'.sy >= ws.sy
      /\ in.use => ws'.usedown = 1 \/ ws'.restart = 1
      /\ ws.usedown = 1 \/ ws.restart = 1 => ws'.used = 0
  BY <1>2, <1>3, <1>4, PhaseIs DEF PlayerInv
<1>6. turn' = "move" /\ held' \in BOOLEAN
  BY <1>2, <1>3 DEF Think, Input
<1>7. OnePress(ws')
  BY <1>5 DEF PlayerInv, OnePress
<1> QED BY <1>2, <1>5, <1>6, <1>7 DEF PlayerInv, Steady

LEMMA ReachPlayer ==
  ASSUME PlayerInv, Reach
  PROVE  PlayerInv' /\ Steady(ws, ws') /\ OnePress(ws')
<1>1. PICK i \in Items : ws' = PickUp(ws, i)
  BY DEF Reach
<1>2. PICK f : Same(f, ws, 0)
  BY SameExists
<1>3. /\ Good(ws') /\ At(ws') /\ ws'.dead = ws.dead /\ ws'.used = ws.used /\ ws'.usedown = ws.usedown
      /\ ws'.restart = ws.restart /\ (ws.dead = 1 => ws' = ws)
  BY <1>1, <1>2, PickUpIs DEF PlayerInv
<1>4. turn' = turn /\ held' = held
  BY DEF Reach
<1>5. Steady(ws, ws')
  BY <1>3, StillIsSteady DEF PlayerInv, Steady
<1>6. OnePress(ws')
  BY <1>4 DEF OnePress
<1> QED BY <1>3, <1>4, <1>5, <1>6 DEF PlayerInv

LEMMA HitPlayer ==
  ASSUME PlayerInv, Hit
  PROVE  PlayerInv' /\ Steady(ws, ws') /\ OnePress(ws')
<1>1. PICK h \in Hits : ws' = DamagePlayer(ws, h[1], h[2])
  BY DEF Hit
<1>2. h[1] \in 1 .. 255
  BY PlayerBounds
<1>3. /\ Good(ws') /\ At(ws') /\ (ws.dead = 1 => ws' = ws) /\ ws'.used = ws.used /\ ws'.usedown = ws.usedown
      /\ ws'.restart = ws.restart
  BY <1>1, <1>2, DamageKeeps DEF PlayerInv
<1>4. turn' = turn /\ held' = held
  BY DEF Hit
<1>5. Steady(ws, ws')
  BY <1>3, StillIsSteady DEF PlayerInv, Steady
<1>6. OnePress(ws')
  BY <1>4 DEF OnePress
<1> QED BY <1>3, <1>4, <1>5, <1>6 DEF PlayerInv

LEMMA NextPlayer ==
  ASSUME PlayerInv, [Next]_vars
  PROVE  PlayerInv' /\ Steady(ws, ws') /\ OnePress(ws')
<1>1. CASE Think
  BY <1>1, ThinkPlayer
<1>2. CASE Reach
  BY <1>2, ReachPlayer
<1>3. CASE Hit
  BY <1>3, HitPlayer
<1>4. CASE Moved \/ World \/ Show \/ MenuFrame \/ UNCHANGED vars
  <2>1. ws' = ws /\ held' = held /\ turn' \in {"think", "move", "world", "show"}
    BY <1>4 DEF Moved, World, Show, MenuFrame, vars, PlayerInv
  <2>2. Steady(ws, ws')
    BY <2>1, StillIsSteady DEF PlayerInv
  <2>3. OnePress(ws')
    BY <1>4 DEF Moved, World, Show, MenuFrame, vars, OnePress
  <2> QED BY <2>1, <2>2, <2>3 DEF PlayerInv
<1> QED BY <1>1, <1>2, <1>3, <1>4 DEF Next

LEMMA SpecPlayer == Spec => []PlayerInv
<1>1. PlayerInv /\ [Next]_vars => PlayerInv'
  BY NextPlayer
<1> QED BY <1>1, InitPlayer, PTL DEF Spec

LEMMA SentIsShown ==
  ASSUME NEW f, NEW w, NEW p, NEW q, Same(f, w, p)
  PROVE  Same([f EXCEPT !.palcur = q], w, q)
<1>1. "palcur" \notin Fields
  BY FieldsAre
<1> QED BY <1>1 DEF Same

LEMMA ThinkCells ==
  ASSUME KillIsNumbered, PlayerInv, CellsInv, Think
  PROVE  CellsInv'
<1>1. PICK key \in Keys, fire \in Fires, use \in Uses, floor \in FloorHurts, facing \in BOOLEAN :
        LET in == [key |-> key, fire |-> fire, use |-> use, floor |-> floor, facing |-> facing]
        IN  ws' = PlayerPhase(ws, in) /\ fj' = EmittedPhase(fj, in)
  BY DEF Think
<1> DEFINE in == [key |-> key, fire |-> fire, use |-> use, floor |-> floor, facing |-> facing]
<1>2. ws' = PlayerPhase(ws, in) /\ fj' = EmittedPhase(fj, in)
  BY <1>1
<1>3. Input(in)
  BY PlayerBounds DEF Input
<1> HIDE DEF in
<1>4. PlasmaMap => in.floor = 0
  BY <1>3 DEF Input, KillIsNumbered
<1>5. Same(fj', ws', shown)
  BY <1>2, <1>3, <1>4, PhaseIs DEF PlayerInv, CellsInv
<1>6. shown' = shown
  BY DEF Think
<1> QED BY <1>5, <1>6 DEF CellsInv

LEMMA ReachCells ==
  ASSUME PlayerInv, CellsInv, Reach
  PROVE  CellsInv'
<1>1. PICK i \in Items : ws' = PickUp(ws, i) /\ fj' = PkGo(fj, i)
  BY DEF Reach
<1>2. Same(fj', ws', shown)
  BY <1>1, PickUpIs DEF PlayerInv, CellsInv
<1>3. shown' = shown
  BY DEF Reach
<1> QED BY <1>2, <1>3 DEF CellsInv

LEMMA HitCells ==
  ASSUME KillIsNumbered, PlayerInv, CellsInv, Hit
  PROVE  CellsInv'
<1>1. PICK h \in Hits : ws' = DamagePlayer(ws, h[1], h[2]) /\ fj' = DpGo(fj, h[1], h[2])
  BY DEF Hit
<1>2. ~PlasmaMap /\ h[1] \in 1 .. 255 - DC_CAP
  BY PlayerBounds DEF KillIsNumbered
<1>3. Same(fj', ws', shown)
  BY <1>1, <1>2, DamageAlike DEF PlayerInv, CellsInv
<1>4. shown' = shown
  BY DEF Hit
<1> QED BY <1>3, <1>4 DEF CellsInv

LEMMA ShowCells ==
  ASSUME PlayerInv, CellsInv, Show
  PROVE  CellsInv' /\ shown' = PaletteIndex(ws)
<1> DEFINE new == PalNew(fj)
<1>1. fj' = [fj EXCEPT !.palcur = new] /\ shown' = (IF new # fj.palcur THEN new ELSE shown) /\ ws' = ws
  BY DEF Show
<1>2. new = PaletteIndex(ws) /\ new \in 0 .. 13
  BY PaletteIs DEF PlayerInv, CellsInv
<1> HIDE DEF new
<1>3. fj.palcur = shown
  BY SameReads DEF CellsInv
<1>4. shown' = new
  BY <1>1, <1>3
<1>5. Same(fj', ws', new)
  BY <1>1, SentIsShown DEF CellsInv
<1> QED BY <1>2, <1>4, <1>5 DEF CellsInv

LEMMA MenuCells ==
  ASSUME CellsInv, MenuFrame
  PROVE  CellsInv'
<1>1. fj' = [fj EXCEPT !.palcur = 0] /\ shown' = (IF fj.palcur # 0 THEN 0 ELSE shown) /\ ws' = ws
  BY DEF MenuFrame
<1>2. fj.palcur = shown
  BY SameReads DEF CellsInv
<1>3. shown' = 0
  BY <1>1, <1>2
<1>4. Same(fj', ws', 0)
  BY <1>1, SentIsShown DEF CellsInv
<1> QED BY <1>3, <1>4 DEF CellsInv

LEMMA NextCells ==
  ASSUME KillIsNumbered, PlayerInv, CellsInv, [Next]_vars
  PROVE  CellsInv' /\ (turn = "show" /\ turn' = "think" => shown' = PaletteIndex(ws))
<1>1. CASE Think
  BY <1>1, ThinkCells DEF Think
<1>2. CASE Reach
  BY <1>2, ReachCells DEF Reach
<1>3. CASE Hit
  BY <1>3, HitCells DEF Hit
<1>4. CASE Show
  BY <1>4, ShowCells
<1>5. CASE MenuFrame
  BY <1>5, MenuCells DEF MenuFrame
<1>6. CASE Moved \/ World \/ UNCHANGED vars
  <2>1. fj' = fj /\ ws' = ws /\ shown' = shown /\ ~(turn = "show" /\ turn' = "think")
    BY <1>6 DEF Moved, World, vars
  <2> QED BY <2>1 DEF CellsInv
<1> QED BY <1>1, <1>2, <1>3, <1>4, <1>5, <1>6 DEF Next

LEMMA SpecCells ==
  ASSUME KillIsNumbered
  PROVE  Spec => [](PlayerInv /\ CellsInv)
<1>1. PlayerInv /\ CellsInv /\ [Next]_vars => PlayerInv' /\ CellsInv'
  BY NextPlayer, NextCells
<1> QED BY <1>1, InitPlayer, InitCells, PTL DEF Spec

(***************************************************************************)
(* What is true of every map, and of every hit.                            *)
(***************************************************************************)
LEMMA PlayerStands ==
  ASSUME PlayerInv
  PROVE  ReadyIsOwned /\ PspriteIsReadys /\ LoweringHasNext /\ ArmorTellsType
<1>1. ReadyIsOwned
  BY DEF PlayerInv, Good, Owns, ReadyIsOwned
<1>2. PspriteIsReadys /\ LoweringHasNext
  BY DEF PlayerInv, At, Pose, PspriteIsReadys, LoweringHasNext
<1>3. ArmorTellsType
  BY DEF PlayerInv, Good, Flesh, ArmorTellsType
<1> QED BY <1>1, <1>2, <1>3

(* Whatever the map and the hits are: the weapon up and the one to come    *)
(* are his, the psprite is in a state of the weapon's, a living man's      *)
(* weapon goes down for another only, and an armor has points while it has *)
(* a type (the model's _set_psprite, _touch and damage_player).            *)
THEOREM SpecWeaponIsHis == Spec => [](ReadyIsOwned /\ PspriteIsReadys /\ LoweringHasNext /\ ArmorTellsType)
<1>1. PlayerInv => ReadyIsOwned /\ PspriteIsReadys /\ LoweringHasNext /\ ArmorTellsType
  BY PlayerStands
<1> QED BY <1>1, SpecPlayer, PTL

(* On every map, with and without a rifle: a tic in which use was down the *)
(* frame before runs no use lines, so that one press runs them once, the   *)
(* level's start and the restart of the dead included (_player_phase's     *)
(* usedown).                                                               *)
THEOREM SpecUseIsAPress == Spec => UseIsAPress
<1>1. PlayerInv /\ [Next]_vars => [turn = "think" /\ turn' = "move" /\ held => ws'.used = 0]_vars
  BY NextPlayer DEF OnePress
<1> QED BY <1>1, SpecPlayer, PTL DEF Spec, UseIsAPress

(***************************************************************************)
(* What the cells say, where the emitted kill numbers its states.          *)
(***************************************************************************)
LEMMA CellsStand ==
  ASSUME PlayerInv, CellsInv
  PROVE  AmmoWithinCap /\ DeadIffNoHealth
<1>1. AmmoWithinCap
  <2>1. fj.ammo = ws.ammo /\ fj.backpack = ws.backpack
    BY SameReads DEF CellsInv
  <2>2. ASSUME NEW a \in Ammo PROVE ws.ammo[a] \in 0 .. MaxAmmo(ws, a) /\ fj.ammo[a] \in 0 .. MaxAmmo(fj, a)
    <3>1. ws.ammo[a] \in Nat /\ ws.ammo[a] <= MaxAmmo(ws, a) /\ ws.backpack \in {0, 1}
      BY DEF PlayerInv, Good, Mags
    <3>2. MaxAmmo(ws, a) \in Nat
      BY <3>1, InventoryBounds DEF MaxAmmo
    <3>3. MaxAmmo(fj, a) = MaxAmmo(ws, a)
      BY <2>1 DEF MaxAmmo
    <3> QED BY <2>1, <3>1, <3>2, <3>3
  <2> QED BY <2>2 DEF AmmoWithinCap
<1>2. DeadIffNoHealth
  <2>1. fj.dead = ws.dead
    BY SameReads DEF CellsInv
  <2>2. Signed(fj.health) = ws.health
    BY HealthReads DEF PlayerInv, CellsInv
  <2>3. ws.dead = 1 <=> ws.health <= 0
    BY DEF PlayerInv, Good, Flesh
  <2> QED BY <2>1, <2>2, <2>3 DEF DeadIffNoHealth
<1> QED BY <1>1, <1>2

(* Between any two steps of a tic the player holds what he owns, in states *)
(* of the weapon that is up; no magazine is over its cap nor under 0; and  *)
(* he is dead as long as his health is 0 or less, in the model and in the  *)
(* emitted cells (lootcode, weaponcode and hurtcode's one test for two).   *)
THEOREM SpecPlayerConsistent ==
  ASSUME KillIsNumbered
  PROVE  Spec => []PlayerConsistent
<1>1. PlayerInv /\ CellsInv => PlayerConsistent
  BY PlayerStands, CellsStand DEF PlayerConsistent
<1> QED BY <1>1, SpecCells, PTL

LEMMA StatesOfHis ==
  ASSUME NEW w, Good(w), At(w)
  PROVE  w.st \in DOMAIN States /\ w.fst \in DOMAIN States \cup {S_NULL}
<1>1. w.st \in DOMAIN States
  BY ReadyIsAWeapon, StatesAreTame DEF Good, At, Pose, Tame
<1>2. w.fst \in DOMAIN States \cup {S_NULL}
  BY FlashesAreTame DEF Good, Glow
<1> QED BY <1>1, <1>2

LEMMA CommonIs ==
  ASSUME NEW w, Good(w), At(w)
  PROVE  Common(w)
<1>1. /\ w.ready \in Weapon /\ w.pending \in Weapon \cup {NOCHANGE} /\ w.owned \subseteq Weapon
      /\ w.backpack \in {0, 1}
  BY DEF Good, Owns, Mags
<1>2. w.armor \in 0 .. 2 * ARMOR /\ w.armortype \in 0 .. 2 /\ w.dead \in {0, 1} /\ w.restart \in {0, 1}
  BY DEF Good, Flesh
<1>3. /\ w.cards \subseteq CardThing /\ w.strength \in 0 .. STRENGTH_CAP /\ w.ironfeet \in 0 .. IRONTICS
      /\ w.bonuscount \in 0 .. BONUS_CAP /\ w.dc \in 0 .. DC_CAP /\ w.vdrop \in 0 .. VIEW_DROP_MAX
      /\ w.items \subseteq Items /\ w.usedown \in {0, 1} /\ w.used \in {0, 1}
  BY DEF Good, Counts
<1>4. w.refire \in 0 .. REFIRE_CAP /\ w.attackdown \in {0, 1} /\ w.rng \in 0 .. RNG - 1
  BY DEF Good, Trigger
<1>5. w.st \in DOMAIN States /\ w.fst \in DOMAIN States \cup {S_NULL}
  BY StatesOfHis
<1>6. w.tics \in 1 .. 15 /\ w.sy \in WEAPONTOP .. WEAPONBOTTOM
  BY DEF At, Pose
<1>7. w.tics \in Cell4
  BY <1>6 DEF Cell4
<1>8. w.ftics \in Cell4
  BY DEF Good, Glow, Cell4
<1>9. {w.attackdown, w.usedown, w.used, w.dead, w.restart} \subseteq {0, 1}
  BY <1>2, <1>3, <1>4
<1> HIDE DEF S_NULL, NOCHANGE, CardThing
<1> QED BY <1>1, <1>2, <1>3, <1>4, <1>5, <1>6, <1>7, <1>8, <1>9 DEF Common

LEMMA CommonAlike ==
  ASSUME NEW f, NEW w, NEW p, Same(f, w, p), Common(w)
  PROVE  Common(f)
<1> HIDE DEF S_NULL, NOCHANGE, CardThing
<1> QED BY SameReads DEF Common

LEMMA CellsInStep ==
  ASSUME PlayerInv, CellsInv
  PROVE  BinaryInStep
<1>1. BinaryIsModel
  BY DEF CellsInv, Same, Fields, BinaryIsModel
<1>2. Common(ws) /\ Common(fj)
  BY CommonIs, CommonAlike DEF PlayerInv, CellsInv
<1>3. fj.health \in 0 .. 4095
  BY HealthReads DEF PlayerInv, CellsInv
<1>4. fj.palcur \in 0 .. 13
  BY SameReads DEF CellsInv
<1>5. ws.health <= 2 * MAXHEALTH
  BY DEF PlayerInv, Good, Flesh
<1>6. TypeOK
  BY <1>2, <1>3, <1>4, <1>5 DEF TypeOK, PlayerInv, CellsInv
<1> QED BY <1>1, <1>6 DEF BinaryInStep

(* The emitted cells are the model's record at their widths, after every   *)
(* order of tics, pickups and hits, and none leaves its range (lootcode,   *)
(* weaponcode and hurtcode against combat).                                *)
THEOREM SpecBinaryInStep ==
  ASSUME KillIsNumbered
  PROVE  Spec => []BinaryInStep
<1>1. PlayerInv /\ CellsInv => BinaryInStep
  BY CellsInStep
<1> QED BY <1>1, SpecCells, PTL

LEMMA NothingNext ==
  ASSUME KillIsNumbered, PlayerInv, CellsInv, [Next]_vars
  PROVE  /\ Steady(ws, ws') /\ Steady(fj, fj')
         /\ OnePress(ws') /\ OnePress(fj')
<1>1. Steady(ws, ws') /\ OnePress(ws')
  BY NextPlayer
<1>2. fj.dead = ws.dead /\ fj.ammo = ws.ammo /\ fj.sy = ws.sy
  BY SameReads DEF CellsInv
<1>3. CellsInv'
  BY NextCells
<1>4. fj'.dead = ws'.dead /\ fj'.ammo = ws'.ammo /\ fj'.sy = ws'.sy /\ fj'.used = ws'.used
  BY <1>3, SameReads DEF CellsInv
<1> QED BY <1>1, <1>2, <1>4 DEF Steady, OnePress

(* Nothing comes of no key: the dead fire nothing and their weapon does    *)
(* not come back up, and no tic runs the use lines on a key that was down  *)
(* the frame before, in the model and in the cells (A_Lower, _kill_player  *)
(* and dp_kill; _player_phase's usedown and ex_press's pusedn).            *)
THEOREM SpecNothingUncalledFor ==
  ASSUME KillIsNumbered
  PROVE  Spec => NothingUncalledFor
<1>1. PlayerInv /\ CellsInv /\ [Next]_vars =>
        [ /\ ws.dead = 1 /\ ws'.dead = 1 => ws'.ammo = ws.ammo
          /\ fj.dead = 1 /\ fj'.dead = 1 => fj'.ammo = fj.ammo ]_vars
  BY NothingNext DEF Steady
<1>2. PlayerInv /\ CellsInv /\ [Next]_vars =>
        [ /\ ws.dead = 1 /\ ws'.dead = 1 => ws'.sy >= ws.sy
          /\ fj.dead = 1 /\ fj'.dead = 1 => fj'.sy >= fj.sy ]_vars
  BY NothingNext DEF Steady
<1>3. Spec => DeadFiresNothing
  BY <1>1, SpecCells, PTL DEF Spec, DeadFiresNothing
<1>4. Spec => DeadWeaponSinks
  BY <1>2, SpecCells, PTL DEF Spec, DeadWeaponSinks
<1>5. Spec => UseIsAPress
  BY SpecUseIsAPress
<1>6. PlayerInv /\ CellsInv /\ [Next]_vars => [turn = "think" /\ turn' = "move" /\ held => fj'.used = 0]_vars
  BY NothingNext DEF OnePress
<1>7. Spec => EmittedUseIsAPress
  BY <1>6, SpecCells, PTL DEF Spec, EmittedUseIsAPress
<1> QED BY <1>3, <1>4, <1>5, <1>7, PTL DEF NothingUncalledFor

(* What the device shows after a frame of the world is that frame's        *)
(* palette_index, though pal_lines sends it on a change only, a menu frame *)
(* shows another and a restart keeps palcur alone of the cells.            *)
THEOREM SpecScreenShowsPalette ==
  ASSUME KillIsNumbered
  PROVE  Spec => ScreenShowsPalette
<1>1. PlayerInv /\ CellsInv /\ [Next]_vars =>
        [turn = "show" /\ turn' = "think" => shown' = PaletteIndex(ws)]_vars
  BY NextCells
<1> QED BY <1>1, SpecCells, PTL DEF Spec, ScreenShowsPalette

=============================================================================
