------------------------------ MODULE Psprites ------------------------------
(***************************************************************************)
(* The weapon: combat's P_SetPsprite machine (the weapon and its flash),   *)
(* whose states' actions may set the psprite again, and the emitted one of *)
(* weaponcode, where a nested P_SetPsprite is a jump to the state's block. *)
(* Both work on the player's record (Inventory).                           *)
(***************************************************************************)
EXTENDS Inventory, Sequences

CONSTANTS
  TICS_BOUND,                   (* bound: no state lasts longer            *)
  WEAPONTOP, WEAPONBOTTOM,      (* wp_sy up and down: 32 and 128           *)
  LOWERSPEED, RAISESPEED,       (* 6                                       *)
  REFIRE_CAP,                   (* 255                                     *)
  WEAPON_TICS,                  (* passes of P_MovePsprites a frame        *)
  RNG,                          (* bound: draws are counted modulo RNG     *)
  PlasmaMap                     (* the map holds a plasma rifle            *)

(* A step down from the top is not yet the bottom, nor one up from the     *)
(* bottom the top, and wp_sy is a byte that a step never takes below 0.    *)
ASSUME PspriteBounds ==
  /\ TICS_BOUND \in Nat \ {0} /\ REFIRE_CAP \in Nat /\ WEAPON_TICS \in Nat /\ RNG \in Nat \ {0}
  /\ {WEAPONTOP, WEAPONBOTTOM, LOWERSPEED, RAISESPEED} \subseteq Nat
  /\ WEAPONTOP + LOWERSPEED < WEAPONBOTTOM /\ WEAPONTOP + RAISESPEED < WEAPONBOTTOM
  /\ RAISESPEED <= WEAPONTOP + 1 /\ WEAPONBOTTOM + LOWERSPEED < 256
  /\ PlasmaMap \in BOOLEAN

S_NULL == "S_NULL"

(* gamedata's psprite states, in the order of their indices: the tics, the *)
(* action and the next state.                                              *)
States == [
  S_LIGHTDONE |-> <<0, "none", "S_NULL">>,
  S_PUNCH |-> <<1, "A_WeaponReady", "S_PUNCH">>, S_PUNCHDOWN |-> <<1, "A_Lower", "S_PUNCHDOWN">>,
  S_PUNCHUP |-> <<1, "A_Raise", "S_PUNCHUP">>, S_PUNCH1 |-> <<4, "none", "S_PUNCH2">>,
  S_PUNCH2 |-> <<4, "A_Punch", "S_PUNCH3">>, S_PUNCH3 |-> <<5, "none", "S_PUNCH4">>,
  S_PUNCH4 |-> <<4, "none", "S_PUNCH5">>, S_PUNCH5 |-> <<5, "A_ReFire", "S_PUNCH">>,
  S_PISTOL |-> <<1, "A_WeaponReady", "S_PISTOL">>, S_PISTOLDOWN |-> <<1, "A_Lower", "S_PISTOLDOWN">>,
  S_PISTOLUP |-> <<1, "A_Raise", "S_PISTOLUP">>, S_PISTOL1 |-> <<4, "none", "S_PISTOL2">>,
  S_PISTOL2 |-> <<6, "A_FirePistol", "S_PISTOL3">>, S_PISTOL3 |-> <<4, "none", "S_PISTOL4">>,
  S_PISTOL4 |-> <<5, "A_ReFire", "S_PISTOL">>, S_PISTOLFLASH |-> <<7, "none", "S_LIGHTDONE">>,
  S_SGUN |-> <<1, "A_WeaponReady", "S_SGUN">>, S_SGUNDOWN |-> <<1, "A_Lower", "S_SGUNDOWN">>,
  S_SGUNUP |-> <<1, "A_Raise", "S_SGUNUP">>, S_SGUN1 |-> <<3, "none", "S_SGUN2">>,
  S_SGUN2 |-> <<7, "A_FireShotgun", "S_SGUN3">>, S_SGUN3 |-> <<5, "none", "S_SGUN4">>,
  S_SGUN4 |-> <<5, "none", "S_SGUN5">>, S_SGUN5 |-> <<4, "none", "S_SGUN6">>, S_SGUN6 |-> <<5, "none", "S_SGUN7">>,
  S_SGUN7 |-> <<5, "none", "S_SGUN8">>, S_SGUN8 |-> <<3, "none", "S_SGUN9">>, S_SGUN9 |-> <<7, "A_ReFire", "S_SGUN">>,
  S_SGUNFLASH1 |-> <<4, "none", "S_SGUNFLASH2">>, S_SGUNFLASH2 |-> <<3, "none", "S_LIGHTDONE">>,
  S_SAW |-> <<4, "A_WeaponReady", "S_SAWB">>, S_SAWB |-> <<4, "A_WeaponReady", "S_SAW">>,
  S_SAWDOWN |-> <<1, "A_Lower", "S_SAWDOWN">>, S_SAWUP |-> <<1, "A_Raise", "S_SAWUP">>,
  S_SAW1 |-> <<4, "A_Saw", "S_SAW2">>, S_SAW2 |-> <<4, "A_Saw", "S_SAW3">>, S_SAW3 |-> <<0, "A_ReFire", "S_SAW">>,
  S_PLASMA |-> <<1, "A_WeaponReady", "S_PLASMA">>, S_PLASMADOWN |-> <<1, "A_Lower", "S_PLASMADOWN">>,
  S_PLASMAUP |-> <<1, "A_Raise", "S_PLASMAUP">>, S_PLASMA1 |-> <<3, "A_FirePlasma", "S_PLASMA2">>,
  S_PLASMA2 |-> <<10, "A_ReFire", "S_PLASMA2B">>, S_PLASMA2B |-> <<10, "none", "S_PLASMA">>,
  S_PLASMAFLASH1 |-> <<4, "none", "S_LIGHTDONE">>, S_PLASMAFLASH2 |-> <<4, "none", "S_LIGHTDONE">>,
  S_MISSILE |-> <<1, "A_WeaponReady", "S_MISSILE">>, S_MISSILEDOWN |-> <<1, "A_Lower", "S_MISSILEDOWN">>,
  S_MISSILEUP |-> <<1, "A_Raise", "S_MISSILEUP">>, S_MISSILE1 |-> <<8, "A_GunFlash", "S_MISSILE2">>,
  S_MISSILE2 |-> <<12, "A_FireMissile", "S_MISSILE3">>, S_MISSILE3 |-> <<0, "A_ReFire", "S_MISSILE">>,
  S_MISSILEFLASH1 |-> <<3, "none", "S_MISSILEFLASH2">>, S_MISSILEFLASH2 |-> <<4, "none", "S_MISSILEFLASH3">>,
  S_MISSILEFLASH3 |-> <<4, "none", "S_MISSILEFLASH4">>, S_MISSILEFLASH4 |-> <<4, "none", "S_LIGHTDONE">>,
  S_CHAIN |-> <<1, "A_WeaponReady", "S_CHAIN">>, S_CHAINDOWN |-> <<1, "A_Lower", "S_CHAINDOWN">>,
  S_CHAINUP |-> <<1, "A_Raise", "S_CHAINUP">>, S_CHAIN1 |-> <<4, "A_FireCGun", "S_CHAIN2">>,
  S_CHAIN2 |-> <<4, "A_FireCGun", "S_CHAIN3">>, S_CHAIN3 |-> <<0, "A_ReFire", "S_CHAIN">>,
  S_CHAINFLASH1 |-> <<5, "none", "S_LIGHTDONE">>, S_CHAINFLASH2 |-> <<5, "none", "S_LIGHTDONE">>]

Tics(s)   == Lesser(States[s][1], TICS_BOUND)
Action(s) == States[s][2]
Next_(s)  == States[s][3]

(* weaponinfo: the states that raise, lower, hold, fire and light a weapon. *)
Info(up, down, rdy, atk, fl) == [up |-> up, down |-> down, ready |-> rdy, atk |-> atk, flash |-> fl]
WEAPONINFO == [
  fist     |-> Info("S_PUNCHUP", "S_PUNCHDOWN", "S_PUNCH", "S_PUNCH1", S_NULL),
  pistol   |-> Info("S_PISTOLUP", "S_PISTOLDOWN", "S_PISTOL", "S_PISTOL1", "S_PISTOLFLASH"),
  shotgun  |-> Info("S_SGUNUP", "S_SGUNDOWN", "S_SGUN", "S_SGUN1", "S_SGUNFLASH1"),
  chaingun |-> Info("S_CHAINUP", "S_CHAINDOWN", "S_CHAIN", "S_CHAIN1", "S_CHAINFLASH1"),
  missile  |-> Info("S_MISSILEUP", "S_MISSILEDOWN", "S_MISSILE", "S_MISSILE1", "S_MISSILEFLASH1"),
  plasma   |-> Info("S_PLASMAUP", "S_PLASMADOWN", "S_PLASMA", "S_PLASMA1", "S_PLASMAFLASH1"),
  chainsaw |-> Info("S_SAWUP", "S_SAWDOWN", "S_SAW", "S_SAW1", S_NULL)]

Alive(w)   == w.dead = 0 /\ w.health > 0
Larger(a, b) == IF a > b THEN a ELSE b
Draw(w, n) == [w EXCEPT !.rng = (@ + n) % RNG]

(* A_FirePlasma's flash, P_Random() & 1.                                   *)
PlasmaFlash(w) == IF w.rng % 2 = 0 THEN "S_PLASMAFLASH1" ELSE "S_PLASMAFLASH2"

CgunFlash == [S_CHAIN1 |-> "S_CHAINFLASH1", S_CHAIN2 |-> "S_CHAINFLASH2"]

(* P_CheckAmmo's preference; the pistol and the fist he always owns.       *)
Preference == <<"plasma", "chaingun", "shotgun", "pistol", "chainsaw", "missile", "fist">>
Usable(owned, ammo, g) == /\ g \in owned \cup {"pistol", "fist"}
                          /\ AmmoOf[g] = "none" \/ ammo[AmmoOf[g]] > 0
Preferred(owned, ammo) ==
  LET usable(i) == Usable(owned, ammo, Preference[i])
  IN  Preference[CHOOSE i \in DOMAIN Preference : usable(i) /\ \A j \in 1 .. i - 1 : ~usable(j)]

EnoughAmmo(w) == AmmoOf[w.ready] = "none" \/ w.ammo[AmmoOf[w.ready]] >= 1

(***************************************************************************)
(* The model (CombatMixin)                                                 *)
(***************************************************************************)

(* _set_psprite of the flash: no flash state has an action that counts, and *)
(* the one that lasts no tics ends it.                                     *)
Lit(w, s)      == [w EXCEPT !.fst = s, !.ftics = IF s = S_NULL THEN 0 ELSE Tics(s)]
SetFlash(w, s) == Lit(w, IF s # S_NULL /\ Tics(s) = 0 THEN Next_(s) ELSE s)

(* What an action leaves: the player, and the state that it sets with its  *)
(* last call, if it does.                                                  *)
Stays      == "stays"
Stay(w)    == [who |-> w, sets |-> Stays]
Sets(w, s) == [who |-> w, sets |-> s]

Down(w) == Sets(w, WEAPONINFO[w.ready].down)

(* _fire_weapon and _check_ammo; the noise is NoiseFlood's.                *)
CheckAmmo(w)  == IF EnoughAmmo(w) THEN Stay(w) ELSE Down([w EXCEPT !.pending = Preferred(w.owned, w.ammo)])
FireWeapon(w) == IF EnoughAmmo(w) THEN Sets(w, WEAPONINFO[w.ready].atk) ELSE CheckAmmo(w)

WeaponReady(w, fire) ==
  IF w.pending # NOCHANGE \/ w.health <= 0 THEN Down(w)
  ELSE IF fire /\ (w.attackdown = 0 \/ w.ready # "missile") THEN FireWeapon([w EXCEPT !.attackdown = 1])
  ELSE Stay([w EXCEPT !.attackdown = IF fire THEN @ ELSE 0, !.sy = WEAPONTOP])

BringUp(w) ==
  LET new == IF w.pending = NOCHANGE THEN w.ready ELSE w.pending
  IN  Sets([w EXCEPT !.pending = NOCHANGE, !.sy = WEAPONBOTTOM], WEAPONINFO[new].up)

Lowered(w) == [w EXCEPT !.sy = @ + LOWERSPEED]

(* Slip: the next weapon comes up and the ready one is not changed.        *)
LowerKeepsReady(w) ==
  IF Lowered(w).sy < WEAPONBOTTOM THEN Stay(Lowered(w))
  ELSE IF w.dead = 1 THEN Stay([w EXCEPT !.sy = WEAPONBOTTOM])
  ELSE IF w.health <= 0 THEN Sets(Lowered(w), S_NULL)
  ELSE BringUp(w)

(* Slip: the dead player's weapon is left where it is.                     *)
LowerDeadStops(w) ==
  IF w.dead = 1 THEN Stay(w)
  ELSE IF Lowered(w).sy < WEAPONBOTTOM THEN Stay(Lowered(w))
  ELSE BringUp([w EXCEPT !.ready = w.pending])

Lower(w) ==
  IF Lowered(w).sy < WEAPONBOTTOM THEN Stay(Lowered(w))
  ELSE IF w.dead = 1 THEN Stay([w EXCEPT !.sy = WEAPONBOTTOM])
  ELSE IF w.health <= 0 THEN Sets(Lowered(w), S_NULL)
  ELSE BringUp([w EXCEPT !.ready = w.pending])

Raise(w) ==
  IF w.sy - RAISESPEED > WEAPONTOP THEN Stay([w EXCEPT !.sy = @ - RAISESPEED])
  ELSE Sets([w EXCEPT !.sy = WEAPONTOP], WEAPONINFO[w.ready].ready)

ReFire(w, fire) ==
  IF fire /\ w.pending = NOCHANGE /\ w.health > 0
  THEN FireWeapon([w EXCEPT !.refire = Lesser(@ + 1, REFIRE_CAP)])
  ELSE CheckAmmo([w EXCEPT !.refire = 0])

Spent(w) == [w EXCEPT !.ammo[AmmoOf[w.ready]] = @ - 1]

(* P_GunShot's draws: an accurate first shot one, any other three.         *)
GunShot(w) == Draw(w, IF w.refire = 0 THEN 1 ELSE 3)

FireCGun(w) ==
  IF w.ammo.clip = 0 THEN w ELSE GunShot(SetFlash([w EXCEPT !.ammo.clip = @ - 1], CgunFlash[w.st]))

FirePlasma(w) == LET rolled == Draw(Spent(w), 1) IN SetFlash(rolled, PlasmaFlash(rolled))

PspAction(w, act, fire) ==
  CASE act = "A_WeaponReady" -> WeaponReady(w, fire)
    [] act = "A_Lower"       -> Lower(w)
    [] act = "A_Raise"       -> Raise(w)
    [] act = "A_ReFire"      -> ReFire(w, fire)
    [] act = "A_FirePistol"  -> Stay(GunShot(SetFlash(Spent(w), WEAPONINFO[w.ready].flash)))
    [] act = "A_FireShotgun" -> Stay(Draw(SetFlash(Spent(w), WEAPONINFO[w.ready].flash), 21))
    [] act = "A_FireCGun"    -> Stay(FireCGun(w))
    [] act = "A_GunFlash"    -> Stay(SetFlash(w, WEAPONINFO[w.ready].flash))
    [] act = "A_FireMissile" -> Stay(Spent(w))
    [] act = "A_FirePlasma"  -> Stay(FirePlasma(w))
    [] act \in {"A_Punch", "A_Saw"} -> Stay(Draw(w, 3))
    [] OTHER -> Stay(w)

(* A turn of _set_psprite's loop: the state, its tics, its action, and on  *)
(* while it lasts none.  An action's own P_SetPsprite is its last call and *)
(* ends where the loop it came from ends, in a state that lasts or in      *)
(* none, so the two are turns of one loop.                                 *)
OnWhileNone(ran) == IF ran.sets # Stays \/ ran.who.tics # 0 THEN ran ELSE Sets(ran.who, Next_(ran.who.st))
SetOnce(r, fire) ==
  IF r.sets = Stays THEN r
  ELSE IF r.sets = S_NULL THEN Stay([r.who EXCEPT !.st = S_NULL, !.tics = 0])
  ELSE OnWhileNone(PspAction([r.who EXCEPT !.st = r.sets, !.tics = Tics(r.sets)], Action(r.sets), fire))

(* _set_psprite; its guard of 64 is never met: the third turn is the last  *)
(* (a raise to the top, or a refire of no tics, then ready, then down or   *)
(* fire).                                                                  *)
SetWeapon(w, s, fire) == SetOnce(SetOnce(SetOnce(Sets(w, s), fire), fire), fire).who

(* _move_psprites: the weapon, then the flash it may have set.             *)
MoveFlash(w) ==
  IF w.fst = S_NULL THEN w
  ELSE IF w.ftics = 1 THEN SetFlash([w EXCEPT !.ftics = 0], Next_(w.fst)) ELSE [w EXCEPT !.ftics = @ - 1]

MoveWeapon(w, fire) ==
  IF w.st = S_NULL THEN w
  ELSE IF w.tics = 1 THEN SetWeapon([w EXCEPT !.tics = 0], Next_(w.st), fire) ELSE [w EXCEPT !.tics = @ - 1]

MovePsprites(w, fire) == MoveFlash(MoveWeapon(w, fire))

(* _weapon_tics: the frame's passes.                                       *)
WeaponTics(w, fire) ==
  LET after[n \in 0 .. WEAPON_TICS] == IF n = 0 THEN w ELSE MovePsprites(after[n - 1], fire)
  IN  after[WEAPON_TICS]

(* _weapon_keys, the lowest held key's weapon.                             *)
WeaponKeys(w, key) ==
  LET new == IF key = "fist" /\ "chainsaw" \in w.owned /\ ~(w.ready = "chainsaw" /\ w.strength > 0)
             THEN "chainsaw" ELSE key
  IN  IF key # NOCHANGE /\ new \in w.owned /\ new # w.ready THEN [w EXCEPT !.pending = new] ELSE w

(***************************************************************************)
(* The emitted code (weaponcode)                                           *)
(***************************************************************************)

(* A block's action falls through, or jumps to a state's block.            *)
Fall(f)     == [cells |-> f, to |-> S_NULL]
Jump(f, s)  == [cells |-> f, to |-> s]

(* fen<s>, an fcall'd chain: a block, and the next one's if it lasts none. *)
FenBlock(f, s) ==
  IF s = S_NULL THEN [f EXCEPT !.fst = S_NULL, !.ftics = 0] ELSE [f EXCEPT !.fst = s, !.ftics = Tics(s)]
Fen(f, s) == IF s # S_NULL /\ Tics(s) = 0 THEN FenBlock(FenBlock(f, s), Next_(s)) ELSE FenBlock(f, s)

EmittedCheckAmmo(f) ==
  IF EnoughAmmo(f) THEN Fall(f) ELSE Jump([f EXCEPT !.pending = Preferred(f.owned, f.ammo)], WEAPONINFO[f.ready].down)

EmittedFire(f) == IF EnoughAmmo(f) THEN Jump(f, WEAPONINFO[f.ready].atk) ELSE EmittedCheckAmmo(f)

EmittedReady(f, fire) ==
  IF f.pending # NOCHANGE \/ f.health >= 2048 \/ f.health = 0 THEN Jump(f, WEAPONINFO[f.ready].down)
  ELSE IF fire /\ (f.attackdown = 0 \/ f.ready # "missile") THEN EmittedFire([f EXCEPT !.attackdown = 1])
  ELSE Fall([f EXCEPT !.attackdown = IF fire THEN @ ELSE 0, !.sy = WEAPONTOP])

(* health <= 0 without death is not emitted: hurtcode has it never so.     *)
EmittedLower(f) ==
  LET low == [f EXCEPT !.sy = (@ + LOWERSPEED) % 256]
  IN  IF low.sy < WEAPONBOTTOM THEN Fall(low)
      ELSE IF f.dead = 1 THEN Fall([low EXCEPT !.sy = WEAPONBOTTOM])
      ELSE Jump([low EXCEPT !.ready = f.pending, !.pending = NOCHANGE, !.sy = WEAPONBOTTOM],
                WEAPONINFO[f.pending].up)

EmittedRaise(f) ==
  LET high == [f EXCEPT !.sy = (@ - RAISESPEED) % 256]
  IN  IF high.sy > WEAPONTOP THEN Fall(high)
      ELSE Jump([high EXCEPT !.sy = WEAPONTOP], WEAPONINFO[f.ready].ready)

EmittedReFire(f, fire) ==
  IF fire /\ f.pending = NOCHANGE /\ f.health < 2048 /\ f.health # 0
  THEN EmittedFire([f EXCEPT !.refire = IF @ = REFIRE_CAP THEN @ ELSE @ + 1])
  ELSE EmittedCheckAmmo([f EXCEPT !.refire = 0])

Took(f, a) == [f EXCEPT !.ammo[a] = (@ - 1) % 4096]

EmittedAction(f, s, fire) ==
  LET act == Action(s)
  IN  CASE act = "A_WeaponReady" -> EmittedReady(f, fire)
        [] act = "A_Lower"       -> EmittedLower(f)
        [] act = "A_Raise"       -> EmittedRaise(f)
        [] act = "A_ReFire"      -> EmittedReFire(f, fire)
        [] act = "A_FirePistol"  -> Fall(GunShot(Fen(Took(f, "clip"), "S_PISTOLFLASH")))
        [] act = "A_FireShotgun" -> Fall(Draw(Fen(Took(f, "shell"), "S_SGUNFLASH1"), 21))
        [] act = "A_FireCGun"    ->
             Fall(IF f.ammo.clip = 0 THEN f ELSE GunShot(Fen(Took(f, "clip"), CgunFlash[s])))
        [] act = "A_GunFlash"    -> Fall(Fen(f, "S_MISSILEFLASH1"))
        [] act = "A_FireMissile" -> Fall(Took(f, "misl"))
        [] act = "A_FirePlasma"  -> LET rolled == Draw(Took(f, "cell"), 1)
                                    IN  Fall(Fen(rolled, PlasmaFlash(rolled)))
        [] act \in {"A_Punch", "A_Saw"} -> Fall(Draw(f, 3))
        [] OTHER -> Fall(f)

(* The block at wen<s>: the state, its tics, its action; it jumps on while *)
(* it lasts none.                                                          *)
JumpWhileNone(ran, s) == IF ran.to # S_NULL \/ Tics(s) # 0 THEN ran ELSE Jump(ran.cells, Next_(s))
WenBlock(r, fire) ==
  IF r.to = S_NULL THEN r
  ELSE JumpWhileNone(EmittedAction([r.cells EXCEPT !.st = r.to, !.tics = Tics(r.to)], r.to, fire), r.to)

(* wen<s>: "every path ends at a state with tics", the third at the latest. *)
Wen(f, s, fire) == WenBlock(WenBlock(WenBlock(Jump(f, s), fire), fire), fire).cells

EmittedWeapon_(f, fire) ==
  LET on == [f EXCEPT !.tics = (@ - 1) % 16]
  IN  IF f.st = S_NULL THEN f ELSE IF on.tics = 0 THEN Wen(on, Next_(f.st), fire) ELSE on

EmittedFlash(f) ==
  IF f.fst = S_NULL THEN f
  ELSE LET on == [f EXCEPT !.ftics = (@ - 1) % 16] IN IF on.ftics = 0 THEN Fen(on, Next_(f.fst)) ELSE on

(* wp_ptic, looped on wp_pass.                                             *)
EmittedTics(f, fire) ==
  LET pass[n \in 0 .. WEAPON_TICS] ==
        IF n = 0 THEN f ELSE EmittedFlash(EmittedWeapon_(pass[n - 1], fire))
  IN  pass[WEAPON_TICS]

(* Slip: key 1 takes the saw up though berserk runs.                       *)
EmittedKeysNoBerserk(f, key) ==
  CASE key = "fist" /\ "chainsaw" \in f.owned ->
         IF f.ready # "chainsaw" THEN [f EXCEPT !.pending = "chainsaw"] ELSE f
    [] key # NOCHANGE /\ ~(key = "fist" /\ "chainsaw" \in f.owned) ->
         IF key \in f.owned /\ key # f.ready THEN [f EXCEPT !.pending = key] ELSE f
    [] OTHER -> f

(* wk_*: key 1 is the saw's, but with the saw up and berserk the fist's.   *)
EmittedKeys(f, key) ==
  CASE key = "fist" /\ "chainsaw" \in f.owned ->
         IF f.ready # "chainsaw" THEN [f EXCEPT !.pending = "chainsaw"]
         ELSE IF f.strength > 0 THEN [f EXCEPT !.pending = "fist"] ELSE f
    [] key # NOCHANGE /\ ~(key = "fist" /\ "chainsaw" \in f.owned) ->
         IF key \in f.owned /\ key # f.ready THEN [f EXCEPT !.pending = key] ELSE f
    [] OTHER -> f

(* The psprite states a map's program numbers (wp_st), by index: the       *)
(* rifle's come between the saw's and the launcher's.                      *)
LocalStates(plasma) ==
  << S_NULL, "S_LIGHTDONE", "S_PUNCH", "S_PUNCHDOWN", "S_PUNCHUP", "S_PUNCH1", "S_PUNCH2", "S_PUNCH3",
     "S_PUNCH4", "S_PUNCH5", "S_PISTOL", "S_PISTOLDOWN", "S_PISTOLUP", "S_PISTOL1", "S_PISTOL2",
     "S_PISTOL3", "S_PISTOL4", "S_PISTOLFLASH", "S_SGUN", "S_SGUNDOWN", "S_SGUNUP", "S_SGUN1", "S_SGUN2",
     "S_SGUN3", "S_SGUN4", "S_SGUN5", "S_SGUN6", "S_SGUN7", "S_SGUN8", "S_SGUN9", "S_SGUNFLASH1",
     "S_SGUNFLASH2", "S_SAW", "S_SAWB", "S_SAWDOWN", "S_SAWUP", "S_SAW1", "S_SAW2", "S_SAW3" >>
  \o (IF plasma THEN << "S_PLASMA", "S_PLASMADOWN", "S_PLASMAUP", "S_PLASMA1", "S_PLASMA2",
                        "S_PLASMA2B", "S_PLASMAFLASH1", "S_PLASMAFLASH2" >> ELSE << >>)
  \o << "S_MISSILE", "S_MISSILEDOWN", "S_MISSILEUP", "S_MISSILE1", "S_MISSILE2", "S_MISSILE3",
        "S_MISSILEFLASH1", "S_MISSILEFLASH2", "S_MISSILEFLASH3", "S_MISSILEFLASH4", "S_CHAIN",
        "S_CHAINDOWN", "S_CHAINUP", "S_CHAIN1", "S_CHAIN2", "S_CHAIN3", "S_CHAINFLASH1", "S_CHAINFLASH2" >>

Numbered(plasma, s) == CHOOSE i \in DOMAIN LocalStates(plasma) : LocalStates(plasma)[i] = s

(* Slip: the dying player's weapon is not dropped.                         *)
EmittedDropForgotten(f) == f

(* dp_kill's weapon (hurtcode): the states are numbered as on a map without *)
(* a rifle, and a ready rifle goes the chain's last way, the saw's.        *)
EmittedDrop(f) ==
  LET down == WEAPONINFO[IF f.ready = "plasma" THEN "chainsaw" ELSE f.ready].down
      low  == (f.sy + LOWERSPEED) % 256
  IN  [f EXCEPT !.st = LocalStates(PlasmaMap)[Numbered(FALSE, down)], !.tics = Tics(down),
                !.sy = IF low >= WEAPONBOTTOM THEN WEAPONBOTTOM ELSE low]
=============================================================================
