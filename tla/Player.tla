------------------------------- MODULE Player -------------------------------
(***************************************************************************)
(* The player's tic: death's think or the floor's hurt, the keys, the use, *)
(* the psprites and the powers; what he touches as he moves; what the      *)
(* monsters' world does to him; and the palette the device shows.  ws is   *)
(* the model's record (World, CombatMixin) and fj the emitted cells at     *)
(* their widths, each with the items it has left lying.  Where he goes and *)
(* who hits him are choices, made once for both.                           *)
(***************************************************************************)
EXTENDS Psprites, FiniteSets

CONSTANTS
  Items, KindOf,         (* the level's items and their things             *)
  INITIAL_BULLETS,       (* 50                                             *)
  Keys,                  (* the weapon keys the runs press, NOCHANGE: none *)
  Fires, Uses,           (* what fire and use may be, subsets of BOOLEAN   *)
  FloorHurts, SUIT_LEAK_DAMAGE, (* a tic's nukage, 0 for none; 20          *)
  Hits,                  (* what the world may do to him: <<damage, source>> *)
  DC_CAP, VIEW_DROP_MAX, (* 100 and 35                                     *)
  PAL_STEP,              (* the counts a palette spans: 8                  *)
  BERSERK, BERSERK_UNIT, (* 12, one less every 64 tics                     *)
  BLINK_TICS, BLINK_BIT  (* the suit's green flickers out: 128, 8          *)

(* What is asked of a level: the rifle's code is built where the map holds *)
(* one (lootcode asserts it); a hit is one that dp_go takes, so the flash   *)
(* is a byte before its cap (hurtcode's assertion); and a floor does not   *)
(* kill in one tic who has all his health.                                 *)
ASSUME PlayerBounds ==
  /\ KindOf \in [Items -> Thing] /\ \A i \in Items : KindOf[i] = "PLAS" => PlasmaMap
  /\ INITIAL_BULLETS \in 0 .. MAXAMMO["clip"]
  /\ Keys \subseteq Weapon \cup {NOCHANGE} /\ Fires \subseteq BOOLEAN /\ Uses \subseteq BOOLEAN
  /\ DC_CAP \in Nat /\ VIEW_DROP_MAX \in Nat
  /\ \A h \in Hits : h[1] \in 1 .. 255 - DC_CAP /\ h[2] \in Nat
  /\ \A dmg \in FloorHurts : dmg \in 0 .. 255 - DC_CAP /\ dmg < MAXHEALTH
  /\ PAL_STEP \in Nat \ {0} /\ BERSERK \in Nat /\ BERSERK_UNIT \in Nat \ {0}
  /\ BLINK_TICS \in Nat /\ BLINK_BIT \in Nat \ {0}

(* The emitted palette reads berserk's count by one nibble, a quarter of   *)
(* its range: hurtcode asserts as much.                                    *)
ASSUME BerserkNibbles == PAL_STEP = 2 * (BERSERK - PAL_STEP)

VARIABLES ws, fj,
  shown,                 (* the palette the device shows                   *)
  turn,                  (* what the frame does next                       *)
  held                   (* use was down in the last world frame           *)

vars == <<ws, fj, shown, turn, held>>

(* The level start: the pistol comes up, fire and use count as held.       *)
Start ==
  [ready |-> "pistol", pending |-> NOCHANGE, owned |-> {"fist", "pistol"},
   ammo |-> [a \in Ammo |-> IF a = "clip" THEN INITIAL_BULLETS ELSE 0], backpack |-> 0,
   health |-> MAXHEALTH, armor |-> 0, armortype |-> 0, cards |-> {},
   strength |-> 0, ironfeet |-> 0, bonuscount |-> 0,
   st |-> "S_PISTOLUP", tics |-> Tics("S_PISTOLUP"), sy |-> WEAPONBOTTOM - RAISESPEED,
   fst |-> S_NULL, ftics |-> 0, refire |-> 0, attackdown |-> 1, usedown |-> 1, used |-> 0,
   dead |-> 0, rng |-> 0, dc |-> 0, attacker |-> 0, vdrop |-> 0, restart |-> 0, items |-> Items]

StartFj == [f \in DOMAIN Start \cup {"palcur"} |-> IF f = "palcur" THEN 0 ELSE Start[f]]

Init == /\ ws = Start /\ fj = StartFj
        /\ shown = 0 /\ turn = "think" /\ held \in Uses

Restart(w) == Start

(* Slip: the restart puts the shadow back as well.                         *)
RestartFjShadow(f) == StartFj

(* Every cell but palcur, what the device shows.                           *)
RestartFj(f) == [StartFj EXCEPT !.palcur = f.palcur]

(***************************************************************************)
(* Damage                                                                  *)
(***************************************************************************)

(* damage_player, its armor, and _kill_player: the weapon goes down with   *)
(* no key held.  One number is drawn, for the pain or for the death.       *)
DamagePlayer(w, dmg, source) ==
  LET save  == IF w.armortype = 0 THEN 0 ELSE IF w.armortype = 1 THEN dmg \div 3 ELSE dmg \div 2
      used  == w.armortype # 0 /\ w.armor <= save
      saved == IF used THEN w.armor ELSE save
      hit   == Draw([w EXCEPT !.armortype = IF used THEN 0 ELSE @, !.armor = @ - saved, !.attacker = source,
                              !.dc = Lesser(DC_CAP, @ + dmg - saved), !.health = @ - (dmg - saved)], 1)
  IN  IF ~Alive(w) THEN w
      ELSE IF hit.health <= 0 THEN SetWeapon([hit EXCEPT !.dead = 1], WEAPONINFO[hit.ready].down, FALSE)
      ELSE hit

(* dp_go and dp_kill.                                                      *)
DpGo(f, dmg, source) ==
  LET save  == IF f.armortype = 0 THEN 0 ELSE IF f.armortype = 1 THEN dmg \div 3 ELSE dmg \div 2
      used  == f.armortype # 0 /\ f.armor <= save
      saved == IF used THEN f.armor ELSE save
      flash == (f.dc + dmg - saved) % 256
      hit   == Draw([f EXCEPT !.armortype = IF used THEN 0 ELSE @, !.armor = @ - saved, !.attacker = source,
                              !.dc = IF flash > DC_CAP THEN DC_CAP ELSE flash,
                              !.health = (@ - (dmg - saved)) % 4096], 1)
  IN  IF f.dead = 1 \/ Signed(f.health) <= 0 THEN f
      ELSE IF Signed(hit.health) <= 0 THEN EmittedDrop([hit EXCEPT !.dead = 1]) ELSE hit

(***************************************************************************)
(* The tic                                                                 *)
(***************************************************************************)

Down1(n) == IF n = 0 THEN 0 ELSE n - 1

(* _suit_stops: only the worst floors leak, by a draw on the hurt tic.     *)
SuitStops(w, dmg)  == w.ironfeet > 0 /\ (dmg # SUIT_LEAK_DAMAGE \/ Draw(w, 1).rng # 0)
SuitDraws(w, dmg)  == w.ironfeet > 0 /\ dmg = SUIT_LEAK_DAMAGE

SpecialSector(w, dmg) ==
  IF dmg = 0 THEN w
  ELSE LET rolled == IF SuitDraws(w, dmg) THEN Draw(w, 1) ELSE w
       IN  IF SuitStops(w, dmg) THEN rolled ELSE DamagePlayer(rolled, dmg, 0)

NkGo(f, dmg) ==
  IF dmg = 0 THEN f
  ELSE IF f.ironfeet = 0 THEN DpGo(f, dmg, 0)
  ELSE IF dmg # SUIT_LEAK_DAMAGE THEN f
  ELSE LET rolled == Draw(f, 1) IN IF rolled.rng = 0 THEN DpGo(rolled, dmg, 0) ELSE rolled

(* Slip: the press is not marked, so a held key presses every tic.         *)
UseEdgeUnmarked(w, use) == [w EXCEPT !.used = IF use /\ w.usedown = 0 THEN 1 ELSE 0, !.usedown = IF use THEN @ ELSE 0]

(* The use key's edge: a press runs _use_lines, once.                      *)
UseEdge(w, use) == [w EXCEPT !.used = IF use /\ w.usedown = 0 THEN 1 ELSE 0, !.usedown = IF use THEN 1 ELSE 0]

(* _death_think; `facing`: the killer is within ANG5 of the view.          *)
DeathThink(w, in) ==
  LET low   == WeaponTics(w, in.fire)
      fades == low.attacker = 0 \/ in.facing
  IN  [low EXCEPT !.vdrop = Lesser(@ + 1, VIEW_DROP_MAX), !.dc = IF fades THEN Down1(@) ELSE @,
                  !.restart = IF in.use THEN 1 ELSE @]

(* _player_phase, alive as the tic begins: the floor may kill him, and the *)
(* rest of the tic still runs.                                             *)
LiveThink(w, in) ==
  LET armed == WeaponTics(UseEdge(WeaponKeys(SpecialSector(w, in.floor), in.key), in.use), in.fire)
  IN  [armed EXCEPT !.strength = IF @ = 0 THEN 0 ELSE Lesser(@ + 1, STRENGTH_CAP), !.ironfeet = Down1(@),
                    !.dc = Down1(@), !.bonuscount = Down1(@)]

PlayerPhase(w, in) ==
  LET on == [(IF w.restart = 1 THEN Restart(w) ELSE w) EXCEPT !.used = 0]
  IN  IF on.dead = 1 THEN DeathThink(on, in) ELSE LiveThink(on, in)

(* dt_turn: the view sinks; its fade is the tic's.                         *)
DtTurn(f, facing) ==
  [f EXCEPT !.vdrop = IF @ < VIEW_DROP_MAX THEN @ + 1 ELSE @,
            !.dc = IF f.attacker = 0 \/ facing THEN Down1(@) ELSE @]

(* The emitted tic, every guard on p_dd0, the death the tic found: the use *)
(* lines, nukage, the weapon, the fade, and post's counts.                 *)
EmittedTic(f, in) ==
  LET dd0    == f.dead = 1
      used   == IF dd0 THEN f ELSE UseEdge(f, in.use)
      hurt   == IF dd0 THEN used ELSE NkGo(used, in.floor)
      keyed  == IF dd0 THEN hurt ELSE EmittedKeys(hurt, in.key)
      armed  == EmittedTics(keyed, in.fire)
      grown  == (armed.strength + 1) % (STRENGTH_CAP + 1)
  IN  IF dd0 THEN [DtTurn(armed, in.facing) EXCEPT !.restart = IF in.use THEN 1 ELSE @]
      ELSE [armed EXCEPT !.dc = Down1(@), !.ironfeet = Down1(@), !.bonuscount = Down1(@),
                         !.strength = IF @ = 0 THEN 0 ELSE IF grown = 0 THEN STRENGTH_CAP ELSE grown]

EmittedPhase(f, in) == EmittedTic([(IF f.restart = 1 THEN RestartFj(f) ELSE f) EXCEPT !.used = 0], in)

Think ==
  /\ turn = "think" /\ turn' = "move"
  /\ \E key \in Keys, fire \in Fires, use \in Uses, floor \in FloorHurts, facing \in BOOLEAN :
       LET in == [key |-> key, fire |-> fire, use |-> use, floor |-> floor, facing |-> facing]
       IN  /\ ws' = PlayerPhase(ws, in) /\ fj' = EmittedPhase(fj, in) /\ held' = use
  /\ UNCHANGED shown

(***************************************************************************)
(* The move, the world, the screen                                         *)
(***************************************************************************)

(* _touch_specials and pk_go at an item in reach: the dead touch nothing.  *)
PickUp(w, i) ==
  LET touch == Touch(w, KindOf[i])
  IN  IF Alive(w) /\ i \in w.items /\ touch.taken THEN [touch.who EXCEPT !.items = @ \ {i}] ELSE w

PkGo(f, i) ==
  LET touch == EmittedTouch(f, KindOf[i])
  IN  IF f.dead = 0 /\ i \in f.items /\ touch.taken THEN [touch.who EXCEPT !.items = @ \ {i}] ELSE f

Reach == /\ turn = "move"
         /\ \E i \in Items : ws' = PickUp(ws, i) /\ fj' = PkGo(fj, i)
         /\ UNCHANGED <<shown, turn, held>>

Moved == turn = "move" /\ turn' = "world" /\ UNCHANGED <<ws, fj, shown, held>>

Hit == /\ turn = "world"
       /\ \E h \in Hits : ws' = DamagePlayer(ws, h[1], h[2]) /\ fj' = DpGo(fj, h[1], h[2])
       /\ UNCHANGED <<shown, turn, held>>

World == turn = "world" /\ turn' = "show" /\ UNCHANGED <<ws, fj, shown, held>>

(* palette_index.                                                          *)
Blinking(n) == n > BLINK_TICS \/ (n \div BLINK_BIT) % 2 = 1
RedPal(n)   == IF n = 0 THEN 0 ELSE Lesser(7, (n + PAL_STEP - 1) \div PAL_STEP) + 1
GoldPal(n)  == IF n = 0 THEN 0 ELSE Lesser(3, (n + PAL_STEP - 1) \div PAL_STEP) + 9
PaletteIndex(w) ==
  LET red == RedPal(Larger(w.dc, IF w.strength = 0 THEN 0 ELSE BERSERK - w.strength \div BERSERK_UNIT))
  IN  CASE red # 0                     -> red
        [] red = 0 /\ w.bonuscount > 0 -> GoldPal(w.bonuscount)
        [] OTHER                       -> IF Blinking(w.ironfeet) THEN 13 ELSE 0

(* pal_new: berserk's red from one nibble of its count.                    *)
BerserkRed(str) ==
  LET nibble == str \div ((BERSERK - PAL_STEP) * BERSERK_UNIT)
  IN  IF str = 0 \/ nibble >= 3 THEN 0 ELSE IF nibble = 0 THEN 3 ELSE 2
PalNew(f) ==
  LET red == Larger(RedPal(f.dc), BerserkRed(f.strength))
      any == IF red # 0 THEN red ELSE GoldPal(f.bonuscount)
  IN  IF any = 0 /\ Blinking(f.ironfeet) THEN 13 ELSE any

(* pal_lines: sent on a change only.                                       *)
Show == /\ turn = "show" /\ turn' = "think"
        /\ LET new == PalNew(fj)
           IN  /\ fj' = [fj EXCEPT !.palcur = new]
               /\ shown' = IF new # fj.palcur THEN new ELSE shown
        /\ UNCHANGED <<ws, held>>

(* A menu frame shows palette 0, whatever the cells hold.                  *)
MenuFrame ==
  /\ turn = "think"
  /\ fj' = [fj EXCEPT !.palcur = 0]
  /\ shown' = IF fj.palcur # 0 THEN 0 ELSE shown
  /\ UNCHANGED <<ws, turn, held>>

Next == Think \/ Reach \/ Moved \/ Hit \/ World \/ Show \/ MenuFrame

Spec     == Init /\ [][Next]_vars
(* The frame goes on, from the menu to the world again as well: each of its *)
(* steps is possible when its turn has come.                               *)
After    == [think |-> "move", move |-> "world", world |-> "show", show |-> "think"]
Advance  == turn' = After[turn]

(***************************************************************************)
(* What must hold                                                          *)
(***************************************************************************)

Cell4 == 0 .. 15
Common(w) ==
  /\ w.ready \in Weapon /\ w.pending \in Weapon \cup {NOCHANGE} /\ w.owned \subseteq Weapon
  /\ w.backpack \in {0, 1} /\ w.armor \in 0 .. 2 * ARMOR /\ w.armortype \in 0 .. 2 /\ w.cards \subseteq CardThing
  /\ w.strength \in 0 .. STRENGTH_CAP /\ w.ironfeet \in 0 .. IRONTICS /\ w.bonuscount \in 0 .. BONUS_CAP
  /\ w.st \in DOMAIN States \cup {S_NULL} /\ w.tics \in Cell4 /\ w.sy \in WEAPONTOP .. WEAPONBOTTOM
  /\ w.fst \in DOMAIN States \cup {S_NULL} /\ w.ftics \in Cell4 /\ w.refire \in 0 .. REFIRE_CAP
  /\ {w.attackdown, w.usedown, w.used, w.dead, w.restart} \subseteq {0, 1}
  /\ w.rng \in 0 .. RNG - 1 /\ w.dc \in 0 .. DC_CAP /\ w.vdrop \in 0 .. VIEW_DROP_MAX /\ w.items \subseteq Items

(* The types, and the bounds the counters keep by saturating: no cell      *)
(* wraps, and the weapon never leaves the screen's range.                  *)
TypeOK ==
  /\ Common(ws) /\ Common(fj) /\ fj.health \in 0 .. 4095 /\ fj.palcur \in 0 .. 13
  /\ ws.health <= 2 * MAXHEALTH /\ shown \in 0 .. 13
  /\ turn \in {"think", "move", "world", "show"} /\ held \in BOOLEAN

(* Field for field the emitted cells are the model's record, at their      *)
(* widths, through every order of tic, pickup and hit.                     *)
BinaryIsModel ==
  \A f \in DOMAIN Start : fj[f] = IF f = "health" THEN ws.health % 4096 ELSE ws[f]

(* The emitted cells are the model's record at their widths (lootcode,     *)
(* weaponcode and hurtcode against combat), through every order of tic,    *)
(* pickup and hit, and none leaves its range.                              *)
BinaryInStep == BinaryIsModel /\ TypeOK

(* No round is fired that he does not have, none kept past the cap.        *)
AmmoWithinCap == \A a \in Ammo : ws.ammo[a] \in 0 .. MaxAmmo(ws, a) /\ fj.ammo[a] \in 0 .. MaxAmmo(fj, a)

(* What is up, and what comes up next, is a weapon he owns, whatever gave  *)
(* it: a key, a pickup's switch, an empty magazine or berserk.             *)
ReadyIsOwned == ws.ready \in ws.owned /\ ws.pending \in ws.owned \cup {NOCHANGE}

(* The states that a weapon's up, down and attack states lead to.          *)
WeaponStates == [
  fist     |-> {"S_PUNCH", "S_PUNCHDOWN", "S_PUNCHUP", "S_PUNCH1", "S_PUNCH2", "S_PUNCH3", "S_PUNCH4", "S_PUNCH5"},
  pistol   |-> {"S_PISTOL", "S_PISTOLDOWN", "S_PISTOLUP", "S_PISTOL1", "S_PISTOL2", "S_PISTOL3", "S_PISTOL4"},
  shotgun  |-> {"S_SGUN", "S_SGUNDOWN", "S_SGUNUP", "S_SGUN1", "S_SGUN2", "S_SGUN3", "S_SGUN4", "S_SGUN5",
                "S_SGUN6", "S_SGUN7", "S_SGUN8", "S_SGUN9"},
  chaingun |-> {"S_CHAIN", "S_CHAINDOWN", "S_CHAINUP", "S_CHAIN1", "S_CHAIN2", "S_CHAIN3"},
  missile  |-> {"S_MISSILE", "S_MISSILEDOWN", "S_MISSILEUP", "S_MISSILE1", "S_MISSILE2", "S_MISSILE3"},
  plasma   |-> {"S_PLASMA", "S_PLASMADOWN", "S_PLASMAUP", "S_PLASMA1", "S_PLASMA2", "S_PLASMA2B"},
  chainsaw |-> {"S_SAW", "S_SAWB", "S_SAWDOWN", "S_SAWUP", "S_SAW1", "S_SAW2", "S_SAW3"}]

(* The psprite is in a state of the ready weapon's: no action of one       *)
(* weapon runs with another's ammo.                                        *)
PspriteIsReadys == ws.st \in WeaponStates[ws.ready]

(* A living player's weapon goes down for another: A_Lower at the bottom   *)
(* makes the pending weapon the ready one, and finds one.                  *)
LoweringHasNext == Action(ws.st) = "A_Lower" /\ ws.dead = 0 => ws.pending # NOCHANGE

(* hurtcode's "p_hp <= 0 <=> p_dead", which lets the emitted code test one *)
(* of the two.                                                             *)
DeadIffNoHealth == (ws.dead = 1 <=> ws.health <= 0) /\ (fj.dead = 1 <=> Signed(fj.health) <= 0)

(* An armor has a type exactly as long as it has points: the last save     *)
(* takes the type, and a bonus on no armor makes it green.                 *)
ArmorTellsType == ws.armortype = 0 <=> ws.armor = 0

(* Once he is dead nothing is fired, until the level starts again.         *)
DeadFiresNothing == [][ /\ ws.dead = 1 /\ ws'.dead = 1 => ws'.ammo = ws.ammo
                        /\ fj.dead = 1 /\ fj'.dead = 1 => fj'.ammo = fj.ammo ]_vars

(* The dead player's weapon never comes back up.                           *)
DeadWeaponSinks == [][ /\ ws.dead = 1 /\ ws'.dead = 1 => ws'.sy >= ws.sy
                       /\ fj.dead = 1 /\ fj'.dead = 1 => fj'.sy >= fj.sy ]_vars

(* A tic in which the use key was down the world frame before runs no use   *)
(* lines (_player_phase's usedown): one press runs them once however long   *)
(* it lasts, over pickups, hits, deaths, restarts and menu frames.          *)
UseIsAPress == [][turn = "think" /\ turn' = "move" /\ held => ws'.used = 0]_vars

(* Nor does the emitted tic then (ex_press, on pusedn).                    *)
EmittedUseIsAPress == [][turn = "think" /\ turn' = "move" /\ held => fj'.used = 0]_vars

(* What the device shows after a frame of the world is that frame's        *)
(* palette, over restarts and menu frames, though it is sent on a change.  *)
ScreenShowsPalette == [][turn = "show" /\ turn' = "think" => shown' = PaletteIndex(ws)]_vars

(* The emitted kill numbers the states as on a map without a rifle: where  *)
(* the map holds one, the cells are the model's as long as he is not hurt. *)
KillIsNumbered == PlasmaMap => Hits = {} /\ FloorHurts \subseteq {0}

(* A weapon asked for comes up, unless he dies first.                      *)
PendingComesUp == ws.pending # NOCHANGE ~> ws.pending = NOCHANGE \/ ws.dead = 1

(* The dead player's weapon reaches the bottom, or the level starts again. *)
DeadWeaponGoesDown == ws.dead = 1 ~> ws.dead = 0 \/ ws.sy = WEAPONBOTTOM

(* All that is true of him between the steps of a tic, whatever order the  *)
(* floor, a key, a pickup and a hit came in: what he holds he owns, and    *)
(* what he has left is what his cells say of one another.                  *)
PlayerConsistent ==
  ReadyIsOwned /\ PspriteIsReadys /\ LoweringHasNext /\ AmmoWithinCap /\ DeadIffNoHealth /\ ArmorTellsType

(* What no key held may bring about: a dead man's shot, his weapon's       *)
(* return, a press of a use key that never was let go.                     *)
NothingUncalledFor == DeadFiresNothing /\ DeadWeaponSinks /\ UseIsAPress /\ EmittedUseIsAPress

(* Each change of weapon ends, and so does the dead man's lowering.        *)
WeaponArrives == PendingComesUp /\ DeadWeaponGoesDown
=============================================================================
