----------------------------- MODULE Inventory -----------------------------
(***************************************************************************)
(* What the player holds, and what a pickup gives: combat's _touch and its *)
(* give routines, and the emitted give_<kind> and ga<a> of lootcode.  The  *)
(* operators take the player's record, the model's or the emitted cells'   *)
(* (the same fields, at the cells' widths), and return the record and      *)
(* whether the thing was taken.                                            *)
(***************************************************************************)
EXTENDS Integers

CONSTANTS
  MAXAMMO, CLIPAMMO,     (* by kind of ammo: gamedata's                    *)
  MAXHEALTH,             (* 100; MAX_SOUL and the bonuses' cap are twice it *)
  ARMOR,                 (* a green armor's points, 100; a blue one's twice *)
  BONUSADD, BONUS_CAP,   (* the gold flash: 6 a pickup, at most 255        *)
  STRENGTH_CAP,          (* berserk's count                                *)
  IRONTICS               (* the suit's tics                                *)

Ammo     == {"clip", "shell", "cell", "misl"}
Weapon   == {"fist", "pistol", "shotgun", "chaingun", "missile", "plasma", "chainsaw"}
NOCHANGE == "nochange"

(* What the cells hold: lootcode asserts that a full backpack and five more *)
(* clips of anything, and a soul on the most health, stay within three      *)
(* nibbles; a health at most is not taken for one below 0, an armor is a   *)
(* byte, and a pickup's flash is within the flash's cap.                    *)
ASSUME InventoryBounds ==
  /\ MAXAMMO \in [Ammo -> Nat \ {0}] /\ CLIPAMMO \in [Ammo -> Nat]
  /\ \A a \in Ammo : 2 * MAXAMMO[a] + 5 * CLIPAMMO[a] < 4096
  /\ MAXHEALTH \in Nat \ {0} /\ 2 * MAXHEALTH < 2048
  /\ ARMOR \in Nat \ {0} /\ 2 * ARMOR < 255
  /\ BONUSADD \in Nat /\ BONUS_CAP \in Nat /\ BONUSADD <= BONUS_CAP
  /\ STRENGTH_CAP \in Nat \ {0} /\ IRONTICS \in Nat

AmmoOf == [fist |-> "none", pistol |-> "clip", shotgun |-> "shell", chaingun |-> "clip",
           missile |-> "misl", plasma |-> "cell", chainsaw |-> "none"]

(* By the thing's name: the ammo it is of, and its clips (a dropped clip    *)
(* half a one).                                                            *)
AmmoThing == [CLIP |-> <<"clip", 1>>, CLIPdropped |-> <<"clip", 0>>, AMMO |-> <<"clip", 5>>,
              ROCK |-> <<"misl", 1>>, BROK |-> <<"misl", 5>>, CELL |-> <<"cell", 1>>,
              CELP |-> <<"cell", 5>>, SHEL |-> <<"shell", 1>>, SBOX |-> <<"shell", 5>>]

(* The weapon it is, and the clips with it.                                *)
WeaponThing == [CSAW |-> <<"chainsaw", 0>>, LAUN |-> <<"missile", 2>>, PLAS |-> <<"plasma", 2>>,
                MGUN |-> <<"chaingun", 2>>, SHOT |-> <<"shotgun", 2>>, SHOTdropped |-> <<"shotgun", 1>>]

ArmorThing == [ARM1 |-> 1, ARM2 |-> 2]
BodyThing  == [STIM |-> 10, MEDI |-> 25]
CardThing  == {"BKEY", "YKEY", "RKEY"}

Thing == DOMAIN AmmoThing \cup DOMAIN WeaponThing \cup DOMAIN ArmorThing \cup DOMAIN BodyThing
         \cup CardThing \cup {"BON1", "BON2", "SOUL", "SUIT", "PSTR", "BPAK"}

Lesser(a, b) == IF a < b THEN a ELSE b
Taken(w)     == [who |-> w, taken |-> TRUE]
Refused(w)   == [who |-> w, taken |-> FALSE]

MaxAmmo(w, a) == MAXAMMO[a] * (IF w.backpack = 1 THEN 2 ELSE 1)
Rounds(a, clips) == IF clips = 0 THEN CLIPAMMO[a] \div 2 ELSE clips * CLIPAMMO[a]

(* The weapon that the first round of an ammo brings up.                   *)
Switch(w, a) ==
  LET weak(up, g) == IF w.ready \in up /\ g \in w.owned THEN g ELSE w.pending
  IN  CASE a = "clip"  -> IF w.ready = "fist" THEN IF "chaingun" \in w.owned THEN "chaingun" ELSE "pistol"
                          ELSE w.pending
        [] a = "shell" -> weak({"fist", "pistol"}, "shotgun")
        [] a = "cell"  -> weak({"fist", "pistol"}, "plasma")
        [] a = "misl"  -> weak({"fist"}, "missile")

(***************************************************************************)
(* The model                                                               *)
(***************************************************************************)

GiveAmmo(w, a, clips) ==
  IF w.ammo[a] = MaxAmmo(w, a) THEN Refused(w)
  ELSE Taken([w EXCEPT !.ammo[a] = Lesser(@ + Rounds(a, clips), MaxAmmo(w, a)),
                       !.pending = IF w.ammo[a] = 0 THEN Switch(w, a) ELSE @])

GiveWeapon(w, g, clips) ==
  LET given == IF AmmoOf[g] = "none" THEN Refused(w) ELSE GiveAmmo(w, AmmoOf[g], clips)
  IN  IF g \in w.owned THEN given
      ELSE Taken([given.who EXCEPT !.owned = @ \cup {g}, !.pending = g])

GiveBody(w, num) ==
  IF w.health >= MAXHEALTH THEN Refused(w) ELSE Taken([w EXCEPT !.health = Lesser(@ + num, MAXHEALTH)])

GiveArmor(w, type) ==
  IF w.armor >= type * ARMOR THEN Refused(w)
  ELSE Taken([w EXCEPT !.armortype = type, !.armor = type * ARMOR])

(* Every ammo's clip, in gamedata's order.                                 *)
GiveClips(w) ==
  LET give(v, a) == GiveAmmo(v, a, 1).who IN give(give(give(give(w, "clip"), "shell"), "cell"), "misl")

(* What the thing gives, the gold flash left out.                          *)
Given(w, thing) ==
  CASE thing \in DOMAIN AmmoThing   -> GiveAmmo(w, AmmoThing[thing][1], AmmoThing[thing][2])
    [] thing \in DOMAIN WeaponThing -> GiveWeapon(w, WeaponThing[thing][1], WeaponThing[thing][2])
    [] thing \in DOMAIN ArmorThing  -> GiveArmor(w, ArmorThing[thing])
    [] thing \in DOMAIN BodyThing   -> GiveBody(w, BodyThing[thing])
    [] thing \in CardThing -> Taken(IF thing \in w.cards THEN w
                                    ELSE [w EXCEPT !.cards = @ \cup {thing}, !.bonuscount = BONUSADD])
    [] thing = "BON1" -> Taken([w EXCEPT !.health = Lesser(@ + 1, 2 * MAXHEALTH)])
    [] thing = "BON2" -> Taken([w EXCEPT !.armor = Lesser(@ + 1, 2 * ARMOR),
                                         !.armortype = IF @ = 0 THEN 1 ELSE @])
    [] thing = "SOUL" -> Taken([w EXCEPT !.health = Lesser(@ + MAXHEALTH, 2 * MAXHEALTH)])
    [] thing = "SUIT" -> Taken([w EXCEPT !.ironfeet = IRONTICS])
    [] thing = "PSTR" -> Taken([GiveBody(w, MAXHEALTH).who EXCEPT
                                  !.strength = 1, !.pending = IF w.ready = "fist" THEN @ ELSE "fist"])
    [] thing = "BPAK" -> Taken(GiveClips([w EXCEPT !.backpack = 1]))

(* P_TouchSpecialThing, in reach.                                          *)
Touch(w, thing) ==
  LET give == Given(w, thing)
  IN  IF give.taken THEN Taken([give.who EXCEPT !.bonuscount = Lesser(@ + BONUSADD, BONUS_CAP)]) ELSE give

(***************************************************************************)
(* The emitted code                                                        *)
(***************************************************************************)

(* A three-nibble signed cell's value.                                     *)
Signed(cell) == IF cell >= 2048 THEN cell - 4096 ELSE cell

(* ga<a>: the rounds come scaled; the switch is after the cap.             *)
Ga(f, a, n) ==
  IF f.ammo[a] = MaxAmmo(f, a) THEN Refused(f)
  ELSE Taken([f EXCEPT !.ammo[a] = Lesser((@ + n) % 4096, MaxAmmo(f, a)),
                       !.pending = IF f.ammo[a] = 0 THEN Switch(f, a) ELSE @])

(* Health up to a cap: hex.cmp has no sign, and a living player's needs none. *)
Healed(f, n, cap) == [f EXCEPT !.health = Lesser((@ + n) % 4096, cap)]

EmittedBody(f, n) == IF f.health >= MAXHEALTH THEN Refused(f) ELSE Taken(Healed(f, n, MAXHEALTH))

EmittedWeapon(f, g, clips) ==
  LET given == IF AmmoOf[g] = "none" THEN Refused(f) ELSE Ga(f, AmmoOf[g], clips * CLIPAMMO[AmmoOf[g]])
  IN  IF g \in f.owned THEN given ELSE Taken([given.who EXCEPT !.owned = @ \cup {g}, !.pending = g])

EmittedClips(f) ==
  LET ga(v, a) == Ga(v, a, CLIPAMMO[a]).who IN ga(ga(ga(ga(f, "clip"), "shell"), "cell"), "misl")

EmittedGive(f, thing) ==
  CASE thing \in DOMAIN AmmoThing   ->
         Ga(f, AmmoThing[thing][1], Rounds(AmmoThing[thing][1], AmmoThing[thing][2]))
    [] thing \in DOMAIN WeaponThing -> EmittedWeapon(f, WeaponThing[thing][1], WeaponThing[thing][2])
    [] thing \in DOMAIN ArmorThing  ->
         IF f.armor < ArmorThing[thing] * ARMOR
         THEN Taken([f EXCEPT !.armortype = ArmorThing[thing], !.armor = (ArmorThing[thing] * ARMOR) % 256])
         ELSE Refused(f)
    [] thing \in DOMAIN BodyThing -> EmittedBody(f, BodyThing[thing])
    [] thing \in CardThing -> Taken(IF thing \in f.cards THEN f
                                    ELSE [f EXCEPT !.bonuscount = BONUSADD, !.cards = @ \cup {thing}])
    [] thing = "BON1" -> Taken(Healed(f, 1, 2 * MAXHEALTH))
    [] thing = "BON2" -> Taken([f EXCEPT !.armor = Lesser((@ + 1) % 256, 2 * ARMOR),
                                         !.armortype = IF @ = 0 THEN 1 ELSE @])
    [] thing = "SOUL" -> Taken(Healed(f, MAXHEALTH, 2 * MAXHEALTH))
    [] thing = "SUIT" -> Taken([f EXCEPT !.ironfeet = IRONTICS])
    [] thing = "PSTR" -> Taken([EmittedBody(f, MAXHEALTH).who EXCEPT
                                  !.strength = 1, !.pending = IF f.ready = "fist" THEN @ ELSE "fist"])
    [] thing = "BPAK" -> Taken(EmittedClips([f EXCEPT !.backpack = 1]))

(* pk<i>: the give, then pk_bonus.                                         *)
EmittedTouch(f, thing) ==
  LET give == EmittedGive(f, thing)
  IN  IF give.taken
      THEN Taken([give.who EXCEPT !.bonuscount = IF @ > BONUS_CAP - BONUSADD THEN BONUS_CAP ELSE @ + BONUSADD])
      ELSE give
=============================================================================
