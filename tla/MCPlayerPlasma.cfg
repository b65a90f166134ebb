SPECIFICATION FairSpec
CONSTANTS
  MAXAMMO <- Caps
  CLIPAMMO <- Clips
  MAXHEALTH = 4
  ARMOR = 2
  BONUSADD = 1
  BONUS_CAP = 1
  STRENGTH_CAP = 1
  IRONTICS = 1
  TICS_BOUND = 2
  WEAPONTOP = 1
  WEAPONBOTTOM = 3
  LOWERSPEED = 1
  RAISESPEED = 1
  REFIRE_CAP = 1
  WEAPON_TICS = 2
  RNG = 2
  PlasmaMap = TRUE
  KindOf <- Kinds
  Items = {"launcher", "chaingun"}
  INITIAL_BULLETS = 1
  Keys = {"nochange", "pistol", "chaingun", "missile"}
  Fires = {TRUE, FALSE}
  Uses = {FALSE}
  FloorHurts = {0}
  SUIT_LEAK_DAMAGE = 20
  Hits <- Lethal
  DC_CAP = 1
  VIEW_DROP_MAX = 0
  PAL_STEP = 2
  BERSERK = 3
  BERSERK_UNIT = 1
  BLINK_TICS = 4
  BLINK_BIT = 2
PROPERTY DeadFiresNothing
