SPECIFICATION MCSpec
CONSTANTS
  MAXAMMO <- Caps
  CLIPAMMO <- Clips
  MAXHEALTH = 4
  ARMOR = 1
  BONUSADD = 1
  BONUS_CAP = 2
  STRENGTH_CAP = 4
  IRONTICS = 3
  TICS_BOUND = 2
  WEAPONTOP = 1
  WEAPONBOTTOM = 4
  LOWERSPEED = 2
  RAISESPEED = 2
  REFIRE_CAP = 1
  WEAPON_TICS = 2
  RNG = 2
  PlasmaMap = TRUE
  KindOf <- Kinds
  Items = {"shotgun", "saw", "berserk", "shells", "launcher", "chaingun", "plasma", "pack", "blue", "bonus", "suit"}
  INITIAL_BULLETS = 1
  Keys = {"nochange", "fist", "shotgun", "chaingun", "missile", "plasma"}
  Fires = {TRUE, FALSE}
  Uses = {TRUE, FALSE}
  FloorHurts = {0, 1, 2}
  SUIT_LEAK_DAMAGE = 2
  Hits <- Lethal
  DC_CAP = 2
  VIEW_DROP_MAX = 1
  PAL_STEP = 2
  BERSERK = 3
  BERSERK_UNIT = 1
  BLINK_TICS = 2
  BLINK_BIT = 1
INVARIANT BinaryInStep
INVARIANT PlayerConsistent
PROPERTY NothingUncalledFor
PROPERTY ScreenShowsPalette
PROPERTY WeaponArrives
