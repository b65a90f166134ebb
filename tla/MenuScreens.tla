----------------------------- MODULE MenuScreens -----------------------------
(***************************************************************************)
(* The menu's screens and keys (doomfj.menu): the values of menu_scr, the  *)
(* oracle's words for the map page and the halt, and the order in which    *)
(* one frame's key events are looked at.                                   *)
(***************************************************************************)
EXTENDS Integers

CONSTANTS
  NSkills,      (* the skills the skill screen offers (SKILLS)             *)
  MapPage       (* does this map have the map page (automap)               *)

ASSUME MenuAssumption == NSkills \in Nat \ {0, 1, 2} /\ MapPage \in BOOLEAN

(* The main menu's items, as the screen with that item highlighted.        *)
MAIN_NEW_SCR    == 0
MAIN_HELP_SCR   == 5
MAIN_EXIT_SCR   == 6
MAIN_RESUME_SCR == 7
MAIN_MAP_SCR    == 18

SKILL_SCR      == 1
HELP_MENU_SCR  == 3         (* the help, opened from the menu              *)
HELP_GAME_SCR  == 4         (* the help, opened from the world             *)
MAP_GAME_SCR   == 16
MAP_MENU_SCR   == 17
MENU_HALTED    == -1

(* LEVEL COMPLETE, and the hold that precedes it: no key is read there.    *)
LEVEL_DONE_SCR       == 2
LEVEL_DONE_ENTER     == 15
LEVEL_DONE_HOLD_LAST == 8
HoldScreens  == LEVEL_DONE_HOLD_LAST .. LEVEL_DONE_ENTER

BootSel   == 1              (* BOOT_MENU_SKILL: MEDIUM                     *)
BootSkill == 2              (* BOOT_SKILL: HARD                            *)

(* The down edges the polls record; "any" comes with every other.          *)
KeyEvents == {"esc", "enter", "help", "map", "up", "dn"}
Rank      == [esc |-> 1, enter |-> 2, help |-> 3, map |-> 4, up |-> 5, dn |-> 6]
MapKey    == IF MapPage THEN {"map"} ELSE {}

(* What one frame's polls can have seen: any keys, M only where it is read.*)
Polls == {{}} \union {S \union {"any"} : S \in SUBSET ({"esc", "enter", "help", "up", "dn"} \union MapKey)}

(* Of the events a screen hears, the first in rank acts.                   *)
Acts(e, ev, heard) ==
  /\ e \in ev \intersect heard
  /\ \A f \in ev \intersect heard : Rank[e] <= Rank[f]
Quiet(ev, heard) == ev \intersect heard = {}
=============================================================================
