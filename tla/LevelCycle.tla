------------------------------ MODULE LevelCycle ------------------------------
(***************************************************************************)
(* The frame of the standalone program, seen from the cells that survive   *)
(* its reset: the menu's state machine (wall_renderer.menu_state_lines and *)
(* automap_state_lines), NEW GAME and the restart on use after death       *)
(* (restartcode), the exits (exit_lines, exitcode), and the parts of the   *)
(* world's tic that end a level or a life.  A menu frame runs no tic.      *)
(***************************************************************************)
EXTENDS MenuScreens

CONSTANT WalkExit        (* the map has a W1 exit line (52): E1M8          *)

ASSUME ExitAssumption == WalkExit \in BOOLEAN

VARIABLES
  mode,       (* 1 on a menu frame, 0 in the world                         *)
  menu_scr,   (* the screen; 0 while amap is not                           *)
  amap,       (* the map page: 1 from the world, 2 from the menu, 3 MAP    *)
  menu_sel,   (* the highlighted skill                                     *)
  g_live,     (* a game is in progress                                     *)
  halted,     (* the program jumps to itself (EXIT)                        *)
  g_skill,    (* the skill the level restarts at                           *)
  g_rs,       (* the restart request                                       *)
  lvdone,     (* the level is over                                         *)
  pusedn,     (* use was held at the last press test                       *)
  p_dead,     (* the player is dead                                        *)
  use,        (* this frame's use key                                      *)
  pc,         (* which part of the frame runs next                         *)
  fresh       (* history: a living player has been seen with use up since  *)
              (* the level start                                           *)

screen == <<mode, menu_scr, amap>>
level  == <<g_skill, g_rs, lvdone, pusedn, p_dead, fresh>>
vars   == <<mode, menu_scr, amap, menu_sel, g_live, halted, level, use, pc>>

(***************************************************************************)
(* The menu's state machine, one operator per screen                       *)
(***************************************************************************)

To(m, s, a) == mode' = m /\ menu_scr' = s /\ amap' = a
Same        == UNCHANGED screen
Rest        == UNCHANGED <<menu_sel, g_live, halted, level>>

Continue  == To(0, 0, 0)                          (* mn_cont               *)
ToHelp    == To(1, HELP_MENU_SCR, 0)              (* mn_tohelp             *)
ToMap     == To(1, 0, 2)                          (* mn_tomap              *)
ToMainMap == To(1, 0, 3)                          (* to_main_map           *)

(* Slip: esc resumes whether or not a game is in progress.                 *)
EscAlways == {"esc"}

(* Esc on a main-menu item is heard only in a game.                        *)
LiveEsc == IF g_live = 1 THEN {"esc"} ELSE {}

At(s) == mode = 1 /\ amap = 0 /\ menu_scr = s

(* mn_world.                                                               *)
WorldKeys(ev) ==
  LET heard == {"esc", "enter", "help"} \union MapKey IN
  /\ mode = 0
  /\ \/ /\ Acts("esc", ev, heard) \/ Acts("enter", ev, heard)
        /\ To(1, IF g_live = 1 THEN MAIN_RESUME_SCR ELSE 0, amap)
     \/ Acts("help", ev, heard) /\ To(1, HELP_GAME_SCR, amap)
     \/ Acts("map", ev, heard) /\ To(1, menu_scr, 1)
     \/ Quiet(ev, heard) /\ Same
  /\ Rest

(* mn_apg.                                                                 *)
MapKeys(ev) ==
  LET heard == {"esc", "map"} IN
  /\ mode = 1 /\ amap \in {1, 2}
  /\ \/ ~Quiet(ev, heard) /\ amap = 1 /\ To(0, menu_scr, 0)
     \/ ~Quiet(ev, heard) /\ amap = 2 /\ To(1, menu_scr, 3)
     \/ Quiet(ev, heard) /\ Same
  /\ Rest

(* mn_mainm.                                                               *)
MainOnMap(ev) ==
  LET heard == LiveEsc \union {"enter", "help", "map", "up", "dn"} IN
  /\ mode = 1 /\ amap = 3
  /\ \/ Acts("esc", ev, heard) /\ Continue
     \/ (Acts("enter", ev, heard) \/ Acts("map", ev, heard)) /\ ToMap
     \/ Acts("help", ev, heard) /\ ToHelp
     \/ Acts("up", ev, heard) /\ To(1, MAIN_HELP_SCR, 0)
     \/ Acts("dn", ev, heard) /\ To(1, MAIN_EXIT_SCR, 0)
     \/ Quiet(ev, heard) /\ Same
  /\ Rest

(* mn_main: NEW GAME highlighted.                                          *)
MainOnNew(ev) ==
  LET heard == LiveEsc \union {"enter", "help", "dn"} \union MapKey
                 \union (IF g_live = 1 THEN {"up"} ELSE {}) IN
  /\ At(MAIN_NEW_SCR)
  /\ \/ Acts("esc", ev, heard) /\ Continue
     \/ Acts("enter", ev, heard) /\ To(1, SKILL_SCR, amap)
     \/ Acts("help", ev, heard) /\ ToHelp
     \/ Acts("map", ev, heard) /\ ToMap
     \/ Acts("up", ev, heard) /\ To(1, MAIN_RESUME_SCR, amap)
     \/ Acts("dn", ev, heard) /\ To(1, MAIN_HELP_SCR, amap)
     \/ Quiet(ev, heard) /\ Same
  /\ Rest

(* mn_mainh.                                                               *)
MainOnHelp(ev) ==
  LET heard == LiveEsc \union {"enter", "help", "up", "dn"} \union MapKey IN
  /\ At(MAIN_HELP_SCR)
  /\ \/ Acts("esc", ev, heard) /\ Continue
     \/ (Acts("enter", ev, heard) \/ Acts("help", ev, heard)) /\ ToHelp
     \/ Acts("map", ev, heard) /\ ToMap
     \/ Acts("up", ev, heard) /\ To(1, MAIN_NEW_SCR, amap)
     \/ Acts("dn", ev, heard) /\ IF MapPage THEN ToMainMap ELSE To(1, MAIN_EXIT_SCR, amap)
     \/ Quiet(ev, heard) /\ Same
  /\ Rest

(* mn_mainx: enter halts the program, on this frame.                       *)
MainOnExit(ev) ==
  LET heard == LiveEsc \union {"enter", "help", "up"} \union MapKey IN
  /\ At(MAIN_EXIT_SCR)
  /\ \/ Acts("esc", ev, heard) /\ Continue
     \/ Acts("enter", ev, heard) /\ Same
     \/ Acts("help", ev, heard) /\ ToHelp
     \/ Acts("map", ev, heard) /\ ToMap
     \/ Acts("up", ev, heard) /\ IF MapPage THEN ToMainMap ELSE To(1, MAIN_HELP_SCR, amap)
     \/ Quiet(ev, heard) /\ Same
  /\ halted' = IF Acts("enter", ev, heard) THEN 1 ELSE 0
  /\ UNCHANGED <<menu_sel, g_live, level>>

(* mn_mainr.                                                               *)
MainOnResume(ev) ==
  LET heard == {"esc", "enter", "help", "dn"} \union MapKey IN
  /\ At(MAIN_RESUME_SCR)
  /\ \/ (Acts("esc", ev, heard) \/ Acts("enter", ev, heard)) /\ Continue
     \/ Acts("help", ev, heard) /\ ToHelp
     \/ Acts("map", ev, heard) /\ ToMap
     \/ Acts("dn", ev, heard) /\ To(1, MAIN_NEW_SCR, amap)
     \/ Quiet(ev, heard) /\ Same
  /\ Rest

(* mn_help.                                                                *)
HelpKeys(ev) ==
  /\ At(HELP_MENU_SCR) \/ At(HELP_GAME_SCR)
  /\ \/ /\ ~Quiet(ev, {"esc", "help"})
        /\ IF menu_scr = HELP_GAME_SCR THEN Continue ELSE To(1, MAIN_HELP_SCR, amap)
     \/ Quiet(ev, {"esc", "help"}) /\ Same
  /\ Rest

(* Slip: the last frame of the hold counts down too.                       *)
HoldNextPast == menu_scr - 1

(* mn_hd: LEVEL COMPLETE's hold counts down, whatever is pressed.          *)
HoldNext == IF menu_scr = LEVEL_DONE_HOLD_LAST THEN LEVEL_DONE_SCR ELSE menu_scr - 1
Hold ==
  /\ mode = 1 /\ amap = 0 /\ menu_scr \in HoldScreens
  /\ To(1, HoldNext, amap)
  /\ Rest

(* Slip: the game is not over when LEVEL COMPLETE is left.                 *)
LiveAfterKept == g_live

(* mn_lv: any key, the main menu as at boot.                               *)
LiveAfter == 0
LevelDone(ev) ==
  /\ At(LEVEL_DONE_SCR)
  /\ IF "any" \in ev
     THEN To(1, MAIN_NEW_SCR, amap) /\ g_live' = LiveAfter
     ELSE Same /\ UNCHANGED g_live
  /\ UNCHANGED <<menu_sel, halted, level>>

(* Slip: a use key held over the level start presses at once.              *)
StartUsed0 == 0

(* restart_common, pusedn: "use held last tic" at the level start.         *)
StartUsed == 1

(* restart_common: every level cell to the level start; g_skill is kept.   *)
LevelStart ==
  /\ g_rs' = 0 /\ lvdone' = 0 /\ pusedn' = StartUsed /\ p_dead' = 0 /\ fresh' = FALSE

SelDown == IF menu_sel = NSkills - 1 THEN menu_sel ELSE menu_sel + 1

(* mn_start: NEW GAME at the highlighted skill, the restart on this frame. *)
SkillKeys(ev) ==
  LET heard == {"esc", "enter", "up", "dn"} IN
  /\ At(SKILL_SCR)
  /\ \/ Acts("esc", ev, heard) /\ To(1, MAIN_NEW_SCR, amap) /\ Rest
     \/ /\ Acts("enter", ev, heard)
        /\ To(0, 0, amap) /\ g_live' = 1
        /\ g_skill' = menu_sel /\ LevelStart
        /\ UNCHANGED <<menu_sel, halted>>
     \/ /\ Acts("up", ev, heard) /\ Same
        /\ menu_sel' = IF menu_sel = 0 THEN 0 ELSE menu_sel - 1
        /\ UNCHANGED <<g_live, halted, level>>
     \/ /\ Acts("dn", ev, heard) /\ Same
        /\ menu_sel' = SelDown
        /\ UNCHANGED <<g_live, halted, level>>
     \/ Quiet(ev, heard) /\ Same /\ Rest

MenuLines(ev) ==
  \/ WorldKeys(ev) \/ MapKeys(ev) \/ MainOnMap(ev) \/ MainOnNew(ev)
  \/ MainOnHelp(ev) \/ MainOnExit(ev) \/ MainOnResume(ev) \/ HelpKeys(ev)
  \/ Hold \/ LevelDone(ev) \/ SkillKeys(ev)

(***************************************************************************)
(* The frame                                                               *)
(***************************************************************************)

Init ==
  /\ mode = 1 /\ menu_scr = 0 /\ amap = 0 /\ menu_sel = BootSel /\ g_live = 0
  /\ halted = 0 /\ g_skill = BootSkill /\ g_rs = 0 /\ lvdone = 0 /\ pusedn = 1
  /\ p_dead = 0 /\ fresh = FALSE /\ use = FALSE /\ pc = "menu"

(* The polls and the menu; a frame still in the menu ends here.            *)
MenuFrame ==
  /\ pc = "menu" /\ halted = 0
  /\ \E ev \in Polls : MenuLines(ev)
  /\ \/ mode' = 1 /\ pc' = "menu" /\ use' = FALSE
     \/ mode' = 0 /\ pc' = "restart" /\ use' \in BOOLEAN

(* mn_exit: a jump to itself.                                              *)
Halted == halted = 1 /\ UNCHANGED vars

(* restartcode.tic_lines, then the frozen-level guard.                     *)
RestartTic ==
  /\ pc = "restart"
  /\ \/ g_rs = 1 /\ LevelStart /\ UNCHANGED g_skill
     \/ g_rs = 0 /\ UNCHANGED level
  /\ pc' = IF lvdone' = 1 THEN "menu" ELSE "use"
  /\ UNCHANGED <<screen, menu_sel, g_live, halted, use>>

(* Slip: the level ends, and its menu does not open.                       *)
OpenLevelDoneNot == UNCHANGED <<mode, menu_scr>>

OpenLevelDone == mode' = 1 /\ menu_scr' = LEVEL_DONE_ENTER

(* ex_hit / the W1 exit: the level ends and LEVEL COMPLETE opens.          *)
EndLevel == lvdone' = 1 /\ OpenLevelDone

(* exit_lines: a press in an exit box ends the level; the player who was   *)
(* dead when the tic began uses nothing, and pusedn is left alone.         *)
UseLines ==
  /\ pc = "use"
  /\ \/ /\ p_dead = 0 /\ use /\ pusedn = 0
        /\ pusedn' = 1
        /\ EndLevel \/ UNCHANGED <<lvdone, mode, menu_scr>>
        /\ UNCHANGED fresh
     \/ /\ p_dead = 0 /\ use /\ pusedn = 1
        /\ UNCHANGED <<pusedn, fresh, lvdone, mode, menu_scr>>
     \/ /\ p_dead = 0 /\ ~use
        /\ pusedn' = 0 /\ fresh' = TRUE
        /\ UNCHANGED <<lvdone, mode, menu_scr>>
     \/ /\ p_dead = 1
        /\ UNCHANGED <<pusedn, fresh, lvdone, mode, menu_scr>>
  /\ pc' = IF p_dead = 1 THEN "dead" ELSE "player"
  /\ UNCHANGED <<amap, menu_sel, g_live, halted, g_skill, g_rs, p_dead, use>>

(* The walk or a knock crosses the W1 exit, or nothing ends.               *)
Moves == (WalkExit /\ EndLevel) \/ UNCHANGED <<lvdone, mode, menu_scr>>

(* Nukage may kill him; then he moves all the same.                        *)
PlayerPhase ==
  /\ pc = "player"
  /\ p_dead' \in {0, 1}
  /\ Moves
  /\ pc' = "monsters"
  /\ UNCHANGED <<amap, menu_sel, g_live, halted, g_skill, g_rs, pusedn, fresh, use>>

(* The death think: use, held, asks for the restart; the corpse slides.    *)
DeadPhase ==
  /\ pc = "dead"
  /\ g_rs' = IF use THEN 1 ELSE g_rs
  /\ Moves
  /\ pc' = "monsters"
  /\ UNCHANGED <<amap, menu_sel, g_live, halted, g_skill, p_dead, pusedn, fresh, use>>

(* The monsters' world may kill the player; it skips itself when the level *)
(* is over.                                                                *)
MonsterWorld ==
  /\ pc = "monsters"
  /\ p_dead' \in IF lvdone = 1 THEN {p_dead} ELSE {p_dead, 1}
  /\ pc' = "menu" /\ use' = FALSE
  /\ UNCHANGED <<screen, menu_sel, g_live, halted, g_skill, g_rs, lvdone, pusedn, fresh>>

Next ==
  MenuFrame \/ Halted \/ RestartTic \/ UseLines \/ PlayerPhase \/ DeadPhase \/ MonsterWorld

(* The frame loop never stops.                                             *)
Spec == Init /\ [][Next]_vars /\ WF_vars(Next)

(***************************************************************************)
(* Properties                                                              *)
(***************************************************************************)

(* Every cell keeps its range; at most one of menu_scr and amap is set     *)
(* (program_cells), and in the world neither is.                           *)
TypeOK ==
  /\ mode \in {0, 1} /\ menu_scr \in 0 .. 15 /\ amap \in 0 .. 3
  /\ menu_sel \in 0 .. NSkills - 1 /\ g_skill \in 0 .. NSkills - 1
  /\ g_live \in {0, 1} /\ halted \in {0, 1} /\ g_rs \in {0, 1}
  /\ lvdone \in {0, 1} /\ pusedn \in {0, 1} /\ p_dead \in {0, 1}
  /\ use \in BOOLEAN /\ fresh \in BOOLEAN
  /\ pc \in {"menu", "restart", "use", "player", "dead", "monsters"}
  /\ amap # 0 => MapPage /\ menu_scr = 0
  /\ mode = 0 => menu_scr = 0 /\ amap = 0

(* The world is entered only with a game in progress and a level not over: *)
(* no path through the screens (RESUME, esc, a page opened from the world) *)
(* leads back into a finished level or into the boot's.                    *)
WorldIsLive == mode = 0 => g_live = 1 /\ lvdone = 0

(* A finished level stays finished until NEW GAME: a restart asked on the  *)
(* same tic (use held, the corpse sliding over the W1 exit) does not undo  *)
(* it, although World.tic alone would run it.                              *)
FinishedStaysFinished == [][lvdone = 1 /\ lvdone' = 0 => pc = "menu"]_vars

(* G_PlayerReborn's rule: a use key held over a level start presses        *)
(* nothing.  A press is possible only after a living player of this level  *)
(* was seen with use released.                                             *)
NoCarriedPress == pusedn = 0 => fresh

(* LEVEL COMPLETE's hold ends: the screen comes to take a key.             *)
HoldEnds == menu_scr \in HoldScreens ~> menu_scr = LEVEL_DONE_SCR

(* The emitted state machine, with its two nibbles and its jumps, is the   *)
(* menu of the oracle, and the level plays at the skill it chose.          *)
Scr ==
  IF halted = 1 THEN MENU_HALTED ELSE IF amap # 0 THEN LEVEL_DONE_ENTER + amap ELSE menu_scr
Oracle == INSTANCE MenuRules WITH
  scr <- Scr, sel <- menu_sel, live <- g_live, skill <- g_skill
ImplementsMenu == Oracle!Spec
=============================================================================
