------------------------------ MODULE MenuRules ------------------------------
(***************************************************************************)
(* What the menu promises (doomfj.menu.menu_step, the oracle every gate    *)
(* steps beside the program): screens that open and close, a main menu     *)
(* whose items form a column, a game in progress that RESUME alone goes    *)
(* back to, and LEVEL COMPLETE, which ends it.  LevelCycle implements it.  *)
(***************************************************************************)
EXTENDS MenuScreens

VARIABLES
  mode,    (* 1 on a menu frame, 0 in the world                            *)
  scr,     (* the screen                                                   *)
  sel,     (* the highlighted skill                                        *)
  live,    (* is a game in progress                                        *)
  skill    (* the skill of the last NEW GAME                               *)

menu == <<mode, scr, sel, live, skill>>

MainScreens ==
  {MAIN_NEW_SCR, MAIN_HELP_SCR, MAIN_EXIT_SCR}
    \union (IF MapPage THEN {MAIN_MAP_SCR} ELSE {})
    \union (IF live = 1 THEN {MAIN_RESUME_SCR} ELSE {})

(* Each item and the one under it.                                         *)
Rows ==
  {<<MAIN_RESUME_SCR, MAIN_NEW_SCR>>, <<MAIN_NEW_SCR, MAIN_HELP_SCR>>}
    \union (IF MapPage THEN {<<MAIN_HELP_SCR, MAIN_MAP_SCR>>, <<MAIN_MAP_SCR, MAIN_EXIT_SCR>>}
            ELSE {<<MAIN_HELP_SCR, MAIN_EXIT_SCR>>})

Neighbours == {r \in Rows : r[1] \in MainScreens /\ r[2] \in MainScreens}

Show(s)  == mode' = 1 /\ scr' = s /\ UNCHANGED <<sel, live, skill>>
ToWorld  == mode' = 0 /\ scr' = 0 /\ UNCHANGED <<sel, live, skill>>
NoChange == UNCHANGED menu

(* What enter does on each item.                                           *)
Chosen ==
  \/ scr = MAIN_NEW_SCR    /\ Show(SKILL_SCR)
  \/ scr = MAIN_RESUME_SCR /\ ToWorld
  \/ scr = MAIN_HELP_SCR   /\ Show(HELP_MENU_SCR)
  \/ scr = MAIN_MAP_SCR    /\ Show(MAP_MENU_SCR)
  \/ scr = MAIN_EXIT_SCR   /\ Show(MENU_HALTED)

(* Esc resumes a game in progress; without one no item hears it.           *)
MainHears ==
  {"enter", "help"} \union MapKey
    \union (IF live = 1 THEN {"esc"} ELSE {})
    \union (IF \E r \in Neighbours : r[2] = scr THEN {"up"} ELSE {})
    \union (IF \E r \in Neighbours : r[1] = scr THEN {"dn"} ELSE {})

Main(ev) ==
  /\ mode = 1 /\ scr \in MainScreens
  /\ \/ Acts("esc", ev, MainHears) /\ ToWorld
     \/ Acts("enter", ev, MainHears) /\ Chosen
     \/ Acts("help", ev, MainHears) /\ Show(HELP_MENU_SCR)
     \/ Acts("map", ev, MainHears) /\ Show(MAP_MENU_SCR)
     \/ Acts("up", ev, MainHears) /\ \E r \in Neighbours : r[2] = scr /\ Show(r[1])
     \/ Acts("dn", ev, MainHears) /\ \E r \in Neighbours : r[1] = scr /\ Show(r[2])
     \/ Quiet(ev, MainHears) /\ NoChange

(* The help and the map page close to where they were opened from.         *)
PageHears == IF scr \in {HELP_MENU_SCR, HELP_GAME_SCR} THEN {"esc", "help"}
             ELSE {"esc"} \union MapKey
Page(ev) ==
  /\ mode = 1
  /\ \/ scr = HELP_MENU_SCR /\ ~Quiet(ev, PageHears) /\ Show(MAIN_HELP_SCR)
     \/ scr = MAP_MENU_SCR /\ ~Quiet(ev, PageHears) /\ Show(MAIN_MAP_SCR)
     \/ scr \in {HELP_GAME_SCR, MAP_GAME_SCR} /\ ~Quiet(ev, PageHears) /\ ToWorld
     \/ /\ scr \in {HELP_MENU_SCR, HELP_GAME_SCR, MAP_MENU_SCR, MAP_GAME_SCR}
        /\ Quiet(ev, PageHears) /\ NoChange

SkillHears == {"esc", "enter", "up", "dn"}
Skill(ev) ==
  /\ mode = 1 /\ scr = SKILL_SCR
  /\ \/ Acts("esc", ev, SkillHears) /\ Show(MAIN_NEW_SCR)
     \/ /\ Acts("enter", ev, SkillHears)
        /\ mode' = 0 /\ scr' = 0 /\ skill' = sel /\ live' = 1 /\ UNCHANGED sel
     \/ /\ Acts("up", ev, SkillHears)
        /\ sel' = IF sel = 0 THEN 0 ELSE sel - 1
        /\ UNCHANGED <<mode, scr, live, skill>>
     \/ /\ Acts("dn", ev, SkillHears)
        /\ sel' = IF sel = NSkills - 1 THEN sel ELSE sel + 1
        /\ UNCHANGED <<mode, scr, live, skill>>
     \/ Quiet(ev, SkillHears) /\ NoChange

Hold ==
  /\ mode = 1 /\ scr \in HoldScreens
  /\ Show(IF scr = LEVEL_DONE_HOLD_LAST THEN LEVEL_DONE_SCR ELSE scr - 1)

Done(ev) ==
  /\ mode = 1 /\ scr = LEVEL_DONE_SCR
  /\ IF "any" \in ev
     THEN mode' = 1 /\ scr' = MAIN_NEW_SCR /\ live' = 0 /\ UNCHANGED <<sel, skill>>
     ELSE NoChange

WorldHears == {"esc", "enter", "help"} \union MapKey
InWorld(ev) ==
  /\ mode = 0
  /\ \/ Acts("esc", ev, WorldHears) /\ Show(IF live = 1 THEN MAIN_RESUME_SCR ELSE MAIN_NEW_SCR)
     \/ Acts("enter", ev, WorldHears) /\ Show(IF live = 1 THEN MAIN_RESUME_SCR ELSE MAIN_NEW_SCR)
     \/ Acts("help", ev, WorldHears) /\ Show(HELP_GAME_SCR)
     \/ Acts("map", ev, WorldHears) /\ Show(MAP_GAME_SCR)
     \/ Quiet(ev, WorldHears) /\ NoChange

Init == mode = 1 /\ scr = MAIN_NEW_SCR /\ sel = BootSel /\ live = 0 /\ skill = BootSkill

Frame == \E ev \in Polls : Main(ev) \/ Page(ev) \/ Skill(ev) \/ Hold \/ Done(ev) \/ InWorld(ev)

(* The world's own: an exit is used.                                       *)
LevelEnds == mode = 0 /\ Show(LEVEL_DONE_ENTER)

Next == Frame \/ LevelEnds

Spec == Init /\ [][Next]_menu
=============================================================================
