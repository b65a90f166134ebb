-------------------------- MODULE LevelCycle_proofs --------------------------
(***************************************************************************)
(* The proofs of LevelCycle's safety properties, for any number of skills, *)
(* with and without the map page and the W1 exit.                          *)
(***************************************************************************)
EXTENDS LevelCycle, TLAPS

(* LEVEL COMPLETE, in its hold or taking a key.                            *)
DoneScreens == HoldScreens \union {LEVEL_DONE_SCR}

(***************************************************************************)
(* The inductive invariant.  ScreenInv says which cells can be set         *)
(* together; LifeInv why no screen leads back into a level that is over: a *)
(* finished level is on LEVEL COMPLETE, or its game is no longer live, and *)
(* without a game no screen returns to the world.                          *)
(***************************************************************************)
ScreenInv ==
  /\ pc \in {"restart", "use"} => mode = 0
  /\ pc # "menu" => amap = 0 /\ halted = 0
  /\ pc # "menu" /\ mode = 1 => menu_scr = LEVEL_DONE_ENTER /\ lvdone = 1
  /\ halted = 1 => mode = 1 /\ amap = 0 /\ menu_scr = MAIN_EXIT_SCR

LifeInv ==
  /\ WorldIsLive
  /\ lvdone = 1 => menu_scr \in DoneScreens \/ g_live = 0
  /\ g_live = 0 => menu_scr \notin {MAIN_RESUME_SCR, HELP_GAME_SCR} /\ amap # 1

(* The numbers of TypeOK, and apart from them (for the provers) its        *)
(* Booleans, with the history they are there for.                          *)
CellsInv ==
  /\ mode \in {0, 1} /\ menu_scr \in 0 .. 15 /\ amap \in 0 .. 3
  /\ menu_sel \in 0 .. NSkills - 1 /\ g_skill \in 0 .. NSkills - 1
  /\ g_live \in {0, 1} /\ halted \in {0, 1} /\ g_rs \in {0, 1}
  /\ lvdone \in {0, 1} /\ pusedn \in {0, 1} /\ p_dead \in {0, 1}
  /\ pc \in {"menu", "restart", "use", "player", "dead", "monsters"}
  /\ amap # 0 => MapPage /\ menu_scr = 0
  /\ mode = 0 => menu_scr = 0 /\ amap = 0

CycleInv == CellsInv /\ ScreenInv /\ LifeInv
PressInv == use \in BOOLEAN /\ fresh \in BOOLEAN /\ NoCarriedPress

IInv == CycleInv /\ PressInv

USE DEF MAIN_NEW_SCR, MAIN_HELP_SCR, MAIN_EXIT_SCR, MAIN_RESUME_SCR, MAIN_MAP_SCR, SKILL_SCR,
        HELP_MENU_SCR, HELP_GAME_SCR, MAP_GAME_SCR, MAP_MENU_SCR, MENU_HALTED, LEVEL_DONE_SCR,
        LEVEL_DONE_ENTER, LEVEL_DONE_HOLD_LAST, HoldScreens, DoneScreens, BootSel, BootSkill

(* The boot state.                                                         *)
THEOREM InitIInv == Init => IInv
<1> SUFFICES ASSUME Init PROVE IInv
    OBVIOUS
<1>1. CellsInv
      BY MenuAssumption DEF Init, CellsInv
<1>2. ScreenInv /\ LifeInv
      BY DEF Init, ScreenInv, LifeInv, WorldIsLive
<1>3. pusedn # 0
      BY DEF Init
<1>4. PressInv
      BY <1>3 DEF Init, PressInv, NoCarriedPress
<1> QED BY <1>1, <1>2, <1>4 DEF IInv, CycleInv

(* A menu frame: the state machine keeps the invariant on every screen.    *)
LEMMA MenuFrameStep == CycleInv /\ MenuFrame => CycleInv'
<1> SUFFICES ASSUME CycleInv, MenuFrame PROVE CycleInv'
    OBVIOUS
<1> USE MenuAssumption DEF CycleInv, CellsInv, ScreenInv, LifeInv, WorldIsLive
<1>1. PICK ev \in Polls : MenuLines(ev)
      BY DEF MenuFrame
<1>2. pc = "menu" /\ halted = 0
      BY DEF MenuFrame
<1>3. (mode' = 1 /\ pc' = "menu") \/ (mode' = 0 /\ pc' = "restart")
      BY DEF MenuFrame
<1>4. CASE WorldKeys(ev)
      BY <1>2, <1>3, <1>4 DEF WorldKeys, To, Same, Rest, screen, level, MapKey, Acts
<1>5. CASE MapKeys(ev)
      BY <1>2, <1>3, <1>5 DEF MapKeys, To, Same, Rest, screen, level
<1>6. CASE MainOnMap(ev)
      BY <1>2, <1>3, <1>6
      DEF MainOnMap, LiveEsc, To, Same, Rest, screen, level, Continue, ToMap, ToHelp, Acts
<1>7. CASE MainOnNew(ev)
      BY <1>2, <1>3, <1>7
      DEF MainOnNew, At, LiveEsc, To, Same, Rest, screen, level, Continue, ToMap, ToHelp, Acts, MapKey
<1>8. CASE MainOnHelp(ev)
      BY <1>2, <1>3, <1>8
      DEF MainOnHelp, At, LiveEsc, To, Same, Rest, screen, level, Continue, ToMap, ToMainMap, ToHelp,
          Acts, MapKey
<1>9. CASE MainOnExit(ev)
      BY <1>2, <1>3, <1>9
      DEF MainOnExit, At, LiveEsc, To, Same, screen, level, Continue, ToMap, ToMainMap, ToHelp,
          Acts, MapKey, Quiet, Rank
<1>10. CASE MainOnResume(ev)
      BY <1>2, <1>3, <1>10
      DEF MainOnResume, At, To, Same, Rest, screen, level, Continue, ToMap, ToHelp, Acts, MapKey
<1>11. CASE HelpKeys(ev)
      BY <1>2, <1>3, <1>11
      DEF HelpKeys, At, To, Same, Rest, screen, level, Continue
<1>12. CASE Hold
      BY <1>2, <1>3, <1>12 DEF Hold, HoldNext, To, Rest, level
<1>13. CASE LevelDone(ev)
      BY <1>2, <1>3, <1>13 DEF LevelDone, At, To, Same, LiveAfter, screen, level
<1>14. CASE SkillKeys(ev)
      BY <1>2, <1>3, <1>14
      DEF SkillKeys, At, To, Same, Rest, screen, level, LevelStart, StartUsed, SelDown
<1> QED
    BY <1>1, <1>4, <1>5, <1>6, <1>7, <1>8, <1>9, <1>10, <1>11, <1>12, <1>13, <1>14 DEF MenuLines

(* The world's frame: the level that ends is on LEVEL COMPLETE at once.    *)
LEMMA WorldStep ==
  CycleInv /\ (RestartTic \/ UseLines \/ PlayerPhase \/ DeadPhase \/ MonsterWorld) => CycleInv'
<1> USE MenuAssumption DEF CycleInv, CellsInv, ScreenInv, LifeInv, WorldIsLive
<1>1. ASSUME CycleInv, RestartTic PROVE CycleInv'
      BY <1>1 DEF RestartTic, LevelStart, StartUsed, screen, level
<1>2. ASSUME CycleInv, UseLines PROVE CycleInv'
      BY <1>2 DEF UseLines, EndLevel, OpenLevelDone
<1>3. ASSUME CycleInv, PlayerPhase PROVE CycleInv'
      BY <1>3 DEF PlayerPhase, Moves, EndLevel, OpenLevelDone
<1>4. ASSUME CycleInv, DeadPhase PROVE CycleInv'
      BY <1>4 DEF DeadPhase, Moves, EndLevel, OpenLevelDone
<1>5. ASSUME CycleInv, MonsterWorld PROVE CycleInv'
      BY <1>5 DEF MonsterWorld, screen
<1> QED BY <1>1, <1>2, <1>3, <1>4, <1>5

(* A press needs a use key seen released: only the use lines clear pusedn. *)
LEMMA PressStep == PressInv /\ Next => PressInv'
<1> USE DEF PressInv, NoCarriedPress
<1>1. ASSUME PressInv, MenuFrame PROVE PressInv'
  <2>1. PICK ev \in Polls : MenuLines(ev)
        BY <1>1 DEF MenuFrame
  <2>2. use' \in BOOLEAN
        BY <1>1 DEF MenuFrame
  <2>3. CASE UNCHANGED <<fresh, pusedn>>
        BY <1>1, <2>2, <2>3
  <2>4. CASE pusedn' = StartUsed /\ fresh' = FALSE
    <3>1. pusedn' # 0
          BY <2>4 DEF StartUsed
    <3> QED BY <2>2, <2>4, <3>1
  <2>5. UNCHANGED level \/ (pusedn' = StartUsed /\ fresh' = FALSE)
    <3>1. CASE SkillKeys(ev)
          BY <3>1 DEF SkillKeys, Rest, LevelStart, level
    <3>2. CASE WorldKeys(ev) \/ MapKeys(ev) \/ MainOnMap(ev) \/ MainOnNew(ev)
          BY <3>2 DEF WorldKeys, MapKeys, MainOnMap, MainOnNew, Rest, level
    <3>3. CASE MainOnHelp(ev) \/ MainOnExit(ev) \/ MainOnResume(ev)
          BY <3>3 DEF MainOnHelp, MainOnExit, MainOnResume, Rest, level
    <3>4. CASE HelpKeys(ev) \/ Hold \/ LevelDone(ev)
          BY <3>4 DEF HelpKeys, Hold, LevelDone, Rest, level
    <3> QED BY <2>1, <3>1, <3>2, <3>3, <3>4 DEF MenuLines
  <2> QED BY <2>3, <2>4, <2>5 DEF level
<1>2. ASSUME PressInv, RestartTic PROVE PressInv'
  <2>1. pusedn' = 1 => pusedn' # 0
        OBVIOUS
  <2> QED BY <1>2, <2>1 DEF RestartTic, LevelStart, StartUsed, level
<1>3. ASSUME PressInv, UseLines PROVE PressInv'
  <2>1. pusedn' = 1 => pusedn' # 0
        OBVIOUS
  <2> QED BY <1>3, <2>1 DEF UseLines
<1>4. ASSUME PressInv, PlayerPhase \/ DeadPhase \/ MonsterWorld \/ Halted PROVE PressInv'
      BY <1>4 DEF PlayerPhase, DeadPhase, MonsterWorld, Halted, vars, level
<1> QED BY <1>1, <1>2, <1>3, <1>4 DEF Next

(* Every step of the program keeps the invariant.                          *)
THEOREM StepIInv == IInv /\ [Next]_vars => IInv'
<1>1. ASSUME CycleInv, Halted \/ UNCHANGED vars PROVE CycleInv'
      BY <1>1 DEF Halted, vars, level, CycleInv, CellsInv, ScreenInv, LifeInv, WorldIsLive
<1>2. ASSUME PressInv, UNCHANGED vars PROVE PressInv'
      BY <1>2 DEF vars, level, PressInv, NoCarriedPress
<1> QED BY <1>1, <1>2, PressStep, MenuFrameStep, WorldStep DEF Next, IInv

(* The invariant holds always.                                             *)
THEOREM SpecIInv == Spec => []IInv
BY InitIInv, StepIInv, PTL DEF Spec

(* Every cell keeps its range, with any number of skills, with and without *)
(* the map page and the W1 exit.                                           *)
THEOREM SpecTypeOK == Spec => []TypeOK
<1>1. IInv => TypeOK
      BY DEF IInv, CycleInv, CellsInv, PressInv, TypeOK
<1> QED BY <1>1, SpecIInv, PTL

(* The world is entered only in a live game whose level is not over.       *)
THEOREM SpecWorldIsLive == Spec => []WorldIsLive
<1>1. IInv => WorldIsLive
      BY DEF IInv, CycleInv, LifeInv
<1> QED BY <1>1, SpecIInv, PTL

(* No press without a use key seen released in this level.                 *)
THEOREM SpecNoCarriedPress == Spec => []NoCarriedPress
<1>1. IInv => NoCarriedPress
      BY DEF IInv, PressInv
<1> QED BY <1>1, SpecIInv, PTL

(* Only the menu's NEW GAME leaves a finished level: the restart on use    *)
(* after death cannot run in one, for the world of one never runs.         *)
THEOREM SpecFinishedStaysFinished == Spec => FinishedStaysFinished
<1>1. CycleInv /\ Next => (lvdone = 1 /\ lvdone' = 0 => pc = "menu")
  <2>1. ASSUME CycleInv, RestartTic PROVE lvdone = 1 /\ lvdone' = 0 => pc = "menu"
        BY <2>1 DEF CycleInv, ScreenInv, LifeInv, WorldIsLive, RestartTic
  <2>2. ASSUME UseLines \/ PlayerPhase \/ DeadPhase \/ MonsterWorld \/ Halted \/ MenuFrame
        PROVE lvdone = 1 /\ lvdone' = 0 => pc = "menu"
        BY <2>2 DEF UseLines, PlayerPhase, DeadPhase, MonsterWorld, Halted, MenuFrame, Moves, EndLevel,
          vars, level
  <2> QED BY <2>1, <2>2 DEF Next
<1>2. CycleInv /\ [Next]_vars => [lvdone = 1 /\ lvdone' = 0 => pc = "menu"]_vars
      BY <1>1
<1>3. IInv => CycleInv
      BY DEF IInv
<1> QED BY <1>2, <1>3, SpecIInv, PTL DEF Spec, FinishedStaysFinished

(***************************************************************************)
(* The refinement: every frame is one frame of the oracle's menu           *)
(***************************************************************************)

(* The two modules read the same keys in the same order.                   *)
LEMMA SameKeys ==
  /\ Oracle!Polls = Polls /\ Oracle!MapKey = MapKey
  /\ \A e, ev, heard : Oracle!Acts(e, ev, heard) = Acts(e, ev, heard)
  /\ \A ev, heard : Oracle!Quiet(ev, heard) = Quiet(ev, heard)
BY DEF Oracle!Polls, Polls, Oracle!MapKey, MapKey, Oracle!Acts, Acts, Oracle!Quiet, Quiet,
       Oracle!Rank, Rank

USE DEF Oracle!MAIN_NEW_SCR, Oracle!MAIN_HELP_SCR, Oracle!MAIN_EXIT_SCR, Oracle!MAIN_RESUME_SCR,
        Oracle!MAIN_MAP_SCR, Oracle!SKILL_SCR, Oracle!HELP_MENU_SCR, Oracle!HELP_GAME_SCR,
        Oracle!MAP_GAME_SCR, Oracle!MAP_MENU_SCR, Oracle!MENU_HALTED, Oracle!LEVEL_DONE_SCR,
        Oracle!LEVEL_DONE_ENTER, Oracle!LEVEL_DONE_HOLD_LAST, Oracle!HoldScreens, Oracle!BootSel,
        Oracle!BootSkill

(* Who is over and under whom in the column of items.                      *)
LEMMA Column ==
  \A s, t :
    <<s, t>> \in Oracle!Neighbours
      <=> \/ g_live = 1 /\ s = 7 /\ t = 0
          \/ s = 0 /\ t = 5
          \/ MapPage /\ s = 5 /\ t = 18
          \/ MapPage /\ s = 18 /\ t = 6
          \/ ~MapPage /\ s = 5 /\ t = 6
BY MenuAssumption DEF Oracle!Neighbours, Oracle!Rows, Oracle!MainScreens

(* A row is the pair of its two items.                                     *)
LEMMA NeighboursAreRows ==
  \A r \in Oracle!Neighbours : r = <<r[1], r[2]>>
BY DEF Oracle!Neighbours, Oracle!Rows

(* A screen of the program is a screen of the oracle.                      *)
LEMMA ScrOf ==
  ASSUME halted = 0 PROVE Scr = IF amap # 0 THEN 15 + amap ELSE menu_scr
BY DEF Scr

(* The same, of the next frame's screen.                                   *)
LEMMA ScrOfNext ==
  ASSUME halted' = 0 PROVE Scr' = IF amap' # 0 THEN 15 + amap' ELSE menu_scr'
BY DEF Scr

(* At the boot the menu is the oracle's.                                   *)
LEMMA InitMenu == Init => Oracle!Init
BY DEF Init, Oracle!Init, Scr

(* The world opens the menu, the help and the map as the oracle does.      *)
LEMMA WorldKeysMenu ==
  ASSUME NEW ev \in Polls, CycleInv, halted = 0, pc = "menu", WorldKeys(ev)
  PROVE  Oracle!InWorld(ev)
<1>1. mode = 0 /\ menu_scr = 0 /\ amap = 0 /\ halted' = 0 /\ UNCHANGED <<menu_sel, g_live, g_skill>>
      BY DEF WorldKeys, Rest, level, CycleInv, CellsInv
<1>2. Scr = 0 /\ Scr' = IF amap' # 0 THEN 15 + amap' ELSE menu_scr'
      BY <1>1, ScrOf, ScrOfNext
<1> QED
    BY <1>1, <1>2, SameKeys
    DEF WorldKeys, Oracle!InWorld, Oracle!WorldHears, Oracle!Show, Oracle!NoChange, Oracle!menu, To, Same, screen

(* The oracle's main menu hears what the program's does on each item.      *)
LEMMA MainHearing ==
  ASSUME CycleInv, mode = 1
  PROVE  /\ Scr = MAIN_NEW_SCR =>
              Oracle!MainHears = LiveEsc \union {"enter", "help", "dn"} \union MapKey
                                   \union (IF g_live = 1 THEN {"up"} ELSE {})
         /\ Scr = MAIN_HELP_SCR =>
              Oracle!MainHears = LiveEsc \union {"enter", "help", "up", "dn"} \union MapKey
         /\ Scr = MAIN_EXIT_SCR =>
              Oracle!MainHears = LiveEsc \union {"enter", "help", "up"} \union MapKey
         /\ Scr = MAIN_RESUME_SCR /\ g_live = 1 =>
              Oracle!MainHears = {"esc", "enter", "help", "dn"} \union MapKey
         /\ Scr = MAIN_MAP_SCR /\ MapPage =>
              Oracle!MainHears = LiveEsc \union {"enter", "help", "map", "up", "dn"}
<1> DEFINE U == \E q : <<q, Scr>> \in Oracle!Neighbours
           D == \E q : <<Scr, q>> \in Oracle!Neighbours
           H == Oracle!MainHears
<1>1. /\ (\E r \in Oracle!Neighbours : r[2] = Scr) <=> (\E q : <<q, Scr>> \in Oracle!Neighbours)
      /\ (\E r \in Oracle!Neighbours : r[1] = Scr) <=> (\E q : <<Scr, q>> \in Oracle!Neighbours)
      BY NeighboursAreRows
<1>2. U <=> \/ g_live = 1 /\ Scr = 0
            \/ Scr = 5 \/ Scr = 6
            \/ MapPage /\ Scr = 18
      BY Column, MenuAssumption
<1>3. D <=> \/ g_live = 1 /\ Scr = 7
            \/ Scr = 0 \/ Scr = 5
            \/ MapPage /\ Scr = 18
      BY Column, MenuAssumption
<1>4. Oracle!MainHears = {"enter", "help"} \union MapKey \union LiveEsc
        \union (IF \E q : <<q, Scr>> \in Oracle!Neighbours THEN {"up"} ELSE {})
        \union (IF \E q : <<Scr, q>> \in Oracle!Neighbours THEN {"dn"} ELSE {})
      BY <1>1, SameKeys DEF Oracle!MainHears, LiveEsc
<1>4a. H = {"enter", "help"} \union MapKey \union LiveEsc
             \union (IF U THEN {"up"} ELSE {}) \union (IF D THEN {"dn"} ELSE {})
      BY <1>4
<1> HIDE DEF U, D, H
<1>5. ASSUME Scr = MAIN_NEW_SCR
      PROVE  H = LiveEsc \union {"enter", "help", "dn"} \union MapKey
                   \union (IF g_live = 1 THEN {"up"} ELSE {})
  <2>1. (U <=> g_live = 1) /\ D
        BY <1>2, <1>3, <1>5
  <2> QED BY <1>4a, <2>1
<1>6. ASSUME Scr = MAIN_HELP_SCR
      PROVE  H = LiveEsc \union {"enter", "help", "up", "dn"} \union MapKey
  <2>1. U /\ D
        BY <1>2, <1>3, <1>6
  <2> QED BY <1>4a, <2>1
<1>7. ASSUME Scr = MAIN_EXIT_SCR
      PROVE  H = LiveEsc \union {"enter", "help", "up"} \union MapKey
  <2>1. U /\ ~D
        BY <1>2, <1>3, <1>7
  <2> QED BY <1>4a, <2>1
<1>8. ASSUME Scr = MAIN_RESUME_SCR, g_live = 1
      PROVE  H = {"esc", "enter", "help", "dn"} \union MapKey
  <2>1. ~U /\ D
        BY <1>2, <1>3, <1>8
  <2> QED BY <1>4a, <1>8, <2>1 DEF LiveEsc
<1>9. ASSUME Scr = MAIN_MAP_SCR, MapPage
      PROVE  H = LiveEsc \union {"enter", "help", "map", "up", "dn"}
  <2>1. U /\ D
        BY <1>2, <1>3, <1>9
  <2> QED BY <1>4a, <1>9, <2>1 DEF MapKey
<1> QED BY <1>5, <1>6, <1>7, <1>8, <1>9 DEF H


(* A move between neighbours is one of the oracle's.                       *)
LEMMA Moved ==
  ASSUME NEW s
  PROVE  /\ <<s, Scr>> \in Oracle!Neighbours /\ Oracle!Show(s) =>
              \E r \in Oracle!Neighbours : r[2] = Scr /\ Oracle!Show(r[1])
         /\ <<Scr, s>> \in Oracle!Neighbours /\ Oracle!Show(s) =>
              \E r \in Oracle!Neighbours : r[1] = Scr /\ Oracle!Show(r[2])
<1>1. <<s, Scr>>[1] = s /\ <<s, Scr>>[2] = Scr /\ <<Scr, s>>[1] = Scr /\ <<Scr, s>>[2] = s
      OBVIOUS
<1>2. ASSUME <<s, Scr>> \in Oracle!Neighbours, Oracle!Show(s)
      PROVE  \E r \in Oracle!Neighbours : r[2] = Scr /\ Oracle!Show(r[1])
  <2> WITNESS <<s, Scr>> \in Oracle!Neighbours
  <2> QED BY <1>1, <1>2
<1>3. ASSUME <<Scr, s>> \in Oracle!Neighbours, Oracle!Show(s)
      PROVE  \E r \in Oracle!Neighbours : r[1] = Scr /\ Oracle!Show(r[2])
  <2> WITNESS <<Scr, s>> \in Oracle!Neighbours
  <2> QED BY <1>1, <1>3
<1> QED BY <1>2, <1>3

(* What every item of the main menu shares: the frame that resumes, opens  *)
(* the help or the map, moves in the column, or hears nothing.             *)
LEMMA MainFrames ==
  ASSUME NEW ev \in Polls, mode = 1, Scr \in Oracle!MainScreens,
         halted' = 0, UNCHANGED <<menu_sel, g_live, g_skill>>
  PROVE  /\ Acts("esc", ev, Oracle!MainHears) /\ Continue => Oracle!Main(ev)
         /\ Acts("enter", ev, Oracle!MainHears) /\ Oracle!Chosen => Oracle!Main(ev)
         /\ Acts("help", ev, Oracle!MainHears) /\ ToHelp => Oracle!Main(ev)
         /\ Acts("map", ev, Oracle!MainHears) /\ ToMap => Oracle!Main(ev)
         /\ \A s : /\ Acts("up", ev, Oracle!MainHears)
                   /\ <<s, Scr>> \in Oracle!Neighbours /\ Oracle!Show(s)
                   => Oracle!Main(ev)
         /\ \A s : /\ Acts("dn", ev, Oracle!MainHears)
                   /\ <<Scr, s>> \in Oracle!Neighbours /\ Oracle!Show(s)
                   => Oracle!Main(ev)
         /\ Quiet(ev, Oracle!MainHears) /\ Oracle!NoChange => Oracle!Main(ev)
<1>1. Scr' = IF amap' # 0 THEN 15 + amap' ELSE menu_scr'
      BY ScrOfNext
<1>2. Continue => Oracle!ToWorld
      BY <1>1 DEF Continue, To, Oracle!ToWorld
<1>3. ToHelp => Oracle!Show(HELP_MENU_SCR)
      BY <1>1 DEF ToHelp, To, Oracle!Show
<1>4. ToMap => Oracle!Show(MAP_MENU_SCR)
      BY <1>1 DEF ToMap, To, Oracle!Show
<1> QED BY <1>2, <1>3, <1>4, SameKeys, Moved DEF Oracle!Main

(* The main menu on NEW GAME.                                              *)
LEMMA MainOnNewMenu ==
  ASSUME NEW ev \in Polls, CycleInv, halted = 0, MainOnNew(ev)
  PROVE  Oracle!Main(ev)
<1>1. mode = 1 /\ menu_scr = 0 /\ amap = 0 /\ Scr = 0
      BY ScrOf DEF MainOnNew, At
<1>2. halted' = 0 /\ UNCHANGED <<menu_sel, g_live, g_skill>>
      BY DEF MainOnNew, Rest, level
<1>3. Scr' = IF amap' # 0 THEN 15 + amap' ELSE menu_scr'
      BY <1>2, ScrOfNext
<1>4. Oracle!MainHears = LiveEsc \union {"enter", "help", "dn"} \union MapKey
                           \union (IF g_live = 1 THEN {"up"} ELSE {})
      BY <1>1, MainHearing
<1>5. Scr \in Oracle!MainScreens
      BY <1>1 DEF Oracle!MainScreens
<1>6. To(1, SKILL_SCR, amap) => Oracle!Chosen
      BY <1>1, <1>2, <1>3 DEF To, Oracle!Chosen, Oracle!Show
<1>7. ASSUME Acts("up", ev, Oracle!MainHears), To(1, MAIN_RESUME_SCR, amap)
      PROVE  <<MAIN_RESUME_SCR, Scr>> \in Oracle!Neighbours /\ Oracle!Show(MAIN_RESUME_SCR)
  <2>1. g_live = 1
        BY <1>4, <1>7, MenuAssumption DEF Acts, LiveEsc, MapKey
  <2> QED BY <1>1, <1>2, <1>3, <1>7, <2>1, Column DEF To, Oracle!Show
<1>8. To(1, MAIN_HELP_SCR, amap) =>
        <<Scr, MAIN_HELP_SCR>> \in Oracle!Neighbours /\ Oracle!Show(MAIN_HELP_SCR)
      BY <1>1, <1>2, <1>3, Column DEF To, Oracle!Show
<1>9. Same => Oracle!NoChange
      BY <1>1, <1>2, <1>3 DEF Same, screen, Oracle!NoChange, Oracle!menu
<1> QED BY <1>1, <1>2, <1>4, <1>5, <1>6, <1>7, <1>8, <1>9, MainFrames DEF MainOnNew

(* The main menu on HELP.                                                  *)
LEMMA MainOnHelpMenu ==
  ASSUME NEW ev \in Polls, CycleInv, halted = 0, MainOnHelp(ev)
  PROVE  Oracle!Main(ev)
<1>1. mode = 1 /\ menu_scr = MAIN_HELP_SCR /\ amap = 0 /\ Scr = MAIN_HELP_SCR
      BY ScrOf DEF MainOnHelp, At
<1>2. halted' = 0 /\ UNCHANGED <<menu_sel, g_live, g_skill>>
      BY DEF MainOnHelp, Rest, level
<1>3. Scr' = IF amap' # 0 THEN 15 + amap' ELSE menu_scr'
      BY <1>2, ScrOfNext
<1>4. Oracle!MainHears = LiveEsc \union {"enter", "help", "up", "dn"} \union MapKey
      BY <1>1, MainHearing
<1>5. Scr \in Oracle!MainScreens
      BY <1>1 DEF Oracle!MainScreens
<1>6. ToHelp => Oracle!Chosen
      BY <1>1, <1>2, <1>3 DEF ToHelp, To, Oracle!Chosen, Oracle!Show
<1>7. To(1, MAIN_NEW_SCR, amap) =>
        <<MAIN_NEW_SCR, Scr>> \in Oracle!Neighbours /\ Oracle!Show(MAIN_NEW_SCR)
      BY <1>1, <1>2, <1>3, Column DEF To, Oracle!Show
<1>8. ASSUME MapPage, ToMainMap
      PROVE  <<Scr, MAIN_MAP_SCR>> \in Oracle!Neighbours /\ Oracle!Show(MAIN_MAP_SCR)
      BY <1>1, <1>2, <1>3, <1>8, Column DEF ToMainMap, To, Oracle!Show
<1>9. ASSUME ~MapPage, To(1, MAIN_EXIT_SCR, amap)
      PROVE  <<Scr, MAIN_EXIT_SCR>> \in Oracle!Neighbours /\ Oracle!Show(MAIN_EXIT_SCR)
      BY <1>1, <1>2, <1>3, <1>9, Column DEF To, Oracle!Show
<1>10. Same => Oracle!NoChange
      BY <1>1, <1>2, <1>3 DEF Same, screen, Oracle!NoChange, Oracle!menu
<1> QED BY <1>1, <1>2, <1>4, <1>5, <1>6, <1>7, <1>8, <1>9, <1>10, MainFrames DEF MainOnHelp

(* The main menu on EXIT: enter halts, and the oracle says so.             *)
LEMMA MainOnExitMenu ==
  ASSUME NEW ev \in Polls, CycleInv, halted = 0, MainOnExit(ev)
  PROVE  Oracle!Main(ev)
<1> DEFINE enters == Acts("enter", ev, LiveEsc \union {"enter", "help", "up"} \union MapKey)
<1>1. mode = 1 /\ menu_scr = MAIN_EXIT_SCR /\ amap = 0 /\ Scr = MAIN_EXIT_SCR
      BY ScrOf DEF MainOnExit, At
<1>2. UNCHANGED <<menu_sel, g_live, g_skill>> /\ halted' = IF enters THEN 1 ELSE 0
      BY DEF MainOnExit, level
<1>3. Oracle!MainHears = LiveEsc \union {"enter", "help", "up"} \union MapKey
      BY <1>1, MainHearing
<1>4. Scr \in Oracle!MainScreens
      BY <1>1 DEF Oracle!MainScreens
<1>5. CASE enters
  <2>1. Same
        BY <1>5 DEF MainOnExit, Acts, Quiet, Rank
  <2>2. Scr' = MENU_HALTED
        BY <1>2, <1>5 DEF Scr
  <2>3. Oracle!Chosen
        BY <1>1, <1>2, <2>1, <2>2 DEF Same, screen, Oracle!Chosen, Oracle!Show
  <2> QED BY <1>1, <1>3, <1>4, <1>5, <2>3, SameKeys DEF Oracle!Main
<1>6. CASE ~enters
  <2>1. halted' = 0
        BY <1>2, <1>6
  <2>2. Scr' = IF amap' # 0 THEN 15 + amap' ELSE menu_scr'
        BY <2>1, ScrOfNext
  <2>3. ASSUME MapPage, ToMainMap
        PROVE  <<MAIN_MAP_SCR, Scr>> \in Oracle!Neighbours /\ Oracle!Show(MAIN_MAP_SCR)
        BY <1>1, <1>2, <2>2, <2>3, Column DEF ToMainMap, To, Oracle!Show
  <2>4. ASSUME ~MapPage, To(1, MAIN_HELP_SCR, amap)
        PROVE  <<MAIN_HELP_SCR, Scr>> \in Oracle!Neighbours /\ Oracle!Show(MAIN_HELP_SCR)
        BY <1>1, <1>2, <2>2, <2>4, Column DEF To, Oracle!Show
  <2>5. Same => Oracle!NoChange
        BY <1>1, <1>2, <2>2 DEF Same, screen, Oracle!NoChange, Oracle!menu
  <2> QED BY <1>1, <1>2, <1>3, <1>4, <1>6, <2>1, <2>3, <2>4, <2>5, MainFrames DEF MainOnExit
<1> QED BY <1>5, <1>6

(* The main menu on RESUME, which is there in a game only.                 *)
LEMMA MainOnResumeMenu ==
  ASSUME NEW ev \in Polls, CycleInv, halted = 0, MainOnResume(ev)
  PROVE  Oracle!Main(ev)
<1>1. mode = 1 /\ menu_scr = MAIN_RESUME_SCR /\ amap = 0 /\ Scr = MAIN_RESUME_SCR
      BY ScrOf DEF MainOnResume, At
<1>2. halted' = 0 /\ UNCHANGED <<menu_sel, g_live, g_skill>> /\ g_live = 1
      BY <1>1 DEF MainOnResume, Rest, level, CycleInv, CellsInv, LifeInv
<1>3. Scr' = IF amap' # 0 THEN 15 + amap' ELSE menu_scr'
      BY <1>2, ScrOfNext
<1>4. Oracle!MainHears = {"esc", "enter", "help", "dn"} \union MapKey
      BY <1>1, <1>2, MainHearing
<1>5. Scr \in Oracle!MainScreens
      BY <1>1, <1>2 DEF Oracle!MainScreens
<1>6. Continue => Oracle!Chosen
      BY <1>1, <1>2, <1>3 DEF Continue, To, Oracle!Chosen, Oracle!ToWorld
<1>7. To(1, MAIN_NEW_SCR, amap) =>
        <<Scr, MAIN_NEW_SCR>> \in Oracle!Neighbours /\ Oracle!Show(MAIN_NEW_SCR)
      BY <1>1, <1>2, <1>3, Column DEF To, Oracle!Show
<1>8. Same => Oracle!NoChange
      BY <1>1, <1>2, <1>3 DEF Same, screen, Oracle!NoChange, Oracle!menu
<1> QED BY <1>1, <1>2, <1>4, <1>5, <1>6, <1>7, <1>8, MainFrames DEF MainOnResume

(* The main menu on MAP, kept in the second nibble.                        *)
LEMMA MainOnMapMenu ==
  ASSUME NEW ev \in Polls, CycleInv, halted = 0, MainOnMap(ev)
  PROVE  Oracle!Main(ev)
<1>1. mode = 1 /\ amap = 3 /\ MapPage /\ Scr = MAIN_MAP_SCR
      BY ScrOf DEF MainOnMap, CycleInv, CellsInv
<1>2. halted' = 0 /\ UNCHANGED <<menu_sel, g_live, g_skill>>
      BY DEF MainOnMap, Rest, level
<1>3. Scr' = IF amap' # 0 THEN 15 + amap' ELSE menu_scr'
      BY <1>2, ScrOfNext
<1>4. Oracle!MainHears = LiveEsc \union {"enter", "help", "map", "up", "dn"}
      BY <1>1, MainHearing
<1>5. Scr \in Oracle!MainScreens
      BY <1>1 DEF Oracle!MainScreens
<1>6. ToMap => Oracle!Chosen
      BY <1>1, <1>2, <1>3 DEF ToMap, To, Oracle!Chosen, Oracle!Show
<1>7. To(1, MAIN_HELP_SCR, 0) =>
        <<MAIN_HELP_SCR, Scr>> \in Oracle!Neighbours /\ Oracle!Show(MAIN_HELP_SCR)
      BY <1>1, <1>2, <1>3, Column DEF To, Oracle!Show
<1>8. To(1, MAIN_EXIT_SCR, 0) =>
        <<Scr, MAIN_EXIT_SCR>> \in Oracle!Neighbours /\ Oracle!Show(MAIN_EXIT_SCR)
      BY <1>1, <1>2, <1>3, Column DEF To, Oracle!Show
<1>9. Same => Oracle!NoChange
      BY <1>1, <1>2, <1>3 DEF Same, screen, Oracle!NoChange, Oracle!menu
<1> QED BY <1>1, <1>2, <1>4, <1>5, <1>6, <1>7, <1>8, <1>9, MainFrames DEF MainOnMap

(* The help and the map page close to where they were opened from.         *)
LEMMA PageMenu ==
  ASSUME NEW ev \in Polls, CycleInv, halted = 0, MapKeys(ev) \/ HelpKeys(ev)
  PROVE  Oracle!Page(ev)
<1>1. halted' = 0 /\ UNCHANGED <<menu_sel, g_live, g_skill>>
      BY DEF MapKeys, HelpKeys, Rest, level
<1>2. Scr' = IF amap' # 0 THEN 15 + amap' ELSE menu_scr'
      BY <1>1, ScrOfNext
<1>3. CASE HelpKeys(ev)
  <2>1. mode = 1 /\ amap = 0 /\ Scr = menu_scr /\ menu_scr \in {HELP_MENU_SCR, HELP_GAME_SCR}
        BY <1>3, ScrOf DEF HelpKeys, At
  <2>2. Oracle!PageHears = {"esc", "help"}
        BY <2>1 DEF Oracle!PageHears
  <2> QED BY <1>1, <1>2, <1>3, <2>1, <2>2, SameKeys
          DEF HelpKeys, Oracle!Page, Oracle!Show, Oracle!ToWorld, Oracle!NoChange, Oracle!menu,
              Continue, To, Same, screen
<1>4. CASE MapKeys(ev)
  <2>1. /\ mode = 1 /\ amap \in {1, 2} /\ menu_scr = 0 /\ MapPage
        /\ Scr = IF amap = 1 THEN MAP_GAME_SCR ELSE MAP_MENU_SCR
        BY <1>4, ScrOf DEF MapKeys, CycleInv, CellsInv
  <2>2. Oracle!PageHears = {"esc", "map"}
        BY <2>1, SameKeys DEF Oracle!PageHears, MapKey
  <2> QED BY <1>1, <1>2, <1>4, <2>1, <2>2, SameKeys
          DEF MapKeys, Oracle!Page, Oracle!Show, Oracle!ToWorld, Oracle!NoChange, Oracle!menu,
              To, Same, screen
<1> QED BY <1>3, <1>4

(* LEVEL COMPLETE: its hold, and the key that leaves it.                   *)
LEMMA DoneMenu ==
  ASSUME NEW ev \in Polls, CycleInv, halted = 0, Hold \/ LevelDone(ev)
  PROVE  Oracle!Hold \/ Oracle!Done(ev)
<1>1. halted' = 0 /\ UNCHANGED <<menu_sel, g_skill>>
      BY DEF Hold, LevelDone, Rest, level
<1>2. Scr' = IF amap' # 0 THEN 15 + amap' ELSE menu_scr'
      BY <1>1, ScrOfNext
<1>3. mode = 1 /\ amap = 0 /\ Scr = menu_scr
      BY ScrOf DEF Hold, LevelDone, At
<1>4. CASE Hold
      BY <1>1, <1>2, <1>3, <1>4 DEF Hold, HoldNext, To, Rest, Oracle!Hold, Oracle!Show
<1>5. CASE LevelDone(ev)
      BY <1>1, <1>2, <1>3, <1>5
      DEF LevelDone, LiveAfter, At, To, Same, screen, Oracle!Done, Oracle!NoChange, Oracle!menu
<1> QED BY <1>4, <1>5

(* The skill screen: NEW GAME restarts at the skill the oracle answers.    *)
LEMMA SkillMenu ==
  ASSUME NEW ev \in Polls, CycleInv, halted = 0, SkillKeys(ev)
  PROVE  Oracle!Skill(ev)
<1>1. mode = 1 /\ menu_scr = SKILL_SCR /\ amap = 0 /\ Scr = SKILL_SCR
      BY ScrOf DEF SkillKeys, At
<1>2. halted' = 0
      BY DEF SkillKeys, Rest
<1>3. Scr' = IF amap' # 0 THEN 15 + amap' ELSE menu_scr'
      BY <1>2, ScrOfNext
<1>4. Oracle!SkillHears = {"esc", "enter", "up", "dn"}
      BY DEF Oracle!SkillHears
<1> QED
    BY <1>1, <1>2, <1>3, <1>4, SameKeys
    DEF SkillKeys, Rest, level, Same, screen, To, SelDown, Oracle!Skill, Oracle!Show, Oracle!NoChange, Oracle!menu

(* The world's frame: nothing, or an exit.                                 *)
LEMMA WorldMenu ==
  ASSUME CycleInv, RestartTic \/ UseLines \/ PlayerPhase \/ DeadPhase \/ MonsterWorld
  PROVE  Oracle!LevelEnds \/ UNCHANGED Oracle!menu
<1>1. halted = 0 /\ amap = 0 /\ pc # "menu" /\ Scr = menu_scr
      BY ScrOf DEF RestartTic, UseLines, PlayerPhase, DeadPhase, MonsterWorld, CycleInv, ScreenInv
<1>2. UNCHANGED <<halted, amap, menu_sel, g_live, g_skill>>
      BY DEF RestartTic, UseLines, PlayerPhase, DeadPhase, MonsterWorld, screen, level
<1>3. Scr' = menu_scr'
      BY <1>1, <1>2, ScrOfNext
<1>4. UNCHANGED <<mode, menu_scr>> \/ OpenLevelDone
      BY DEF RestartTic, UseLines, PlayerPhase, DeadPhase, MonsterWorld, screen, Moves, EndLevel
<1>5. mode \in {0, 1} /\ (mode = 1 => menu_scr = LEVEL_DONE_ENTER)
      BY <1>1 DEF CycleInv, CellsInv, ScreenInv
<1> QED
    BY <1>1, <1>2, <1>3, <1>4, <1>5 DEF OpenLevelDone, Oracle!LevelEnds, Oracle!Show, Oracle!menu

(* A step of the program is a frame of the oracle's menu, or none.         *)
LEMMA StepMenu == CycleInv /\ [Next]_vars => [Oracle!Next]_(Oracle!menu)
<1>1. ASSUME CycleInv, MenuFrame PROVE Oracle!Frame
  <2>1. PICK ev \in Polls : MenuLines(ev)
        BY <1>1 DEF MenuFrame
  <2>2. halted = 0 /\ pc = "menu"
        BY <1>1 DEF MenuFrame
  <2>3. Oracle!Main(ev) \/ Oracle!Page(ev) \/ Oracle!Skill(ev) \/ Oracle!Hold \/ Oracle!Done(ev)
          \/ Oracle!InWorld(ev)
        BY <1>1, <2>1, <2>2, WorldKeysMenu, PageMenu, MainOnMapMenu, MainOnNewMenu, MainOnHelpMenu,
           MainOnExitMenu, MainOnResumeMenu, DoneMenu, SkillMenu DEF MenuLines
  <2> QED BY <2>1, <2>3, SameKeys DEF Oracle!Frame
<1>2. ASSUME Halted \/ UNCHANGED vars PROVE UNCHANGED Oracle!menu
      BY <1>2 DEF Halted, vars, level, Oracle!menu, Scr
<1> QED BY <1>1, <1>2, WorldMenu DEF Next, Oracle!Next

(* The program's menu, with its two nibbles, is the oracle's, whatever the *)
(* world does between the frames.                                          *)
THEOREM SpecImplementsMenu == Spec => ImplementsMenu
<1>1. IInv => CycleInv
      BY DEF IInv
<1> QED BY <1>1, InitMenu, StepMenu, SpecIInv, PTL DEF Spec, ImplementsMenu, Oracle!Spec
=============================================================================
