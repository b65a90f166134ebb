# A TLA+ verification project for doom-flipjump

`doom-flipjump` is DOOM compiled to FlipJump, a one-instruction machine. Its core is the Python
package `src/src/doomfj`: an executable model of the game (`world.py`, `combat.py` and what they
import, "the model" below) and, beside it, the emitters (`*code.py`, `wall_renderer.py`) that print
the same rules as FlipJump text ("the program"). `src/src/fj/*.fj` holds the macros the text calls.
The repository's correctness argument is that the two step the same cells on every frame, and that the
model is DOOM's rules as documented.

This directory states what those rules promise, model-checks it with TLC on small instances, and proves
the safety part of its core with TLAPS for every value of the constants.

## 1. The system

One frame of the standalone program is: poll the keyboard; step the menu (a menu frame draws a picture
and runs no world); run the restart if one was asked; stop if the level is over; then one tic of the
world, in this order: doors, movers, use lines, the player's weapon, his death think or his move, and
twice the monsters' world (monsters, projectiles, barrels, effects, lights). Then the frame is drawn, and
the self-reset puts every cell back to its initial value except the ones on a list that survives
(`build.py`'s `*_PERSIST`). Nothing is concurrent in the sense of threads: what interleaves is the
player's keys, the monsters, and cells that one phase writes and another reads up to a frame later.

### Inventory

| part | state it keeps | operations | what is hard, and what makes it correct | here |
|---|---|---|---|---|
| door machine, door phase (`doors.py`, `world.py`) | state, dir, sub, wait per door; spent latches `w_fired`; requests `d_monreq` | `door_tic`, the doors phase, walk-over lines, monsters' presses, shots, restart | a door must never shut on a thing; the stay mark shares a cell with the wait; requests cross phases | `DoorMachine`, `Doors`, `Doorway` |
| the door's three implementations (`doors.py`, `doorcode.py`) | the same cells in the model, the gates' mirror `DoorPhase`, the emitted nibbles | one frame of each | they read a request, a switch and a latch in different orders | `DoorMirrors` |
| movers (`movers.py`, `movercode.py`) | state, dir, sub, wait per lift; floor groups | lift, perpetual lift, moving floor tics; lines, switches, a boss's death | calls while moving, a floor fired from several places, a wait that must end | `Movers`, `Plat` |
| switch textures (`switches.py`, `switchcode.py`) | pressed textures, the buttons' countdown | presses, the countdown | a texture changes before the thing it switches is looked at | `Movers` |
| monster scheduler and states (`world._monsters_phase`) | per slot active, state, tics; cursor | one visit per slot, K heavy actions a pass, damage | starvation; tics 0 means "waiting"; the dead must stay dead | `MonsterScheduler` |
| menu, level cycle (`menu.py`, `wall_renderer.py`, `restartcode.py`, `exitcode.py`) | mode, menu_scr, amap, menu_sel, g_live, g_skill, g_rs, lvdone, pusedn, p_dead | one step of the menu per frame, NEW GAME, exits, death, restart | a finished level must not be resumed; two nibbles hold one screen; keys held over a level start | `MenuScreens`, `MenuRules`, `LevelCycle` |
| keyboard (`input.fj`, `keyboard.py`, `wall_renderer.py`) | held flags, press latch, menu events, the last poll | one poll, one frame | taps inside a frame, bursts past it, keys that share a flag, values an idle poll leaves behind | `Keyboard` |
| player (`combat.py`, `hurtcode.py`, `powers.py`, `lootcode.py`) | health, armor, counts, powers, use edge, the shown palette | nukage, damage, death think, restart, palette | several causes of death in one tic, guards that must read the death the tic found | `Player` |
| weapons (`weaponcode.py`) | psprite states, ready and pending weapon, ammo, flash | raise, lower, fire, refire, ammo check | number keys, pickups, death in mid-fire; state numbers that depend on the map | `Psprites` |
| inventory (`lootcode.py`) | ammo, weapons, cards, backpack | pickups with caps, what a first round brings up | caps, cells that wrap | `Inventory` |
| mobiles (`projcode.py`, `world.py`, `sim.fj`) | missile and effect pools, drops, leaf lists | fire, move, explode, evict, relink, take | full pools; incremental lists equal to rebuilt ones; one window that two uses share | `LeafLists`, `Mobiles` |
| barrels (`barrelcode.py`) | state, tics, health, source per barrel | damage, explosion, chain | a chain within one phase, a health cell that must saturate | `Barrel`, `Barrels` |
| sound (`noisecode.py`) | sound nodes, edges, alerts | iterative flood | replaces a recursive definition with sound blocks | `SoundFlood` |
| teleports (`teleport.py`, `teleportcode.py`) | once latches, reaction time, momenta | player and monster crossings, thrusts, stomps | latch spent when the exit refuses; two things in one place | `Teleports` |
| sector lights (`lights.py`) | phase counters | one tic each | none interleaves with another part | not modelled |
| self-reset (`selfreset.py`, `build.py`) | which cells survive a frame | the restore set | a missing or an extra survivor | not modelled |
| rng, fixed point, wire codecs | stream cursors; 16.16; bytes | draws, arithmetic, encode and decode | ranges, round trips | not modelled |
| monster decisions (`monsterdecide.py`, `monstermove.py`) | facing, move count | `P_NewChaseDir`, attacks | order of tries over a map | not modelled |
| collision, sight, aim | none | 16.16 geometry over a map's lines | numeric | not modelled |
| renderer, reference renderer, picture output | a frame's scratch | pixel arithmetic | equality over 2^16 positions | not modelled |
| map compiler, LUT generator, WAD reader, build, harness, `scripts/`, `scratchpad/` | none at run time | offline tools | | not modelled |

The full list, with a status and a note for each part, is `components` in `PROJECT.json`; what each is
exposed to is `hazards` there, at the line where it bites.

### Interactions

- the keyboard leaves `kb_now` and the menu's events (`Keyboard`'s `acts` and `heard`); the menu reads the
  events (`LevelCycle`'s `ev`, any subset the polls can see), the tic reads the keys (`use` in
  `LevelCycle`, `Doors` and `Player`, the fire and number keys in `Player`);
- the menu decides whether the world runs (`mode`); the world's exit opens LEVEL COMPLETE by writing the
  menu's cells; the death think writes `g_rs`, which the *next* world frame reads before anything else; a menu
  frame shows palette 0 and tells the world's palette so (`Player`'s `MenuFrame`);
- the player's move, the monsters' moves and shots write door and lift requests that the *next* doors and
  movers phases read; the doors phase reads where the things stood at the end of the last frame;
- a use press swaps switch textures first, then looks at exits and machines (`Movers`' `UseLines`);
- the scheduler's visits hurt other monsters between two visits; a frame is two passes, with the
  player's phase, the projectiles and the barrels (damage, as the scheduler sees them) between them;
- a missile's hit kills, the kill drops an item, and the drop is linked through the window the missile is
  worked in (`Mobiles`); a rocket and a barrel hurt barrels, which then blast within the same phase (`Barrels`);
- the heights that doors, lifts and pits have at this tic decide how far a shot is heard (`SoundFlood`).

## 2. The modules

### Doors: `DoorMachine`, `Doors`, `Doorway`, `MCDoors`

`DoorMachine` is `doors.door_tic` as operators: `Press`, `StepUp`, `StepDown`, `WaitOut`, `Motion`,
`DoorTic`, in its order (press, then motion; `sub` decremented before its zero test; the reversal asked
only on the step that would leave the passable states). `Doors` owns the doors of a level: `DoorsPhase` is
`World._doors_phase`, with held use, cards, switches in list order, latches, requests and contact;
`PlayerStep` is a candidate move with the cards it touches and the walk-over lines it crosses; `MonsterStep`,
`MonsterPress`, `PlayerShoots`, `Dies`, `DeathThink` and `Restart` are the rest of what reaches a door.
Geometry is a set of places: which boxes a place is in, which doors it touches, which lines a step
crosses. `Doorway` is the abstract specification: something things pass through only while it is
passable, and that never shuts while one is inside. `Doors` implements it for every door
(`ImplementsDoorway`, the instance `Way(d)`).

### The door's mirrors: `DoorMirrors`, `MCDoorMirrors`

One door, stepped by the model (`ModelTic`), by the mirror the repository's gates use (`MirrorTic`,
`doors.DoorPhase.tic`) and by the emitted machine (`EmittedTic`, `doorcode.door_tic_lines` and
`machine_lines`, on nibbles that wrap), all on the same inputs. `Compatible(c)` names the doors on which the
three agree; one combination a real level has is not among them (finding 1 below).

### Movers and switch textures: `Movers`, `Plat`, `MCMachines`

`MCMachines` EXTENDS both `MCDoorMirrors` and `Movers`, and one part of it stands still while the other runs; the
movers' specification has names of its own for that (`MoversInit`, `MoversNext`, `MoversSpec`, `MoversTypeOK`).

A lift is the door machine on the floor (`movers.lift_tic` calls `door_tic`), so `Movers` extends
`DoorMachine` and takes the emitted lift from an instance of `DoorMirrors`, as `movercode` takes it from
`doorcode`. Perpetual lifts (`PerpTic`, `EmittedPerp`) and floor groups (`FloorTrigger`, `FloorTic`, `EmittedFloor`) have machines
of their own. Actions: `DoorsPhase` (the switch textures' countdown and the doors' switches), `MoversPhase`,
`UseLines`, `Move`, `Monsters` (lines a monster crosses, and a boss's death), `Restart`. Which lines are hit is a choice. `Plat` is what a
lift promises whoever stands on it; `ImplementsPlat` is the refinement for every lift, `PlatOf(l)`.

### Monsters: `MonsterScheduler`, `MCMonsterScheduler`

A pass visits every slot once from the rotating cursor; a visit is `Counts`, `Removed`, `Enters` or
`Defers`; the heavy actions need one of K slots. `Hurt` is damage, by the attack of the slot just visited
or between passes. States are one per role the code tells apart, their tics are constants. Where a monster
moves and whom it hits are choices.

### The frame: `MenuScreens`, `MenuRules`, `LevelCycle`

`MenuScreens` is the vocabulary (screens, events, the order in which events are looked at). `MenuRules` is
the abstract specification, `menu.menu_step`: the oracle every gate steps beside the program, written by what
it means (a column of items, pages that close to where they were opened from, a hold, a game in
progress) rather than screen by screen. `LevelCycle` is the program: `menu_state_lines` and
`automap_state_lines`, one operator per label, on the two nibbles `menu_scr` and `amap`; then the frame's
parts as actions in the frame's order (`pc`): `MenuFrame`, `RestartTic`, `UseLines`, `PlayerPhase` or
`DeadPhase`, `MonsterWorld`. Whether a press hits an exit box, a move crosses an exit line, or a tic kills
the player are choices. `ImplementsMenu` is refinement with `Scr`, the oracle's screen as a function of the
two nibbles and the halt.

### Keyboard: `Keyboard`, `MCKeyboard`

The device is a queue of key events (external: flipjump's keyboard). A poll delivers at most one:
`PollEvent` and `PollIdle` are `kb.poll` and the lines beside it (`map_key_lines`, `w6_key_lines`), which read
what the poll left in `kbstat` and `kbcode`. `Tic` is the frame acting on the latch, and the next frame's zeroing.
`told` and `edges` are history: the keys as the polls have reported them, and this frame's down edges.

### Things: `LeafLists`, `Mobiles`, `Barrel`, `Barrels`, `MCThings`

`LeafLists` is the incremental linked list of a leaf (`_list_insert`, `_list_remove`, `sim.leaf_link`) and `IsListOf`, what
the list rebuilt from nothing is. `Mobiles` steps the pools twice on the same choices: `cells`, the model's, and `emitted`,
where every slot is worked through one window `win` that a kill's drop also writes. A `step` of the frame is one
slot's visit; two runs of the monsters' world make a frame. What a missile meets (wall, thing,
player, nothing), who dies of it and where things stand are choices, made once for both. `Barrels` is the same for
the explosive barrels, with the blast's reach as a table; the chain (a barrel killed by another's blast, before or
after its own turn) follows the slot order. `Barrel` is what one barrel promises (stands, burns, blasts once, is
gone), and `BarrelAt(b)` the refinement. A level (how many barrels, which stand on this skill, who reaches whom) is a
record of the constant `Levels`, chosen at the start, and so is one of mobiles (leaves, monsters, pools, kinds and their tics)
of the constant `Stages`. `MCThings` extends both; `part` says which of them a behaviour plays, and the other's cells stay.

### Player: `Inventory`, `Psprites`, `Player`, `MCPlayer`

`Inventory` gives (`Touch`, `EmittedTouch`), `Psprites` is the weapon and flash machine over `gamedata`'s states, its
actions in the model's nested form (`P_SetPsprite` called from an action) and in the emitted form (a jump to the
state's block). The model's loop is a turn done three times (`SetOnce`, in `SetWeapon`) and so are the emitted jumps (`WenBlock`,
in `Wen`): an action's own `P_SetPsprite` is its last call, and the third turn always ends in a state that lasts, which is proved (below),
as the code asserts it with its guard of 64. `Player` runs the tic: `Think` (use edge, nukage, keys, weapon, death think), `Reach` (pickups
on the move), `Hit` (damage from the monsters' world), `Show` and `MenuFrame` (the palette, sent on a change). `ws` is the model's
record, `fj` the emitted cells at their widths; `used` says that this tic ran the use lines, `held` that use was down in the last
frame of the world, which `UseIsAPress` compares over the think step. `MCPlayer` plays three small levels (`body`, `light`, `heavy`), instances that
share its variables; the constants of its cfg are the widest of theirs. `MCPlayerPlasma` is the level of finding 4.

### Sound and teleports: `SoundFlood`, `Teleports`, `MCSoundTeleports`

`SoundFlood` builds the sound nodes of *any* map on the given sectors, as `World.__init__` does, floods in the model
(`NoiseAlert`) and in passes over the emitted edges (`Seed`, `Pass`, with the edge masks `_dyn_edges` computes at build time), while
doors, lifts and pits move. `InEarshot` is `P_RecursiveSound`'s answer, by paths. `Teleports` puts lines end to end, so
that a move may touch two, and moves the player and monsters by foot and by thrust, with the stomp, the telefrag, the
once-only latches, the skills and the reaction time, in the model and in the emitted lines. `level`, chosen at the start
from `Levels`, says how many lines there are, which way each faces and for whom it works. Each tic chooses whether the player
holds the chainsaw (`saw`), for `_thrust` gives its victims no momentum. Both programs
test the lines in order and stop at the first that decides; `Teleports` says so by the least line that decides
(`Deciding`, `HisLines`, and `MonsterFires` for the emitted tests) rather than by a loop: a once-only line is spent if
it is crossed and no line before it decided. `MCSoundTeleports` EXTENDS `Teleports` and has the two kinds of map of the
flood as instances (`Marked`, `Movers`) beside it.

Definitions preceded by a comment that begins with "Slip" are not used by any specification: each is the
code with one plausible mistake, and replacing the definition that follows it by the slip makes TLC find the
property that guards it violated (`mutants` in `PROJECT.json`).

## 3. What the runs check

Levels that ask the same question share a run: the MC module has a variable (`part`, `level`) that each initial
state fixes, and instances of the module give the other levels their constants.

| run | bounds | properties | what it shows |
|---|---|---|---|
| `doors_level` | 3 doors of 3 or 4 states (closing, open-stay, key), 6 places, player and a monster, 1 card, 2 latches, W1 and WR lines, a shot line | `NobodyCaught` `RequestsPress` `ImplementsDoorway` `LockedStaysShut` `StayDoorsStay` `LeftAloneComesToRest` | no order of presses, moves, deaths, reversals, closings and restarts shuts a door on a live thing or loses a request; the card is needed; open for good is for good; a door left alone comes to rest |
| `machines` | every door with 2, 4 or 6 states, stride 1 or 4, every pass state, up to 2 switches, that is `Compatible`; and 2 lifts, 2 floor groups, 6 lines, 5 switches | `MirrorIsModel` `BinaryIsMirror` `MoversInStep` `SwitchTellsTruth` `ImplementsPlat` `FloorRunsOnce` `MoversSettle` | model, mirror and emitted machines agree on every frame; a lift rides as it promises and comes back; a group runs once and arrives |
| `e1m9_switch_beside_request` | E1M9's door 135 | `MirrorIsModel` (violated) | finding 1 |
| `monster_scheduler` | 4 slots, K = 1, one lost soul | `WaitBound` `ZeroIsWaiting` `DeadStayDead` | nobody waits more than 3 passes in a row; the dead stay dead |
| `heavy_actions_past_k` | the same | `AtMostKHeavyActions` (violated) | finding 2 |
| `level_cycle` | the real size: 3 skills, the map page, a walk-over exit, every set of events | `WorldIsLive` `NoCarriedPress` `FinishedStaysFinished` `HoldEnds` `ImplementsMenu` | no screen leads into a finished level; the program's menu is the oracle's |
| `keyboard` | 3 keys, 2 flags, 2 polls a frame, 3 pending events | `NoStuckKey` `DownIsHeld` `ActsOnKeys` `HearsThisFrame` `EveryPressActs` | the frame acts on what was down or pressed in it; every press counts, once |
| `held_flag_of_two_keys` | 2 keys on one flag and one beside them | `DownIsHeld` (violated) | finding 3 |
| `things` | 2 missiles and a shooter; 2 effects; one of each with two runs of the world a frame; 3 barrels in a row; 2 barrels hit by 10 and 150, two runs | `BarrelsInStep` `CellsAreModel` `NothingTakenBack` `ImplementsBarrel` `EachIsGone` | the lists are a rebuild's and the emitted cells the model's whatever is hit in whatever order; each barrel blasts once and blames the first; nothing flies or burns for ever |
| `player` | 3 levels: armor, suit, berserk and nukage; light weapons; heavy weapons with the plasma rifle; health 4, caps of 1 to 4 rounds | `BinaryInStep` `PlayerConsistent` `NothingUncalledFor` `ScreenShowsPalette` `WeaponArrives` | the emitted player is the model's; his cells agree with each other; the dead fire nothing; a use press runs the use lines once; the screen shows the frame's palette |
| `dead_on_a_plasma_map` | chaingun and launcher on a map with the plasma rifle, one lethal hit | `DeadFiresNothing` (violated) | finding 4 |
| `sound_and_teleports` | every map of 3 rooms and a door with plain and marked lines; every one of 2 rooms, a lift and a pit; 2 lines around the player and a monster (`Trips`); 3 lines, 2 once-only, around 2 monsters (`Latches`) | `TeleportsInStep` `NoneInAnother` `OnceMeansOnce` `HeardAndHeld` | the emitted teleports leave every cell as the model's; nobody is left in another; a latch is spent by a crossing; a shot is heard in exactly the sectors the recursion reaches |

**Why the bounds are enough.** A door's interesting states are shut, on the way below and above the pass
state, and the top; three states with both strides reach each of them, and the proofs below cover every
size. The doors share the player, a monster and the spent latches, and the two can hold,
press and cross different doors in one tic. A lift passed two stops at a time and a perpetual one of three
stops have a middle and both ends, with two-frame waits and sub-counts so that a call falls into each part of a
ride. Four monsters on one slot are the longest wait there is to see
(three passes) and leave one monster to be hurt by another's attack. `LevelCycle` has no bound: its
constants are the game's. Two polls a frame with three pending events make every burst spill into a second
frame, and a tap, a release and a second press share a frame; `MaxQueue` bounds only how far the player can
run ahead of the polls. A pool of two is full with one slot to give back, and two leaves are what a relink
needs; `MaxFlight` bounds how far a missile flies before it meets something, as the level's walls do. Three barrels in a row have a chain that
goes forward, one that goes back and one of two steps; a hit of 150 on a health of 20 is the one that would
wrap the cell. `Player`'s counters keep their saturation and their comparisons at small values; `TICS_BOUND`
shortens every state to one tic, or two where flashes overlap, and keeps their order. Three rooms and a door have a
detour around a marked line, which is where a second visit at a lower count happens; three lines end to end have a move that touches two.

Deadlock is checked in every run.

**Fairness.** The frame loop of the program is a jump back to its start, and `World.tic` runs its phases to the
end on every tic, so every part of a frame whose
turn it is runs: weak fairness on the phases in `Doors` (`Restart`, `DoorsPhase`, `DeathThink`,
`PlayerStays`, `EndTic`), on `Next` in `LevelCycle`, on polls and tics in `Keyboard`, on the step of the
frame in `Movers` and `Barrels` (`GoOn`), in `Mobiles` (`StepOn`) and in `Player` (`Advance`). No fairness is
assumed of the player, the monsters or the keyboard: nobody has to press, move, hit or release anything, and within a turn the
environment may still do anything. `LeftAloneComesToRest` has in its hypothesis that the door is left alone.

## 4. What is proved

All proofs are for every value of the constants that meets the named assumptions. Those say only what the
tables guarantee: `KindAssumption` (a door has at least two states, a positive stride and wait),
`StartAssumption` (nobody starts in a doorway he could not stand in), `CloseLineAssumption` (what
`close_strides` asserts), `SlotAssumption`, `SpawnAssumption`, `TicsAssumption` (a state's tics are 1 to 15,
15 is for ever), `MenuAssumption`, `ExitAssumption`, `KeyAssumption` (the bindings name flags and events, a
frame polls at least once), `SpeedIsOne` (`doors.SPEED` is 1, which `lift_tic` rests on: a
triggered lift leaves its top on the trigger's frame), `MoverAssumption` (two to sixteen stops, counts that fit a nibble), `LineAssumption` (a line's
lifts and groups exist; a lift switch is an SR use line of plain lifts, a floor switch an S1 line of one group),
`TeleportsAssumption` (the lines of a level are numbered, and its once-only lines are for monsters, as special 125 is), `BarrelsAssumption`
(no barrel is in its own reach, a blast takes 128 at most, a hit a byte: `chain_pairs`) and `ModelRules` (what `barrelcode.check_model_rules` asserts:
health in 7 bits, states of 1 to 14 tics, no death roll that `max(1, tics - roll)` would clamp),
`InventoryBounds` (what `lootcode` asserts: a full backpack and five clips more fit three nibbles, no health at most reads as one below
0, armor is a byte), `PspriteBounds` (a step of a weapon's way is shorter than the way, and the cell of its height is a byte),
`PlayerBounds` (damage and its flash fit a byte, a plasma rifle is on a map that says so) and `BerserkNibbles` (berserk's
12 is one and a half of the palette's step of 8, which the emitted reading of its count by one nibble rests on), `MobilesAssumption` (leaf 0 is none, every kind of missile and effect runs at least one state of 1 to 15 tics, blood and
puffs three) and `NoClamp` (what `projcode.check_model_rules` asserts: no tics roll is clamped but the rocket's).

- **`Doors_proofs`**: `SpecTypeOK`, `SpecDoorsShaped`, `SpecNobodyCaught`, `SpecRequestsPress`,
  `SpecStayDoorsStay`, `SpecLockedStaysShut`, `SpecImplementsDoorway`. The inductive invariant is `TypeOK /\
  DoorsShaped /\ NobodyCaught`. The shape is needed because the machine decrements `sub` before it tests it and
  keeps the stay mark in the wait's cell; `NobodyCaught` is inductive only with it, because a door that comes
  to its shut state does so from a passable one only on the step whose contact is asked; the first lemmas say so of one
  `door_tic` (`DoorTicShape`, `DoorTicKeepsPassable`). `StayInv` and `LockInv`
  strengthen it for the two properties about one kind of door.
- **`Machines_proofs`, the doors**: `DoorPhasesAgree`, `SpecMirrorIsModel` and `SpecTypeOK`: where every door is
  `Compatible`, model, mirror and emitted machine hold the same cells and latches, each in its range. The
  invariant is equality plus the shape, without which the emitted equality tests and the model's inequalities are
  different tests. The hypothesis cannot be dropped: finding 1 is its counterexample.
- **`MonsterScheduler_proofs`**: `SpecTypeOK`, `SpecWaitBound`, `SpecZeroIsWaiting`,
  `SpecHeavyActionsBounded` (2 K), `SpecDeadStayDead`. The wait bound is the deep one. It is not inductive; what is:
  `K * waits[m]` plus the monster's distance from the cursor stays below N. Once all K slots are given, K
  monsters stand between the cursor and the first deferred one, so when the cursor moves there, everyone
  deferred comes K places closer.
- **`LevelCycle_proofs`**: `SpecTypeOK`, `SpecWorldIsLive`, `SpecFinishedStaysFinished`,
  `SpecNoCarriedPress`, `SpecImplementsMenu`, with and without the map page and the walk-over exit. The invariant's heart is
  `LifeInv`: while a level is over, either the screen is LEVEL COMPLETE or its hold, or no game is in progress;
  and without a game in progress no screen that closes to the world can be up. The refinement's lemmas show each
  screen of the program, jump by jump, to be a step of the oracle or a stutter; `Column` relates the program's
  item-by-item moves to the oracle's column.
- **`Keyboard_proofs`**: `SpecTypeOK`, `SpecNoStuckKey`, `SpecHearsThisFrame`, whichever keys share a flag, and, when no two do
  (`OneKeyAFlag`, a hypothesis of the theorems), `SpecDownIsHeld` and `SpecActsOnKeys`. The invariant has
  two halves. `CellsFollow`: held flags, latch and events are those of the keys the polls were told about, which alone is
  inductive. `QueueInv`: a key is down exactly if its last event in the queue says so, or, when it has none
  there, the polls have been told so; it turns what was told into what is down once the queue is empty. The hypothesis cannot
  be dropped: the third finding is its counterexample.

- **`Machines_proofs`, the movers**: `MoversStepAlike`, `SwitchesTellTruth`, `FloorsRunOnce`, `LiftsImplementPlat`, for any number
  of lifts, stops, groups, lines and switches. `MoversInStep` is not inductive: a lift's emitted nibble finds the bottom
  by equality and the model by an inequality, and the two agree only on courses a lift can be on. `LiftsShaped` and
  `FloorsShaped` say which those are (a lift that moves has a count left and is not at the end it moves to, one that waits is at
  an end, a floor that counts has not arrived). `SwitchTellsTruth` needs what a press leaves to the next
  phase: between the press and the movers' phase a lift button's lift is still at rest, but is in `req` (`LiftButtons`),
  and `FloorSwitches` says a floor switch that is out has its group fired or the level over. `MoversInv` is the
  conjunction. For `ImplementsPlat` each way a lift's tic can go is a step of `Plat`, case by case.
- **`Teleports_proofs`**: `TeleportsFollow`, `NoneStandInAnother`, `OnceIsOnce`, `ReactionHolds`, in any level, with any
  number of lines and monsters. `TeleportsInStep` is inductive as it stands, but its step is not a matter of unfolding: the emitted
  comparisons of a crossing are not the model's (`CrossingsAlike`); the least deciding line exists and is the same on both sides
  (`FirstIs`, `DecidingAlike`); and `tp_stomp` does not skip the mover's own slot, which is right
  only because a mover beside a line is not at the destination (`StompAlike`). `NoneInAnother` is inductive with it: a
  step moves one thing, to where it has been tested free or to a destination it found or made empty
  (`MovedApart`), and nobody comes back to life but at a level start. `OnceMeansOnce` rests on what a monster's move does to
  the latches (`LatchesTold`). `ReactionHolds` is the action property `HeldAfterTeleport`, which the run checks as a part of
  `HeardAndHeld`.
- **`Things_proofs`, the barrels**: `BarrelsFollow`, `BarrelsImplementBarrel`, `BlameIsTheFirsts`, for any number of barrels, any reach of
  their blasts and any hits. `BarrelsInStep` is inductive as it stands (its `HealthTellsState` says that a barrel that is there
  has tics left, so that no count passes 0), and the work is in its step: a blast is a fold over the barrels, and what a fold
  computes is itself an induction. `Iterates` and `UpTo` do it once, over a set of numbers and a function instead of an operator;
  `DamageEachUnfolds`, `ChainUnfolds` and `RocketUnfolds` say that the three folds are such runs. What a run keeps is `OnceHit`:
  however many shots, fireballs and blasts meet in it, each barrel is untouched, hurt and alive, or killed, once
  (`EachBlasts`). `LeafWorks` and `BdmWorks` say what the emitted window does, 12-bit difference and all, so that model and
  emitted cells stay alike hit by hit (`HitAlike`, `RocketAlike`); `ChainAlike` needs that the barrel that explodes is not in
  its own reach, or the source the chain reads again at each pair could change under it. `DoesWell` then turns what one turn
  may do to a barrel into `GoodAt`, into a step of `Barrel`, and into the rule of the blame. The last theorem is
  the action property `BlameIsFirst`, which the run checks as a part of `NothingTakenBack`.
- **`Things_proofs`, the mobiles**: `MobilesFollow`, `NothingComesBack`, for any number of monsters, pool slots, leaves
  and states of a kind. The leaf lists come first. `ListsHold` says that each leaf's list is the rebuild's (`IsListOf`) for the rows
  given; `WalkPasses` that a walk of such a list visits its things in order and ends; `LinkFinds` and `UnlinkFinds` where the walk
  of `_list_insert` and `_list_remove` stops; and `LinkHolds` and `UnlinkHolds` that the one list changes by the one thing, if it
  was nowhere, or there. The second half is the window. `Follows(w, f, D)`: the emitted pools, rows and counts are functions of
  the model's cells `w` and of `D`, the monsters whose item lies about, and the emitted lists hold for those rows. While
  a missile is in the window that is false, and what holds is `Mid`: the window has the missile's cells and the pools, rows and
  lists are right but for its own slot. Each emitted routine keeps `Mid` (`MidMoved`, `MidHit`, `MidExplode`, `MidTry`), loading
  makes it and `pj_out` ends it (`MidOut`). `MidHit` is the heart: a kill's drop is linked through the same window, by a run of
  `DropLink` over the monsters (`DropLinksFollow`), and it is the kept thing and leaf that bring the missile's own relink back
  to its row. `Tale` says that a monster alive has dropped nothing, or a second drop would be linked twice. `Quiet`
  (what has exploded has no momentum) is what `DiesOnce` rests on: without it a dying missile could try again and explode
  anew. `MobilesInv` is the conjunction, inductive, and `InvTells` takes `CellsAreModel` from it. `NothingComesBack` is
  `DiesOnce /\ BloodStays`, which the run checks as a part of `NothingTakenBack`.
- **`Player_proofs`**: `SpecPlayerConsistent`, `SpecBinaryInStep`, `SpecNothingUncalledFor`, `SpecScreenShowsPalette`, for any
  caps, items, keys, damage, tics and passes a frame, where `KillIsNumbered`; `SpecWeaponIsHis` and
  `SpecUseIsAPress`, the model's own part of them, without it. `PlayerConsistent` is far from inductive. `PlayerInv` is, of the model
  alone: `Good`, what he holds is in its bounds, and `At`, how the psprite goes with it. `At`'s clauses hold each other up. That the state
  is one of the ready weapon's needs that a weapon leaves its states only over its own up and down states; that no shot takes a round
  he does not have needs that the state before a shot already has its round (`Shoots(Next_(s)) => EnoughAmmo(w)`: a pickup only adds, and the
  other weapons' keys change `pending`, not `ready`); that a lowered weapon has a next one needs that only an ammo check, a key, a pickup or
  death lowers it; and that the emitted height does not wrap needs that a raised one stands above the top. Given `Good` and `At`, one turn of the state loop
  and one emitted block are shown equal action by action (`PlainTurn`, `ReadyOutcome`, `RaiseOutcome`), then the three turns
  (`Landed`); the frame's passes are a recursive function over `0 .. WEAPON_TICS`, whose existence and values are an induction over a set of
  numbers (`PassesExist`, `WellFoundedInduction`). `CellsInv` is `Same`: each cell is the model's field, health in 12 bits, and `palcur` the palette on
  the screen. A pickup is `Gives`: both programs give the same, never less than before, and take the thing alike. The emitted palette reads
  berserk's red from one nibble of its count where the model divides, subtracts and rounds up, so the palette rests on
  lemmas about division (`StepsAre`, `NibbleIs`, `BerserkRedIs`). `ArmorTellsType` and `DeadIffNoHealth` are `Flesh`, a part of
  `Good`: damage spends an armor and its type at once, and a death is written in the tic that takes the last health. That a held
key runs no use lines (`OnePress`) needs a clause that ties `held`, which no program keeps, to what both do: while use is held
`usedown` is 1, or he is dead and a restart is asked for, whose level start counts use as held.

**Only model-checked**, and why:

- Liveness (`LeftAloneComesToRest`, `MoversSettle`, `HoldEnds`, `EveryPressActs`, `EachIsGone`, `WeaponArrives`) rests
  on fairness, and so on ENABLED, which the prover does not do.
- `HeardAndHeld`'s sound part: `InEarshot` is reachability, and that the flood computes it for every map is an induction over
  paths and passes.
- The player's cells on a map with a plasma rifle, once he can be hurt. `SpecPlayerConsistent` and its three companions assume
  `KillIsNumbered`: the map has no plasma rifle, or nothing hurts him on it. Without it they are false (finding 4).

## 5. Findings

1. **A latch the model spends and the program does not** (`e1m9_switch_beside_request`). On the frame a door's
   request is pending, `World._doors_phase` still looks at its switches; the mirror and the emitted text count
   the request as the press and do not. E1M9's door 135 has both a monster's box and an S1 switch.
2. **More heavy actions than K** (`heavy_actions_past_k`). `A_Chase` that begins an attack runs
   `A_FaceTarget`, itself heavy, in the same slot: a pass bounds slots at K and heavy actions at 2 K.
3. **A held flag cleared while its other key is down** (`held_flag_of_two_keys`). `w` and the up arrow share a
   flag; releasing one while the other is held stops the player.
4. **A dead man's rocket** (`dead_on_a_plasma_map`). The emitted kill numbers the weapon states as on a map without
   the plasma rifle; on one with it, dying with the chaingun puts the weapon in the launcher's firing states, which
   take a rocket and fire it. The program differs from the model, and from its own comment.

The first three are disagreements between the code and a sentence of a doc, comment or test, quoted in
`PROJECT.json`, which do not say which of the two should change; the fourth is a fault of the program.

## 6. What is left out of the modelled parts

- `Doors`: positions are places and a step is one edge between two of them; the number of steps a monster takes in one
  phase is not bounded. The bar's display of the cards is not there. A door's heights are its state index.
- `DoorMirrors`: the geometry that gives the inputs is the same for the three by construction; each
  implementation's box test is numeric code.
- `Movers`: heights are state indices; which lines a move crosses is a choice; whether a switched door is at rest is a
  choice, its machine being in `Doors`.
- `MonsterScheduler`: positions, targets and random draws are choices. A pass is not tied to the player's phase.
- `LevelCycle`: what the world does to health, exits and positions is a choice; the stats and pictures of the
  screens are drawing.
- `Keyboard`: keycodes are model values, so the nibble-by-nibble decode in `kb.poll` is the table it implements;
  a status outside {0, 8, 9} (not a keyboard) halts the program and is not modelled.
- `Mobiles`, `Barrels`: positions, momenta and damage rolls are choices; what a blast does to the player is in `Player`'s `Hit`.
- `Player`: the death view's turn is reduced to whether the flash fades. Not there: secrets, the item count, partial
  invisibility, the computer map, the player thing's own states, his move.
- `SoundFlood`: who hears it (`A_Look`) is the scheduler's wake. `Teleports`: one tag, and one destination with the places beside it;
  the fog is in `Mobiles`. A thing is solid there as long as it is shootable: that a dying monster is in the way until its
`A_Fall` is not told apart.

### Not modelled

- **Monster movement and attack decisions, collision, sight, aim.** They choose by positions, angles and lines over a
  level's data: 16.16 arithmetic over 2^32 values per coordinate. A model with small coordinates would not have the code's
  rounding, which is what is hard in it; every module above takes their answers as choices, so what it shows holds
  whatever they answer.
- **Renderer, reference renderer, `.fj` rendering macros, map compiler, tables, HUD drawing.** Pixel arithmetic;
  correct means equal to the reference on every frame, which the repository's gates compare picture by picture. These
  are most of the lines of the repository.
- **Self-reset.** The set of restored cells is measured on the assembled program, not written in the source; its effect
  is modelled where a frame's end matters (the window in `Mobiles`, the surviving cells in `LevelCycle` and `Keyboard`).
- **Sector lights, random streams, fixed point, wire formats.** Counters no other part reads and pure functions:
  nothing interleaves, and the repository tests them by enumeration.
- **Build, harness, `scripts/`, `scratchpad/`.** Offline tools and one-off probes: they read WADs, assemble programs,
  replay inputs, and keep no run-time state.

## 7. Plan

What is left, in the order of what it would add:

1. Proofs about `SoundFlood`: what is flooded is reachable across at most one sound block.
2. Composition: `Player` as the `PlayerPhase` of `LevelCycle` (its `Hit` and death in place of a choice).
