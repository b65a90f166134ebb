------------------------------- MODULE Movers -------------------------------
(***************************************************************************)
(* The movers of a level (doomfj.movers): lifts, perpetual lifts and       *)
(* one-shot floors, the lines that call them, and the switch textures that *)
(* tell the player so (doomfj.switches).  A lift is the door machine on    *)
(* the floor: state 0 its stored height, Top its lowest.  Each machine is  *)
(* stepped twice, by the model (World._movers_phase) and by the emitted    *)
(* cells (movercode), on the same calls.                                   *)
(*                                                                         *)
(* One action per part of the frame that touches them: the door phase      *)
(* (switch textures), the movers' phase, the use press, the player's move  *)
(* and the monsters; where things stand is a choice of lines hit.          *)
(***************************************************************************)
EXTENDS DoorMachine, FiniteSets

CONSTANTS
  Lift, Perpetual,      (* the lifts, and those a 53 line starts           *)
  LiftN, Stride,        (* a lift's stops, and how many it passes a frame  *)
  LiftWait,             (* frames at the bottom (26)                       *)
  PerpSub,              (* frames a stop of a perpetual lift (4)           *)
  Group, GroupN,        (* the floor groups and their states               *)
  GroupSub,             (* frames a stop; 0 for an instant group           *)
  BossGroup,            (* the groups A_BossDeath fires                    *)
  UseLine, WalkLine,    (* the lines that call them                        *)
  MonsterLine,          (* the walk lines monsters trigger (88)            *)
  Calls, Fires,         (* the lifts and groups of a line's tag            *)
  Switch,               (* the lines that wear a switch texture            *)
  SwitchKind,           (* "lift", "floor", "light", "door" or "shot"      *)
  Repeats,              (* the SR ones                                     *)
  ButtonFrames          (* frames an SR button stays out (35)              *)

ASSUME SpeedIsOne == Speed = 1

ASSUME MoverAssumption ==
  /\ Perpetual \subseteq Lift
  /\ LiftN \in [Lift -> 2 .. 16]
  /\ Stride \in [Lift -> Nat \ {0}]
  /\ LiftWait \in Nat \ {0} /\ PerpSub \in 1 .. 15
  /\ GroupN \in [Group -> 2 .. 16]
  /\ GroupSub \in [Group -> 0 .. 15]
  /\ \A g \in Group : GroupSub[g] = 0 => GroupN[g] = 2

(* A lift switch is a use line of plain lifts, a floor switch of a group.  *)
ASSUME LineAssumption ==
  /\ BossGroup \subseteq {g \in Group : GroupSub[g] > 0}
  /\ MonsterLine \subseteq WalkLine
  /\ Calls \in [UseLine \union WalkLine -> SUBSET Lift]
  /\ Fires \in [UseLine \union WalkLine -> SUBSET Group]
  /\ SwitchKind \in [Switch -> {"lift", "floor", "light", "door", "shot"}]
  /\ \A w \in Switch :
       /\ SwitchKind[w] \in {"lift", "floor"} => w \in UseLine
       /\ SwitchKind[w] = "lift" => Calls[w] \subseteq Lift \ Perpetual
       /\ SwitchKind[w] = "floor" => \E g \in Group : Fires[w] = {g}
  /\ Repeats \subseteq Switch /\ ButtonFrames \in Nat \ {0, 1}
  /\ \A w \in Switch : SwitchKind[w] = "lift" => w \in Repeats
  /\ \A w \in Switch : SwitchKind[w] = "floor" => w \notin Repeats

VARIABLES
  lift,      (* the model's lift cells (l_state, l_dir, l_sub, l_wait)     *)
  floor,     (* the model's floor groups [state, sub] (f_switch, f_sub)    *)
  fjLift,    (* the emitted lstate, ldir, lsub, lwait                      *)
  fjFloor,   (* the emitted fswitch vector                                 *)
  req,       (* the lifts called (l_req, lreq)                             *)
  on, time,  (* the switch textures' cells and SR countdowns               *)
  over,      (* g_leveldone                                                *)
  phase      (* the part of the frame that runs next                       *)

moverVars == <<lift, floor, fjLift, fjFloor, req, on, time, over, phase>>

machines == <<lift, floor, fjLift, fjFloor>>
textures == <<on, time>>

Phases == {"doors", "movers", "use", "move", "monsters"}

(* A lift as door_tic is handed it, and in the emitted lines' parameters.  *)
Kind(l) ==
  [n |-> LiftN[l], stride |-> Stride[l], stay |-> FALSE, wait |-> LiftWait,
   pass |-> 0, down |-> Stride[l], hold |-> FALSE]

Fj(k) == INSTANCE DoorMirrors WITH
  Configs <- {}, NoLatch <- 0, TopClamp <- FALSE, model <- 0, mirror <- 0, binary <- 0,
  cfg <- [kind |-> k, switches |-> <<>>, front |-> FALSE, requestable |-> TRUE,
          closeable |-> FALSE]

Still == [state |-> 0, sub |-> 0]

(***************************************************************************)
(* The rules (doomfj.movers)                                               *)
(***************************************************************************)

(* Slip: a trigger is taken wherever the lift is, as a door's press is.    *)
LiftTicAnywhere(l, st, triggered) == DoorTic(Kind(l), st, triggered, FALSE, FALSE)

(* lift_tic: a trigger counts at rest at the top.                          *)
LiftTic(l, st, triggered) ==
  DoorTic(Kind(l), st, triggered /\ st.state = 0, FALSE, FALSE)

Bottom(l) == LiftN[l] - 1

PerpEnd(state) == [state |-> state, dir |-> IDLE, sub |-> 0, wait |-> LiftWait]

PerpMove(l, st, next) ==
  IF st.sub > 1 THEN [st EXCEPT !.sub = @ - 1]
  ELSE IF next \in {0, Bottom(l)} THEN PerpEnd(next)
  ELSE [st EXCEPT !.state = next, !.sub = PerpSub]

PerpTurn(st) ==
  [st EXCEPT !.dir = IF st.state = 0 THEN OPENING ELSE CLOSING,
             !.sub = PerpSub, !.wait = 0]

(* perpetual_tic                                                           *)
PerpTic(l, st, triggered) ==
  LET go == [st EXCEPT !.dir = OPENING, !.sub = PerpSub] IN
  CASE SwitchReady(st) -> IF triggered THEN PerpMove(l, go, st.state + 1) ELSE st
    [] st.dir = OPENING -> PerpMove(l, st, st.state + 1)
    [] st.dir = CLOSING -> PerpMove(l, st, st.state - 1)
    [] st.dir = IDLE /\ st.wait > 1 -> [st EXCEPT !.wait = @ - 1]
    [] st.dir = IDLE /\ st.wait = 1 -> PerpTurn(st)

(* Slip: a second line of the tag starts the group's timer again.          *)
FloorTriggerAgain(g, f) ==
  IF GroupSub[g] = 0 THEN [f EXCEPT !.state = 1] ELSE [f EXCEPT !.sub = GroupSub[g]]

FloorTrigger(g, f) ==
  IF f # Still THEN f
  ELSE IF GroupSub[g] = 0 THEN [f EXCEPT !.state = 1] ELSE [f EXCEPT !.sub = GroupSub[g]]

(* Slip: the timer is not set again.                                       *)
FloorTicOnce(g, f) ==
  IF f.sub = 0 THEN f
  ELSE IF f.sub > 1 THEN [f EXCEPT !.sub = @ - 1]
  ELSE [state |-> f.state + 1, sub |-> 0]

FloorTic(g, f) ==
  IF f.sub = 0 THEN f
  ELSE IF f.sub > 1 THEN [f EXCEPT !.sub = @ - 1]
  ELSE [state |-> f.state + 1,
        sub |-> IF f.state + 1 < GroupN[g] - 1 THEN GroupSub[g] ELSE 0]

Fired(f) == f # Still

(***************************************************************************)
(* The emitted lines (movercode), on nibble cells                          *)
(***************************************************************************)

EmittedLift(l, st, triggered) ==
  LET Pressed == IF triggered /\ st.state = 0 THEN Fj(Kind(l))!EmittedPress(st) ELSE st
  IN  Fj(Kind(l))!EmittedMotion(Pressed, FALSE)

(* One count of the step timer: at 0 a stop, and an end by equality.       *)
EmittedPerpStep(st, next, end) ==
  IF (st.sub - 1) % 16 # 0 THEN [st EXCEPT !.sub = (@ - 1) % 16]
  ELSE IF next = end THEN PerpEnd(next)
  ELSE [st EXCEPT !.state = next, !.sub = PerpSub]

(* Slip: the wait is not looked at before a request starts the lift.       *)
EmittedPerpStartAtEnd(st, triggered) ==
  IF triggered /\ st.dir = IDLE THEN [st EXCEPT !.dir = OPENING, !.sub = PerpSub] ELSE st

EmittedPerpStart(st, triggered) ==
  IF triggered /\ st.dir = IDLE /\ st.wait = 0
  THEN [st EXCEPT !.dir = OPENING, !.sub = PerpSub] ELSE st

EmittedPerpMotion(l, st) ==
  IF st.dir = IDLE
  THEN IF st.wait = 0 THEN st
       ELSE IF st.wait > 1 THEN [st EXCEPT !.wait = @ - 1]
       ELSE [st EXCEPT !.wait = 0, !.sub = PerpSub,
                       !.dir = IF st.state = 0 THEN OPENING ELSE CLOSING]
  ELSE IF st.dir = OPENING THEN EmittedPerpStep(st, (st.state + 1) % 16, Bottom(l))
  ELSE EmittedPerpStep(st, (st.state - 1) % 16, 0)

EmittedPerp(l, st, triggered) == EmittedPerpMotion(l, EmittedPerpStart(st, triggered))

(* _fire_lines                                                             *)
EmittedFire(g, f) ==
  IF GroupSub[g] = 0 THEN [f EXCEPT !.state = 1]
  ELSE IF f.state = 0 /\ f.sub = 0 THEN [f EXCEPT !.sub = GroupSub[g]] ELSE f

(* floor_tic_lines                                                         *)
EmittedFloor(g, f) ==
  IF GroupSub[g] = 0 \/ f.sub = 0 THEN f
  ELSE IF f.sub > 1 THEN [f EXCEPT !.sub = @ - 1]
  ELSE [state |-> (f.state + 1) % 16,
        sub |-> IF (f.state + 1) % 16 = GroupN[g] - 1 THEN 0 ELSE GroupSub[g]]

(***************************************************************************)
(* The frame                                                               *)
(***************************************************************************)

MoversInit ==
  /\ lift = [l \in Lift |-> InitialDoor] /\ fjLift = lift
  /\ floor = [g \in Group |-> Still] /\ fjFloor = floor
  /\ req = {}
  /\ on = {} /\ time = [w \in Repeats |-> 0]
  /\ over = FALSE /\ phase = "doors"

(* switches.press on each of `pressed`: one already on stays as it is.     *)
Pressed(pressed, onNow, timeNow) ==
  /\ on' = onNow \union pressed
  /\ time' = [w \in Repeats |-> IF w \in pressed \ onNow THEN ButtonFrames ELSE timeNow[w]]

(* switches.countdown: the buttons whose last frame this is swap back.     *)
CountedOn == on \ {w \in Repeats : time[w] = 1}

Counted == [w \in Repeats |-> IF time[w] > 0 THEN time[w] - 1 ELSE 0]

(* switch_doors: `ready` are the door switches a held use presses whose    *)
(* doors are at rest.                                                      *)
DoorsPhase ==
  /\ phase = "doors" /\ ~over
  /\ \E ready \in SUBSET {w \in Switch : SwitchKind[w] = "door"} :
       Pressed(ready, CountedOn, Counted)
  /\ phase' = "movers"
  /\ UNCHANGED <<machines, req, over>>

(* _movers_phase                                                           *)
MoversPhase ==
  /\ phase = "movers"
  /\ lift' = [l \in Lift |-> IF l \in Perpetual THEN PerpTic(l, lift[l], l \in req)
                             ELSE LiftTic(l, lift[l], l \in req)]
  /\ fjLift' = [l \in Lift |-> IF l \in Perpetual THEN EmittedPerp(l, fjLift[l], l \in req)
                               ELSE EmittedLift(l, fjLift[l], l \in req)]
  /\ floor' = [g \in Group |-> IF GroupSub[g] > 0 THEN FloorTic(g, floor[g]) ELSE floor[g]]
  /\ fjFloor' = [g \in Group |-> EmittedFloor(g, fjFloor[g])]
  /\ req' = {}
  /\ phase' = "use"
  /\ UNCHANGED <<textures, over>>

(* Each group of `groups` is fired.                                        *)
Fire(groups) ==
  /\ floor' = [g \in Group |-> IF g \in groups THEN FloorTrigger(g, floor[g]) ELSE floor[g]]
  /\ fjFloor' = [g \in Group |-> IF g \in groups THEN EmittedFire(g, fjFloor[g]) ELSE fjFloor[g]]

CalledBy(lines) == UNION {Calls[l] : l \in lines}
FiredBy(lines) == UNION {Fires[l] : l \in lines}

(* Slip: a lift switch answers wherever its lifts are.                     *)
AnswersAlways(w) ==
  \/ SwitchKind[w] \in {"light", "lift"}
  \/ SwitchKind[w] = "floor" /\ \E g \in Fires[w] : floor[g].sub = 0

(* use_presses: a lift of the tag at rest, or the group not moving.        *)
Answers(w) ==
  \/ SwitchKind[w] = "light"
  \/ SwitchKind[w] = "lift" /\ \E l \in Calls[w] : lift[l].state = 0
  \/ SwitchKind[w] = "floor" /\ \E g \in Fires[w] : floor[g].sub = 0

(* _use_lines: the switch textures first, then the exit, which ends the    *)
(* press, then the lifts and the floors.  No press is an empty hit.        *)
UseLines ==
  /\ phase = "use"
  /\ \E hit \in SUBSET (UseLine \union {w \in Switch : SwitchKind[w] = "light"}), exit \in BOOLEAN :
       /\ Pressed({w \in hit \cap Switch : Answers(w)}, on, time)
       /\ over' = exit
       /\ IF exit THEN UNCHANGED <<machines, req>>
          ELSE /\ req' = req \union CalledBy(hit \cap UseLine)
               /\ Fire(FiredBy(hit \cap UseLine))
               /\ UNCHANGED <<lift, fjLift>>
  /\ phase' = "move"

(* The weapon's shots at GR lines, then _walkover: after a press of the    *)
(* exit too.                                                               *)
Move ==
  /\ phase = "move"
  /\ \E crossed \in SUBSET WalkLine, exit \in BOOLEAN,
        shot \in SUBSET {w \in Switch : SwitchKind[w] = "shot"} :
       /\ Pressed(shot, on, time)
       /\ req' = req \union CalledBy(crossed)
       /\ Fire(FiredBy(crossed))
       /\ over' = (over \/ exit)
  /\ phase' = IF over' THEN "doors" ELSE "monsters"
  /\ UNCHANGED <<lift, fjLift>>

(* The monsters' world: their moves cross 88 lines, a boss may die.        *)
Monsters ==
  /\ phase = "monsters"
  /\ \E crossed \in SUBSET MonsterLine, boss \in SUBSET BossGroup :
       /\ req' = req \union CalledBy(crossed)
       /\ Fire(boss)
  /\ phase' = "doors"
  /\ UNCHANGED <<lift, fjLift, textures, over>>

(* NEW GAME or use after death: the restart block, at the start of a tic.  *)
Restart ==
  /\ phase = "doors"
  /\ lift' = [l \in Lift |-> InitialDoor] /\ fjLift' = [l \in Lift |-> InitialDoor]
  /\ floor' = [g \in Group |-> Still] /\ fjFloor' = [g \in Group |-> Still]
  /\ req' = {}
  /\ on' = {} /\ time' = [w \in Repeats |-> 0]
  /\ over' = FALSE
  /\ UNCHANGED phase

MoversNext == DoorsPhase \/ MoversPhase \/ UseLines \/ Move \/ Monsters \/ Restart

(* The frames go on while the level is not over: World.tic runs its phases *)
(* to the end on every tic (each of them changes the phase).               *)
GoOn == (phase = "doors" => ~over) /\ phase' \in Phases
MoversSpec == MoversInit /\ [][MoversNext]_moverVars /\ WF_phase(GoOn)

(***************************************************************************)
(* Properties                                                              *)
(***************************************************************************)

(* The cells keep their ranges; the emitted nibbles do not wrap.           *)
MoversTypeOK ==
  /\ \A l \in Lift : \A st \in {lift[l], fjLift[l]} :
       /\ st.state \in 0 .. Bottom(l) /\ st.dir \in {IDLE, OPENING, CLOSING}
       /\ st.sub \in 0 .. (IF l \in Perpetual THEN PerpSub ELSE Speed)
       /\ st.wait \in 0 .. LiftWait
  /\ \A g \in Group : \A f \in {floor[g], fjFloor[g]} :
       f.state \in 0 .. GroupN[g] - 1 /\ f.sub \in 0 .. GroupSub[g]
  /\ req \subseteq Lift /\ on \subseteq Switch
  /\ time \in [Repeats -> 0 .. ButtonFrames]
  /\ over \in BOOLEAN /\ phase \in Phases

(* movers.lift_tic: "AT REST IS STATE 0 ... so the fj tests one nibble": a *)
(* plain lift is in state 0 exactly when it neither moves nor waits.       *)
RestIsTop ==
  \A l \in Lift \ Perpetual : lift[l].state = 0 <=> SwitchReady(lift[l])

(* The emitted machines step as the model's, frame for frame, no cell of   *)
(* either leaves its range, and the one nibble the emitted code tests for  *)
(* a lift at rest tells it.                                                *)
MoversInStep == MoversTypeOK /\ RestIsTop /\ fjLift = lift /\ fjFloor = floor

(* An SR switch shows its other texture exactly while its countdown runs:  *)
(* none stays out for ever, and none is out without a countdown.           *)
ButtonsRun == \A w \in Repeats : w \in on <=> time[w] > 0

(* switches.py: a switch that a use starts something on shows its other    *)
(* texture.  When an SR lift button has just come out and the movers' next *)
(* phase is done, a lift of its tag rides; an S1 floor switch that is out  *)
(* has fired its group, unless that press also ended the level.  And no    *)
(* button stays out for ever.                                              *)
SwitchTellsTruth ==
  /\ ButtonsRun
  /\ \A w \in on :
       /\ SwitchKind[w] = "lift" /\ phase = "use" /\ time[w] = ButtonFrames - 1 =>
            \E l \in Calls[w] : lift[l].state # 0
       /\ SwitchKind[w] = "floor" /\ ~over =>
            \A g \in Fires[w] : Fired(floor[g])

(* EV_DoFloor's one shot: a group only goes on, a stop at a time, a second *)
(* line of its tag does not set it back, and once arrived it stays; only   *)
(* the level start undoes it.                                              *)
FloorRunsOnce ==
  [][ \/ Restart
      \/ \A g \in Group :
           /\ floor'[g].state \in {floor[g].state, floor[g].state + 1}
           /\ Fired(floor[g]) => Fired(floor'[g])
           /\ floor[g].state = floor'[g].state /\ Fired(floor[g]) =>
                floor'[g].sub <= floor[g].sub
           /\ floor[g].state = GroupN[g] - 1 => floor'[g] = floor[g] ]_moverVars

RideOf(st, l) ==
  CASE st.dir = OPENING -> "down"
    [] st.dir = CLOSING -> "up"
    [] SwitchReady(st) -> "rest"
    [] st.dir = IDLE /\ st.wait > 0 /\ st.state = Bottom(l) -> "low"
    [] OTHER -> "high"

PlatOf(l) == INSTANCE Plat WITH
  Depth <- Bottom(l), Wait <- LiftWait, Perpetual <- l \in Perpetual,
  ride <- RideOf(lift[l], l), depth <- lift[l].state, left <- lift[l].wait,
  called <- l \in req

PlatsStart == \A l \in Lift : PlatOf(l)!Init
PlatsStep  == \A l \in Lift : PlatOf(l)!Next \/ UNCHANGED PlatOf(l)!plat

(* Every lift rides as Plat says: PlatOf(l)!Spec for every lift l.         *)
ImplementsPlat == PlatsStart /\ [][PlatsStep]_moverVars

(* A lift called away from its rest is back, or the level is over: nobody  *)
(* who waits for it waits for ever.                                        *)
LiftReturns == \A l \in Lift \ Perpetual : lift[l].state # 0 ~> (lift[l].state = 0 \/ over)

(* A perpetual lift comes up again and again.                              *)
PerpetualTurns ==
  \A l \in Perpetual : lift[l].state = Bottom(l) ~> (lift[l].state = 0 \/ over)

(* A fired floor arrives.                                                  *)
FloorArrives ==
  \A g \in Group : Fired(floor[g]) ~>
    (floor[g].state = GroupN[g] - 1 \/ over \/ floor[g] = Still)

(* Whatever was set going comes to its end, or the level does: no order of *)
(* calls, waits and turns leaves a mover on its way for ever.              *)
MoversSettle == LiftReturns /\ PerpetualTurns /\ FloorArrives
=============================================================================
