---------------------------- MODULE Doors_proofs ----------------------------
(***************************************************************************)
(* Proofs about Doors, for every level: any doors, things, lines, switches *)
(* and kinds the assumptions of Doors admit.                               *)
(*                                                                         *)
(* The inductive invariant is IInv: the types, the shape of a door's cells *)
(* (without which `sub` and `wait` could be decremented below zero), and   *)
(* that nobody is caught.                                                  *)
(* The first lemmas are about one door's tic (DoorMachine).                *)
(***************************************************************************)
EXTENDS Doors, TLAPS

(* A press leaves a door its cells and its shape: opening, or idle at its  *)
(* top.                                                                    *)
LEMMA PressShape ==
  ASSUME NEW k, KindOK(k), NEW st \in DoorCells(k), NEW mark \in BOOLEAN
  PROVE  /\ Press(k, st, mark) \in DoorCells(k)
         /\ DoorShape(k, Press(k, st, mark))
         /\ Press(k, st, mark).dir \in {IDLE, OPENING}
         /\ Press(k, st, mark).state = st.state
  <1> USE SpeedAssumption DEF KindOK, DoorCells, Course, Top, IDLE, OPENING, CLOSING, STAY_MARK
  <1>1. CASE st.state = Top(k) /\ ~mark
    BY <1>1 DEF Press, DoorShape, TopWait
  <1>2. CASE ~(st.state = Top(k) /\ ~mark)
    BY <1>2 DEF Press, DoorShape
  <1> QED BY <1>1, <1>2

(* One frame of motion keeps the cells and the shape.                      *)
LEMMA MotionShape ==
  ASSUME NEW k, KindOK(k), NEW st \in DoorCells(k), DoorShape(k, st),
         NEW blocked \in BOOLEAN
  PROVE  Motion(k, st, blocked) \in DoorCells(k) /\ DoorShape(k, Motion(k, st, blocked))
  <1> USE SpeedAssumption DEF KindOK, DoorCells, Course, Top, IDLE, OPENING, CLOSING, STAY_MARK
  <1>1. CASE st.dir # IDLE /\ st.sub # 1
    BY <1>1 DEF Motion, DoorShape
  <1>2. CASE ~(st.dir # IDLE /\ st.sub # 1) /\ st.dir = OPENING
    BY <1>2 DEF Motion, DoorShape, StepUp, ArrivalWait, TopWait
  <1>3. CASE ~(st.dir # IDLE /\ st.sub # 1) /\ st.dir = CLOSING
    BY <1>3 DEF Motion, DoorShape, StepDown
  <1>4. CASE st.dir = IDLE
    BY <1>4 DEF Motion, DoorShape, WaitOut
  <1> QED BY <1>1, <1>2, <1>3, <1>4

(* A tic of the door machine keeps the cells and the shape.                *)
LEMMA DoorTicShape ==
  ASSUME NEW k, KindOK(k), NEW st \in DoorCells(k), DoorShape(k, st),
         NEW used \in BOOLEAN, NEW blocked \in BOOLEAN, NEW mark \in BOOLEAN
  PROVE  /\ DoorTic(k, st, used, blocked, mark) \in DoorCells(k)
         /\ DoorShape(k, DoorTic(k, st, used, blocked, mark))
  BY PressShape, MotionShape DEF DoorTic

(* A door blocked whenever it is closing and passable stays passable.      *)
LEMMA DoorTicKeepsPassable ==
  ASSUME NEW k, KindOK(k), NEW st \in DoorCells(k), DoorShape(k, st),
         NEW used \in BOOLEAN, NEW blocked \in BOOLEAN, NEW mark \in BOOLEAN,
         st.state >= k.pass,
         st.dir = CLOSING => blocked
  PROVE  DoorTic(k, st, used, blocked, mark).state >= k.pass
  <1> USE SpeedAssumption DEF KindOK, DoorCells, Course, Top, IDLE, OPENING, CLOSING, STAY_MARK
  <1>1. ASSUME NEW s \in DoorCells(k), s.state >= k.pass, s.dir = CLOSING => blocked
        PROVE  Motion(k, s, blocked).state >= k.pass
    <2>1. CASE s.dir # IDLE /\ s.sub # 1
      BY <2>1, <1>1 DEF Motion
    <2>2. CASE ~(s.dir # IDLE /\ s.sub # 1) /\ s.dir = OPENING
      BY <2>2, <1>1 DEF Motion, StepUp
    <2>3. CASE ~(s.dir # IDLE /\ s.sub # 1) /\ s.dir = CLOSING
      BY <2>3, <1>1 DEF Motion, StepDown, LeavesPass
    <2>4. CASE s.dir = IDLE
      BY <2>4, <1>1 DEF Motion, WaitOut
    <2> QED BY <2>1, <2>2, <2>3, <2>4
  <1>2. CASE used /\ st.dir # OPENING
    BY <1>1, <1>2, PressShape DEF DoorTic
  <1>3. CASE ~(used /\ st.dir # OPENING)
    BY <1>1, <1>3 DEF DoorTic
  <1> QED BY <1>2, <1>3

(* A used tic leaves a door on its way up or at its top.                   *)
LEMMA UsedTicOpens ==
  ASSUME NEW k, KindOK(k), NEW st \in DoorCells(k), DoorShape(k, st),
         NEW used \in BOOLEAN, used, NEW blocked \in BOOLEAN, NEW mark \in BOOLEAN
  PROVE  \/ DoorTic(k, st, used, blocked, mark).dir = OPENING
         \/ DoorTic(k, st, used, blocked, mark).state = Top(k)
  <1>0. /\ Press(k, st, mark) \in DoorCells(k)
        /\ \/ Press(k, st, mark).dir = OPENING
           \/ Press(k, st, mark).dir = IDLE /\ Press(k, st, mark).state = Top(k)
    BY PressShape DEF Press, Course
  <1> USE SpeedAssumption DEF KindOK, DoorCells, Course, Top, IDLE, OPENING, CLOSING, STAY_MARK
  <1>1. ASSUME NEW s \in DoorCells(k), s.dir = OPENING
        PROVE  \/ Motion(k, s, blocked).dir = OPENING
               \/ Motion(k, s, blocked).state = Top(k)
    BY <1>1 DEF Motion, StepUp
  <1>2. ASSUME NEW s \in DoorCells(k), s.dir = IDLE, s.state = Top(k)
        PROVE  Motion(k, s, blocked).state = Top(k)
    BY <1>2 DEF Motion, WaitOut
  <1>3. CASE st.dir = OPENING
    BY <1>1, <1>3 DEF DoorTic
  <1>4. CASE st.dir # OPENING /\ OpenForGood(k, st)
    BY <1>4 DEF DoorTic, OpenForGood
  <1>5. CASE st.dir # OPENING /\ ~OpenForGood(k, st)
    <2>1. DoorTic(k, st, used, blocked, mark) = Motion(k, Press(k, st, mark), blocked)
      BY <1>5 DEF DoorTic
    <2> QED BY <1>0, <1>1, <1>2, <2>1
  <1> QED BY <1>3, <1>4, <1>5

(* An open-stay door that is not closing does not start to, and does not   *)
(* come down.                                                              *)
LEMMA StayTic ==
  ASSUME NEW k, KindOK(k), NEW st \in DoorCells(k), DoorShape(k, st), k.stay,
         st.dir # CLOSING, st.dir = IDLE => st.wait = 0,
         NEW used \in BOOLEAN, NEW blocked \in BOOLEAN, NEW mark \in BOOLEAN
  PROVE  /\ DoorTic(k, st, used, blocked, mark).dir # CLOSING
         /\ DoorTic(k, st, used, blocked, mark).dir = IDLE
              => DoorTic(k, st, used, blocked, mark).wait = 0
         /\ DoorTic(k, st, used, blocked, mark).state >= st.state
  <1>0. Press(k, st, mark) \in DoorCells(k) /\ Press(k, st, mark).state = st.state
    BY PressShape
  <1> USE SpeedAssumption DEF KindOK, DoorCells, Course, Top, IDLE, OPENING, CLOSING, STAY_MARK
  <1>1. ASSUME NEW s \in DoorCells(k), s.dir # CLOSING, s.dir = IDLE => s.wait = 0,
               s.dir = OPENING => s.wait \in {0, 1}
        PROVE  /\ Motion(k, s, blocked).dir # CLOSING
               /\ Motion(k, s, blocked).dir = IDLE => Motion(k, s, blocked).wait = 0
               /\ Motion(k, s, blocked).state >= s.state
    BY <1>1 DEF Motion, StepUp, ArrivalWait, TopWait
  <1>2. CASE used /\ st.dir # OPENING /\ ~OpenForGood(k, st)
    <2>1. /\ Press(k, st, mark).dir # CLOSING
          /\ Press(k, st, mark).dir = IDLE => Press(k, st, mark).wait = 0
          /\ Press(k, st, mark).dir = OPENING => Press(k, st, mark).wait \in {0, 1}
      BY DEF Press, TopWait
    <2> QED BY <1>0, <1>1, <1>2, <2>1 DEF DoorTic
  <1>3. CASE used /\ st.dir # OPENING /\ OpenForGood(k, st)
    BY <1>3 DEF DoorTic
  <1>4. CASE ~(used /\ st.dir # OPENING)
    BY <1>1, <1>4 DEF DoorTic, DoorShape
  <1> QED BY <1>2, <1>3, <1>4

IInv == TypeOK /\ DoorsShaped /\ NobodyCaught

(***************************************************************************)
(* The level                                                               *)
(***************************************************************************)

(* What a door is asked is a Boolean, whatever the level.                  *)
LEMMA Booleans ==
  ASSUME NEW d \in Door
  PROVE  /\ Pressed(d) \in BOOLEAN
         /\ Blocked(d) \in BOOLEAN
         /\ StayPress(d) \in BOOLEAN
  BY DEF Pressed, FrontPress, Blocked, StayPress

(* The latches a press spends are latches.                                 *)
LEMMA LatchesTyped == LatchesPressed \subseteq Latch
  BY DEF LatchesPressed

(* A door at the level start is in range and shaped.                       *)
LEMMA InitDoor ==
  ASSUME NEW d \in Door
  PROVE  /\ InitialDoor \in DoorCells(Kind[d])
         /\ DoorShape(Kind[d], InitialDoor)
         /\ Kind[d].pass \in Nat
         /\ InitialDoor.state = 0
  BY SpeedAssumption, KindAssumption
  DEF KindOK, DoorCells, DoorShape, InitialDoor, Top, IDLE, OPENING, CLOSING

(* The level start is safe: whoever starts in a doorway fits it shut.      *)
LEMMA StartIInv ==
  ASSUME door = [d \in Door |-> InitialDoor], at = Start, alive = Thing
  PROVE  /\ \A d \in Door : door[d] \in DoorCells(Kind[d])
         /\ DoorsShaped /\ NobodyCaught
  <1>1. \A d \in Door : door[d] \in DoorCells(Kind[d])
    BY InitDoor
  <1>2. DoorsShaped
    BY InitDoor DEF DoorsShaped
  <1>3. NobodyCaught
    BY InitDoor, StartAssumption DEF NobodyCaught, Touched, Passable
  <1> QED BY <1>1, <1>2, <1>3

(* The inductive invariant holds at the level start.                       *)
THEOREM InitIInv == Init => IInv
  <1> SUFFICES ASSUME Init PROVE IInv OBVIOUS
  <1>1. DoorsShaped /\ NobodyCaught /\ \A d \in Door : door[d] \in DoorCells(Kind[d])
    BY StartIInv DEF Init
  <1>2. TypeOK
    BY <1>1, PlaceAssumption DEF Init, TypeOK
  <1> QED BY <1>1, <1>2 DEF IInv

(* A thing moved to a place that fits it is not caught there.              *)
LEMMA MoveIInv ==
  ASSUME IInv, NEW t \in Thing, NEW p \in Place, Fits(p),
         at' = [at EXCEPT ![t] = p], alive' = alive,
         \A d \in Door : door'[d].state = door[d].state
  PROVE  NobodyCaught'
  <1> SUFFICES ASSUME NEW d \in Door, NEW x \in alive, at'[x] \in TouchedFrom[d]
               PROVE  door'[d].state >= Kind[d].pass
    BY DEF NobodyCaught, Touched, Passable
  <1>1. x \in Thing /\ at \in [Thing -> Place]
    BY DEF IInv, TypeOK
  <1>2. CASE x = t
    BY <1>1, <1>2 DEF Fits, Passable
  <1>3. CASE x # t
    BY <1>1, <1>3 DEF IInv, NobodyCaught, Touched, Passable
  <1> QED BY <1>2, <1>3

(* The walk-over lines keep every door where it is, in cells and in shape. *)
LEMMA WalkoverIInv ==
  ASSUME IInv, NEW e \in Adjacent, Walkover(e)
  PROVE  /\ DOMAIN door' = Door
         /\ \A d \in Door : /\ door'[d] \in DoorCells(Kind[d])
                            /\ DoorShape(Kind[d], door'[d])
                            /\ door'[d].state = door[d].state
         /\ fired' \subseteq WalkOnce \union Latch
         /\ req' \subseteq Door
  <1>1. DOMAIN door' = Door
    BY DEF Walkover
  <1>2. ASSUME NEW d \in Door
        PROVE  /\ door'[d] \in DoorCells(Kind[d])
               /\ DoorShape(Kind[d], door'[d])
               /\ door'[d].state = door[d].state
    <2>1. door[d] \in DoorCells(Kind[d]) /\ DoorShape(Kind[d], door[d]) /\ KindOK(Kind[d])
      BY KindAssumption DEF IInv, TypeOK, DoorsShaped
    <2>2. CASE d \in DoorsOf(Acting(e, "close"))
      <3>1. PICK l \in Acting(e, "close") : LineDoor[l] = d
        BY <2>2 DEF DoorsOf
      <3>2. SwitchReady(door[d]) /\ door[d].state > 0
        BY <3>1 DEF Acting, RepeatAct
      <3>3. door'[d] = CloseState(door[d])
        BY <2>2 DEF Walkover
      <3> QED BY <2>1, <3>2, <3>3, SpeedAssumption
              DEF CloseState, Course, KindOK, DoorCells, DoorShape, Top, IDLE, OPENING, CLOSING
    <2>3. CASE d \notin DoorsOf(Acting(e, "close"))
      BY <2>1, <2>3 DEF Walkover
    <2> QED BY <2>2, <2>3
  <1>3. fired' \subseteq WalkOnce \union Latch
    BY DEF Walkover, OnceCrossed, IInv, TypeOK
  <1>4. req' \subseteq Door
    BY LineAssumption DEF Walkover, OnceCrossed, Acting, DoorsOf, Trigger, IInv, TypeOK
  <1> QED BY <1>1, <1>2, <1>3, <1>4

(* The doors phase: every door takes one tic of the machine.               *)
LEMMA DoorsPhaseIInv == IInv /\ DoorsPhase => IInv'
  <1> SUFFICES ASSUME IInv, DoorsPhase PROVE IInv'
    OBVIOUS
  <1>1. ASSUME NEW d \in Door
        PROVE  /\ door'[d] \in DoorCells(Kind[d])
               /\ DoorShape(Kind[d], door'[d])
               /\ Touched(d) => door'[d].state >= Kind[d].pass
    <2>1. /\ KindOK(Kind[d]) /\ door[d] \in DoorCells(Kind[d])
          /\ DoorShape(Kind[d], door[d])
      BY KindAssumption DEF IInv, TypeOK, DoorsShaped
    <2>2. door'[d] = DoorTic(Kind[d], door[d], Pressed(d), Blocked(d), StayPress(d))
      BY DEF DoorsPhase
    <2>3. door'[d] \in DoorCells(Kind[d]) /\ DoorShape(Kind[d], door'[d])
      BY <2>1, <2>2, Booleans, DoorTicShape
    <2>4. ASSUME Touched(d) PROVE door'[d].state >= Kind[d].pass
      <3>1. door[d].state >= Kind[d].pass
        BY <2>4 DEF IInv, NobodyCaught, Passable
      <3>2. door[d].dir = CLOSING => Blocked(d)
        BY <2>4, <3>1 DEF Blocked, Passable
      <3> QED BY <2>1, <2>2, <3>1, <3>2, Booleans, DoorTicKeepsPassable
    <2> QED BY <2>3, <2>4
  <1>2. TypeOK'
    BY <1>1, LatchesTyped DEF DoorsPhase, IInv, TypeOK
  <1>3. DoorsShaped'
    BY <1>1 DEF DoorsShaped
  <1>4. NobodyCaught'
    BY <1>1 DEF DoorsPhase, NobodyCaught, Touched, Passable
  <1> QED BY <1>2, <1>3, <1>4 DEF IInv

(* Every action of a tic preserves the inductive invariant.                *)
THEOREM NextIInv == IInv /\ [Next]_vars => IInv'
  <1> SUFFICES ASSUME IInv, [Next]_vars PROVE IInv'
    OBVIOUS
  <1> USE DEF IInv
  <1>1. CASE Restart
    <2>1. /\ \A d \in Door : door'[d] \in DoorCells(Kind[d])
          /\ DoorsShaped' /\ NobodyCaught'
      BY <1>1, InitDoor, StartAssumption
      DEF Restart, DoorsShaped, NobodyCaught, Touched, Passable
    <2>2. TypeOK'
      BY <1>1, <2>1, PlaceAssumption DEF Restart, TypeOK
    <2> QED BY <2>1, <2>2
  <1>2. CASE DoorsPhase
    BY <1>2, DoorsPhaseIInv
  <1>3. ASSUME NEW e \in Adjacent, PlayerStep(e) PROVE IInv'
    <2>1. CASE Fits(e[2])
      <3>1. Walkover(e) /\ at' = [at EXCEPT ![Player] = e[2]] /\ alive' = alive
        BY <1>3, <2>1 DEF PlayerStep
      <3>2. e[2] \in Place /\ Player \in Thing
        BY PlaceAssumption DEF Thing
      <3>3. TypeOK'
        BY <1>3, <3>1, <3>2, WalkoverIInv DEF PlayerStep, TypeOK
      <3>4. DoorsShaped' /\ NobodyCaught'
        BY <2>1, <3>1, <3>2, WalkoverIInv, MoveIInv DEF DoorsShaped
      <3> QED BY <3>3, <3>4
    <2>2. CASE ~Fits(e[2])
      BY <1>3, <2>2 DEF PlayerStep, TypeOK, DoorsShaped, NobodyCaught, Touched, Passable
    <2> QED BY <2>1, <2>2
  <1>4. ASSUME NEW m \in Monster, NEW e \in Adjacent, MonsterStep(m, e) PROVE IInv'
    <2>1. m \in Thing /\ e[2] \in Place /\ Fits(e[2])
      BY <1>4, PlaceAssumption DEF MonsterStep, Thing
    <2>2. NobodyCaught'
      BY <1>4, <2>1, MoveIInv DEF MonsterStep
    <2> QED BY <1>4, <2>1, <2>2 DEF MonsterStep, TypeOK, DoorsShaped
  <1>5. ASSUME NEW m \in Monster, NEW d \in Door, MonsterPress(m, d) PROVE IInv'
    BY <1>5 DEF MonsterPress, TypeOK, DoorsShaped, NobodyCaught, Touched, Passable
  <1>6. ASSUME NEW d \in Door, PlayerShoots(d) PROVE IInv'
    BY <1>6 DEF PlayerShoots, TypeOK, DoorsShaped, NobodyCaught, Touched, Passable
  <1>7. ASSUME NEW t \in Thing, Dies(t) PROVE IInv'
    BY <1>7 DEF Dies, TypeOK, DoorsShaped, NobodyCaught, Touched, Passable
  <1>8. CASE PlayerStays
    BY <1>8 DEF PlayerStays, TypeOK, DoorsShaped, NobodyCaught, Touched, Passable
  <1>9. CASE DeathThink
    BY <1>9 DEF DeathThink, TypeOK, DoorsShaped, NobodyCaught, Touched, Passable
  <1>10. CASE EndTic
    BY <1>10 DEF EndTic, TypeOK, DoorsShaped, NobodyCaught, Touched, Passable
  <1>11. CASE UNCHANGED vars
    BY <1>11 DEF vars, TypeOK, DoorsShaped, NobodyCaught, Touched, Passable
  <1> QED
    BY <1>1, <1>2, <1>3, <1>4, <1>5, <1>6, <1>7, <1>8, <1>9, <1>10, <1>11 DEF Next

(* So it holds in every state of every behaviour.                          *)
THEOREM SpecIInv == Spec => []IInv
  BY InitIInv, NextIInv, PTL DEF Spec

(* Types hold for every level.                                             *)
THEOREM SpecTypeOK == Spec => []TypeOK
  BY SpecIInv, PTL DEF IInv

(* The door machine keeps its shape for every level.                       *)
THEOREM SpecDoorsShaped == Spec => []DoorsShaped
  BY SpecIInv, PTL DEF IInv

(* No door of any level ever shuts on a live thing.                        *)
THEOREM SpecNobodyCaught == Spec => []NobodyCaught
  BY SpecIInv, PTL DEF IInv

(***************************************************************************)
(* Every door is a doorway                                                 *)
(***************************************************************************)

(* One thing moved, no door past its passable states: the thing enters the *)
(* doorway, leaves it, or the doorway does not see the step.               *)
LEMMA MoveDoorway ==
  ASSUME IInv, NEW d \in Door, NEW t \in Thing, NEW p \in Place, Fits(p),
         at' = [at EXCEPT ![t] = p], alive' = alive,
         Passable(d)' = Passable(d)
  PROVE  (\E x \in Thing : Way(d)!Enter(x) \/ Way(d)!Leave(x)) \/ UNCHANGED Way(d)!way
  <1> USE DEF IInv, TypeOK
  <1>1. CASE t \notin alive
    <2>1. Inside(d)' = Inside(d)
      BY <1>1 DEF Inside
    <2> QED BY <2>1 DEF Way!way
  <1>2. CASE t \in alive /\ p \in TouchedFrom[d]
    <2>1. Inside(d)' = Inside(d) \union {t}
      BY <1>2 DEF Inside
    <2>2. Passable(d)
      BY <1>2 DEF Fits
    <2> QED BY <2>1, <2>2 DEF Way!Enter
  <1>3. CASE t \in alive /\ p \notin TouchedFrom[d]
    <2>1. Inside(d)' = Inside(d) \ {t}
      BY <1>3 DEF Inside
    <2> QED BY <2>1 DEF Way!Leave
  <1> QED BY <1>1, <1>2, <1>3

(* A doors phase opens a doorway, shuts it empty, or does not show.        *)
LEMMA DoorsPhaseDoorway ==
  ASSUME IInv, IInv', DoorsPhase, NEW d \in Door
  PROVE  Way(d)!Open \/ Way(d)!Shut \/ UNCHANGED Way(d)!way
  <1>1. Inside(d)' = Inside(d) /\ Touched(d)' = Touched(d)
    BY DEF DoorsPhase, Inside, Touched
  <1>2. Passable(d) \in BOOLEAN /\ Passable(d)' \in BOOLEAN
    BY DEF Passable
  <1>3. CASE Passable(d)' = Passable(d)
    BY <1>1, <1>3 DEF Way!way
  <1>4. CASE Passable(d)' = TRUE
    BY <1>1, <1>4 DEF Way!Open
  <1>5. CASE Passable(d)' = FALSE
    <2>1. ~Touched(d)
      BY <1>1, <1>5 DEF IInv, NobodyCaught
    <2>2. Inside(d) = {}
      BY <2>1 DEF Inside, Touched
    <2> QED BY <1>1, <1>5, <2>2 DEF Way!Shut
  <1> QED BY <1>2, <1>3, <1>4, <1>5

(* The restart block resets every doorway to the level start.              *)
LEMMA RestartDoorway ==
  ASSUME IInv', NEW d \in Door,
         door' = [x \in Door |-> InitialDoor], at' = Start, alive' = Thing
  PROVE  Way(d)!Reset
  <1>1. Inside(d)' = {t \in Thing : Start[t] \in TouchedFrom[d]}
    BY DEF Inside
  <1>2. Passable(d)' = (Kind[d].pass = 0)
    BY InitDoor DEF Passable
  <1> QED BY <1>1, <1>2 DEF Way!Reset

(* Every step of the level is, for every door, a step of its Doorway or a  *)
(* stutter: opening, shutting on nobody, a thing coming or going, a reset. *)
LEMMA DoorwaysStepNext == IInv /\ IInv' /\ [Next]_vars => DoorwaysStep
  <1> SUFFICES ASSUME IInv, IInv', [Next]_vars, NEW d \in Door
               PROVE  Way(d)!Next \/ UNCHANGED Way(d)!way
    BY DEF DoorwaysStep
  <1>1. ASSUME \E x \in Thing : Way(d)!Enter(x) \/ Way(d)!Leave(x) PROVE Way(d)!Next
    BY <1>1 DEF Way!Next
  <1>2. ASSUME door' = door, at' = at, alive' = alive PROVE UNCHANGED Way(d)!way
    BY <1>2 DEF Way!way, Inside, Passable
  <1>3. CASE Restart
    BY <1>3, RestartDoorway DEF Restart, Way!Next
  <1>4. CASE DoorsPhase
    BY <1>4, DoorsPhaseDoorway DEF Way!Next
  <1>5. ASSUME NEW e \in Adjacent, PlayerStep(e)
        PROVE  Way(d)!Next \/ UNCHANGED Way(d)!way
    <2>1. CASE Fits(e[2])
      <3>1. Walkover(e) /\ at' = [at EXCEPT ![Player] = e[2]] /\ alive' = alive
        BY <1>5, <2>1 DEF PlayerStep
      <3>2. e[2] \in Place /\ Player \in Thing
        BY PlaceAssumption DEF Thing
      <3>3. Passable(d)' = Passable(d)
        BY <3>1, WalkoverIInv DEF Passable
      <3> QED BY <1>1, <2>1, <3>1, <3>2, <3>3, MoveDoorway
    <2>2. CASE ~Fits(e[2])
      BY <1>2, <1>5, <2>2 DEF PlayerStep
    <2> QED BY <2>1, <2>2
  <1>6. ASSUME NEW m \in Monster, NEW e \in Adjacent, MonsterStep(m, e)
        PROVE  Way(d)!Next \/ UNCHANGED Way(d)!way
    <2>1. m \in Thing /\ e[2] \in Place /\ Fits(e[2])
      BY <1>6, PlaceAssumption DEF MonsterStep, Thing
    <2>2. Passable(d)' = Passable(d)
      BY <1>6 DEF MonsterStep, Passable
    <2> QED BY <1>1, <1>6, <2>1, <2>2, MoveDoorway DEF MonsterStep
  <1>7. ASSUME NEW t \in Thing, Dies(t) PROVE Way(d)!Leave(t)
    <2>1. Inside(d)' = Inside(d) \ {t}
      BY <1>7 DEF Dies, Inside
    <2>2. Passable(d)' = Passable(d)
      BY <1>7 DEF Dies, Passable
    <2> QED BY <2>1, <2>2 DEF Way!Leave
  <1>8. CASE \/ PlayerStays \/ DeathThink \/ EndTic \/ UNCHANGED vars
             \/ \E x \in Door : PlayerShoots(x)
             \/ \E m \in Monster, x \in Door : MonsterPress(m, x)
    BY <1>2, <1>8 DEF PlayerStays, DeathThink, EndTic, vars, PlayerShoots, MonsterPress
  <1> QED BY <1>1, <1>3, <1>4, <1>5, <1>6, <1>7, <1>8 DEF Next

(* The level start is a start of every Doorway.                            *)
LEMMA DoorwaysStartInit == Init => DoorwaysStart
  <1> SUFFICES ASSUME Init, NEW d \in Door PROVE Way(d)!Init
    BY DEF DoorwaysStart
  <1>1. Inside(d) = {t \in Thing : Start[t] \in TouchedFrom[d]}
    BY DEF Init, Inside
  <1>2. Passable(d) = (Kind[d].pass = 0)
    BY InitDoor DEF Init, Passable
  <1> QED BY <1>1, <1>2 DEF Way!Init

(* Doors refines Doorway, door by door, for every level.                   *)
THEOREM SpecImplementsDoorway == Spec => ImplementsDoorway
  BY SpecIInv, DoorwaysStartInit, DoorwaysStepNext, PTL DEF Spec, ImplementsDoorway

(***************************************************************************)
(* Requests, doors that stay, locks                                        *)
(***************************************************************************)

(* A doors phase that finds a request leaves its door opening or at its    *)
(* top.                                                                    *)
LEMMA RequestsPressStep ==
  ASSUME IInv, Next, NEW d \in req, phase = "doors", ~restart
  PROVE  door'[d].dir = OPENING \/ door'[d].state = Top(Kind[d])
  <1>1. DoorsPhase
    BY DEF Next, Restart, PlayerStep, PlayerStays, PlayerShoots, DeathThink,
           MonsterStep, MonsterPress, Dies, EndTic
  <1>2. /\ d \in Door /\ KindOK(Kind[d]) /\ door[d] \in DoorCells(Kind[d])
        /\ DoorShape(Kind[d], door[d])
    BY KindAssumption DEF IInv, TypeOK, DoorsShaped
  <1>3. door'[d] = DoorTic(Kind[d], door[d], Pressed(d), Blocked(d), StayPress(d))
    BY <1>1, <1>2 DEF DoorsPhase
  <1>4. Pressed(d)
    BY DEF Pressed
  <1>5. Pressed(d) \in BOOLEAN /\ Blocked(d) \in BOOLEAN /\ StayPress(d) \in BOOLEAN
    BY <1>2, Booleans
  <1>6. \/ DoorTic(Kind[d], door[d], Pressed(d), Blocked(d), StayPress(d)).dir = OPENING
        \/ DoorTic(Kind[d], door[d], Pressed(d), Blocked(d), StayPress(d)).state = Top(Kind[d])
    BY <1>2, <1>4, <1>5, UsedTicOpens
  <1> QED BY <1>3, <1>6

(* No request is lost, for every level.                                    *)
THEOREM SpecRequestsPress == Spec => RequestsPress
  <1>1. IInv /\ [Next]_vars =>
          [\A d \in req : phase = "doors" /\ ~restart =>
             \/ door'[d].dir = OPENING
             \/ door'[d].state = Top(Kind[d])]_vars
    BY RequestsPressStep
  <1> QED BY <1>1, SpecIInv, PTL DEF Spec, RequestsPress

(* A door that stays and that no close line moves: never closing, and at   *)
(* rest without a wait.                                                    *)
Stays(d)  == Kind[d].stay /\ ~Kind[d].hold
StayInv   == \A d \in Door : Stays(d) =>
               door[d].dir # CLOSING /\ (door[d].dir = IDLE => door[d].wait = 0)

(* No step but the restart lowers an open-stay door no close line moves.   *)
LEMMA StayStep ==
  ASSUME IInv, StayInv, [Next]_vars
  PROVE  /\ StayInv'
         /\ \A d \in Door : Stays(d) /\ door'[d].state < door[d].state => restart
  <1> SUFFICES ASSUME NEW d \in Door, Stays(d)
               PROVE  /\ door'[d].dir # CLOSING
                      /\ door'[d].dir = IDLE => door'[d].wait = 0
                      /\ door'[d].state < door[d].state => restart
    BY DEF StayInv
  <1>1. /\ KindOK(Kind[d]) /\ door[d] \in DoorCells(Kind[d]) /\ DoorShape(Kind[d], door[d])
        /\ door[d].dir # CLOSING /\ (door[d].dir = IDLE => door[d].wait = 0)
    BY KindAssumption DEF IInv, TypeOK, DoorsShaped, StayInv
  <1>2. door[d].state \in Int
    BY <1>1, KindAssumption DEF DoorCells, Top, KindOK
  <1>3. CASE door'[d] = door[d]
    BY <1>1, <1>2, <1>3
  <1>4. CASE Restart
    BY <1>4 DEF Restart, InitialDoor, IDLE, CLOSING
  <1>5. CASE DoorsPhase
    <2>1. door'[d] = DoorTic(Kind[d], door[d], Pressed(d), Blocked(d), StayPress(d))
      BY <1>5 DEF DoorsPhase
    <2>2. /\ door'[d].dir # CLOSING
          /\ door'[d].dir = IDLE => door'[d].wait = 0
          /\ door'[d].state >= door[d].state
      BY <1>1, <2>1, Booleans, StayTic DEF Stays
    <2>3. door'[d].state \in Int
      BY <1>1, <2>1, Booleans, DoorTicShape DEF DoorCells, Top, KindOK
    <2> QED BY <1>2, <2>2, <2>3
  <1>6. ASSUME NEW e \in Adjacent, PlayerStep(e) PROVE door'[d] = door[d]
    <2>1. d \notin DoorsOf(Acting(e, "close"))
      <3> SUFFICES ASSUME NEW l \in Acting(e, "close"), LineDoor[l] = d PROVE FALSE
        BY DEF DoorsOf
      <3>1. l \in WalkRepeat /\ LineAct[l] \in {"open", "close"}
        BY LineAssumption DEF Acting
      <3>2. LineAct[l] = "close"
        BY <3>1 DEF Acting, RepeatAct
      <3> QED BY <3>1, <3>2, CloseLineAssumption DEF Stays
    <2> QED BY <1>6, <2>1 DEF PlayerStep, Walkover
  <1> QED BY <1>3, <1>4, <1>5, <1>6
      DEF Next, vars, PlayerStays, PlayerShoots, DeathThink, MonsterStep, MonsterPress, Dies, EndTic

(* A door that opens for good stays, for every level.                      *)
THEOREM SpecStayDoorsStay == Spec => StayDoorsStay
  <1>1. Init => StayInv
    BY DEF Init, StayInv, InitialDoor, IDLE, CLOSING
  <1>2. IInv /\ StayInv /\ [Next]_vars => StayInv'
    BY StayStep
  <1>3. IInv /\ StayInv /\ [Next]_vars =>
          [\A d \in Door : Kind[d].stay /\ ~Kind[d].hold /\ door'[d].state < door[d].state
             => restart]_vars
    BY StayStep DEF Stays
  <1> QED BY <1>1, <1>2, <1>3, SpecIInv, PTL DEF Spec, StayDoorsStay

(* Until one of its cards is held, a locked door is exactly as it started, *)
(* and no request ever names it.                                           *)
Locked(d) == NoCard \notin LockedBy(d) /\ ~Requestable(d)
LockInv ==
  \A d \in Door : Locked(d) =>
    d \notin req /\ (LockedBy(d) \intersect cards = {} => door[d] = InitialDoor)

(* Nothing presses a locked door without one of its cards.                 *)
LEMMA LockedUnpressed ==
  ASSUME NEW d \in Door, Locked(d), d \notin req, LockedBy(d) \intersect cards = {}
  PROVE  ~Pressed(d)
  <1>1. ~FrontPress(d)
    BY DEF FrontPress, Holds, Locked, LockedBy
  <1>2. Hits(d) = {}
    BY DEF Hits, Holds, Locked, LockedBy
  <1> QED BY <1>1, <1>2 DEF Pressed, FirstHits

(* A locked door leaves its shut state only under a press, and every press *)
(* of it needs one of its cards.                                           *)
LEMMA LockStep ==
  ASSUME IInv, LockInv, [Next]_vars
  PROVE  LockInv'
  <1> DEFINE Kept(d) ==
        d \notin req' /\ (LockedBy(d) \intersect cards' = {} => door'[d] = InitialDoor)
  <1> SUFFICES ASSUME NEW d \in Door, Locked(d) PROVE Kept(d)
    BY DEF LockInv, Locked, LockedBy, Requestable
  <1>1. d \notin req /\ (LockedBy(d) \intersect cards = {} => door[d] = InitialDoor)
    BY DEF LockInv
  <1>2. CASE req' = req /\ door' = door /\ cards' = cards
    BY <1>1, <1>2
  <1>3. CASE Restart
    BY <1>3 DEF Restart
  <1>4. CASE DoorsPhase
    <2> SUFFICES ASSUME LockedBy(d) \intersect cards = {} PROVE door'[d] = InitialDoor
      BY <1>4 DEF DoorsPhase
    <2>1. ~Pressed(d) /\ door[d] = InitialDoor
      BY <1>1, LockedUnpressed
    <2>2. door'[d] = DoorTic(Kind[d], InitialDoor, Pressed(d), Blocked(d), StayPress(d))
      BY <1>4, <2>1 DEF DoorsPhase
    <2> QED BY <2>1, <2>2
            DEF DoorTic, Motion, InitialDoor, IDLE, OPENING, CLOSING
  <1>5. ASSUME NEW e \in Adjacent, PlayerStep(e) PROVE Kept(d)
    <2>1. \A l \in Trigger : LineDoor[l] # d
      BY DEF Locked, Requestable
    <2>2. /\ d \notin DoorsOf(OnceCrossed(e))
          /\ d \notin DoorsOf(Acting(e, "press")) /\ d \notin DoorsOf(Acting(e, "close"))
      BY <2>1 DEF DoorsOf, OnceCrossed, Acting, Trigger
    <2>3. d \notin req' /\ door'[d] = door[d]
      BY <1>1, <1>5, <2>2 DEF PlayerStep, Walkover
    <2>4. cards \subseteq cards'
      BY <1>5 DEF PlayerStep
    <2> QED BY <1>1, <2>3, <2>4
  <1>6. ASSUME NEW x \in Door, PlayerShoots(x) PROVE Kept(d)
    BY <1>1, <1>6 DEF PlayerShoots, Locked, Requestable
  <1>7. ASSUME NEW m \in Monster, NEW x \in Door, MonsterPress(m, x) PROVE Kept(d)
    BY <1>1, <1>7 DEF MonsterPress, MonsterMayPress, Locked, Requestable
  <1>8. ASSUME NEW m \in Monster, NEW e \in Adjacent, MonsterStep(m, e) PROVE Kept(d)
    BY <1>2, <1>8 DEF MonsterStep
  <1>9. ASSUME NEW t \in Thing, Dies(t) PROVE Kept(d)
    BY <1>2, <1>9 DEF Dies
  <1>10. CASE PlayerStays \/ DeathThink \/ EndTic \/ UNCHANGED vars
    BY <1>2, <1>10 DEF PlayerStays, DeathThink, EndTic, vars
  <1> HIDE DEF Kept
  <1> QED BY <1>3, <1>4, <1>5, <1>6, <1>7, <1>8, <1>9, <1>10 DEF Next

(* A locked door is shut until its card is held, for every level.          *)
THEOREM SpecLockedStaysShut == Spec => []LockedStaysShut
  <1>1. Init => LockInv
    BY DEF Init, LockInv
  <1>2. IInv /\ LockInv /\ [Next]_vars => LockInv'
    BY LockStep
  <1>3. LockInv => LockedStaysShut
    BY InitDoor DEF LockInv, LockedStaysShut, Locked
  <1> QED BY <1>1, <1>2, <1>3, SpecIInv, PTL DEF Spec
=============================================================================
