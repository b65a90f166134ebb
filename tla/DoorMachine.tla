----------------------------- MODULE DoorMachine -----------------------------
(***************************************************************************)
(* The door machine of doomfj.doors (door_tic): one tic of one door, lift  *)
(* or platform.  A door is addressed by a STATE INDEX: 0 is the height the *)
(* map stores (shut), Top the height it opens to.  Operators only: the     *)
(* modules that own doors (Doors, DoorMirrors, Movers) supply the state.   *)
(***************************************************************************)
EXTENDS Integers

CONSTANT Speed          (* frames per height step (doors.SPEED, 1 in the game) *)

ASSUME SpeedAssumption == Speed \in Nat \ {0}

IDLE    == 0
OPENING == 1
CLOSING == 2

(* The mark an open-stay switch leaves in `wait` while its door opens.     *)
STAY_MARK == 1

(* What is fixed about a door: its number of states, the stops a step      *)
(* takes, whether it opens for good, the frames it waits open, the lowest  *)
(* state a thing fits through, the stops a closing step takes, and whether *)
(* a blocked closing door holds (a close line's) or goes back up.          *)
KindOK(k) ==
  /\ k.n \in Nat \ {0, 1}
  /\ k.stride \in Nat \ {0}
  /\ k.stay \in BOOLEAN
  /\ k.wait \in Nat \ {0}
  /\ k.pass \in Nat
  /\ k.down \in Nat \ {0}
  /\ k.hold \in BOOLEAN

Top(k)     == k.n - 1
(* Slip: an open-stay door waits like any other.                           *)
TopWaitAlways(k) == k.wait

TopWait(k) == IF k.stay THEN 0 ELSE k.wait

(* The cells of one door: (state, dir, sub, wait).                         *)
DoorCells(k) ==
  [state : 0 .. Top(k), dir : {IDLE, OPENING, CLOSING},
   sub : 0 .. Speed, wait : 0 .. k.wait]

(* A change of course starts a fresh step: sub is Speed.                   *)
Course(state, dir, wait) ==
  [state |-> state, dir |-> dir, sub |-> Speed, wait |-> wait]

InitialDoor == [state |-> 0, dir |-> IDLE, sub |-> 0, wait |-> 0]

(* EV_DoDoor's "no thinker": neither moving nor waiting open.              *)
SwitchReady(st) == st.dir = IDLE /\ st.wait = 0

(* EV_DoDoor(close) on a door at rest open: the next tic steps it.         *)
CloseState(st) == Course(st.state, CLOSING, 0)

(* What a crossed WR line does to its door.                                *)
RepeatAct(act, st) ==
  IF ~SwitchReady(st) THEN "none"
  ELSE IF act = "open" THEN "press"
  ELSE IF st.state > 0 THEN "close" ELSE "none"

(***************************************************************************)
(* The press: "open", from rest and from closing; at the top it restarts   *)
(* the wait instead.  A stay press carries its mark up in `wait`.          *)
(***************************************************************************)
Press(k, st, stayPress) ==
  IF st.state = Top(k) /\ ~stayPress
  THEN Course(st.state, IDLE, TopWait(k))
  ELSE Course(st.state, OPENING, IF stayPress THEN STAY_MARK ELSE 0)

(* A press that changes nothing: a stay door open for good.                *)
OpenForGood(k, st) == k.stay /\ st.state = Top(k)

(* The wait a door takes on when it arrives at its top.                    *)
ArrivalWait(k, st) == IF st.wait = STAY_MARK THEN 0 ELSE TopWait(k)

StepUp(k, st) ==
  IF st.state + k.stride >= Top(k)
  THEN Course(Top(k), IDLE, ArrivalWait(k, st))
  ELSE Course(st.state + k.stride, OPENING, st.wait)

(* Slip: the step out of the passable states is caught one state early.   *)
LeavesPassLate(k, st) == st.state > k.pass /\ k.pass >= st.state - k.down

(* The step that would take a closing door from passable to impassable.    *)
LeavesPass(k, st) == st.state >= k.pass /\ k.pass > st.state - k.down

StepDown(k, st, blocked) ==
  IF blocked /\ LeavesPass(k, st)
  THEN Course(st.state, IF k.hold THEN CLOSING ELSE OPENING, st.wait)
  ELSE IF st.state <= k.down
  THEN Course(0, IDLE, st.wait)
  ELSE Course(st.state - k.down, CLOSING, st.wait)

(* Slip: the last frame of the wait forgets to close.                      *)
WaitOutOpen(st) == [st EXCEPT !.wait = @ - 1]

WaitOut(st) ==
  IF st.wait = 1 THEN Course(st.state, CLOSING, 0)
  ELSE [st EXCEPT !.wait = @ - 1]

(* One frame of motion, after the press.                                   *)
Motion(k, st, blocked) ==
  IF st.dir # IDLE /\ st.sub # 1 THEN [st EXCEPT !.sub = @ - 1]
  ELSE IF st.dir = OPENING THEN StepUp(k, st)
  ELSE IF st.dir = CLOSING THEN StepDown(k, st, blocked)
  ELSE IF st.wait # 0 THEN WaitOut(st)
  ELSE st

DoorTic(k, st, used, blocked, stayPress) ==
  IF used /\ st.dir # OPENING
  THEN IF OpenForGood(k, st) THEN st
       ELSE Motion(k, Press(k, st, stayPress), blocked)
  ELSE Motion(k, st, blocked)

(***************************************************************************)
(* The shape every reachable door has: it rests only at its two ends, the  *)
(* wait is a real wait only at the top, an opening door carries at most    *)
(* the stay mark in it, and a closing one nothing.                         *)
(***************************************************************************)
DoorShape(k, st) ==
  /\ st.dir = IDLE => st.state \in {0, Top(k)}
  /\ st.dir # IDLE => st.sub > 0
  /\ st.dir = IDLE /\ st.wait > 0 => st.state = Top(k)
  /\ st.dir = OPENING => st.wait \in {0, STAY_MARK}
  /\ st.dir = CLOSING => st.wait = 0 /\ st.state > 0
=============================================================================
