--------------------------- MODULE Machines_proofs ---------------------------
(***************************************************************************)
(* The machines of every level: the three door phases agree, frame for     *)
(* frame, on every Compatible door; the emitted lifts, perpetual lifts and *)
(* floors step as the model's, every lift is the one Plat describes, a     *)
(* floor runs once, and a switch that is out has done something.           *)
(*                                                                         *)
(* None of this is inductive by itself.  The emitted cells differ from the *)
(* model's in states that are never reached: a door that opens at its top  *)
(* without the clamp, a stay press there, a lift's wait on the way, a stop *)
(* timer at 0, a floor still counting at its end; and a button is right    *)
(* only because what it asked for stays asked for until the movers' phase. *)
(* MInv (the doors) and MoversInv (the movers) say so.                     *)
(***************************************************************************)
EXTENDS DoorMirrors, Movers, TLAPS

(* A nibble holds its states.                                              *)
LEMMA Nibble == \A x \in 0 .. 15 : x % 16 = x
  OBVIOUS

(* `up`: the increments meet the top exactly when the clamp of door_tic    *)
(* would.                                                                  *)
LEMMA NibbleUp ==
  ASSUME NEW s \in 0 .. 15, NEW t \in 0 .. 15, s < t, NEW d \in Nat \ {0}
  PROVE  /\ (\E i \in 1 .. d : (s + i) % 16 = t) <=> s + d >= t
         /\ s + d < t => (s + d) % 16 = s + d
  <1>1. CASE s + d >= t
    <2>1. t - s \in 1 .. d /\ s + (t - s) = t /\ t % 16 = t
      BY <1>1, Nibble
    <2>2. \E i \in 1 .. d : (s + i) % 16 = t
      <3> DEFINE i == t - s
      <3>1. i \in 1 .. d /\ (s + i) % 16 = t
        BY <2>1
      <3> HIDE DEF i
      <3> QED BY <3>1
    <2>3. ~(s + d < t)
      BY <1>1
    <2> QED BY <1>1, <2>2, <2>3, Zenon
  <1>2. CASE s + d < t
    <2>1. \A i \in 1 .. d : s + i \in 0 .. 15 /\ s + i # t
      BY <1>2
    <2> QED BY <1>2, <2>1, Nibble
  <1> QED BY <1>1, <1>2

(* `down`: the decrements meet zero exactly when the clamp would.          *)
LEMMA NibbleDown ==
  ASSUME NEW s \in 1 .. 15, NEW d \in Nat \ {0}
  PROVE  /\ (\E i \in 1 .. d : (s - i) % 16 = 0) <=> s <= d
         /\ s > d => (s - d) % 16 = s - d
  <1>1. CASE s <= d
    <2>1. s \in 1 .. d /\ (s - s) % 16 = 0
      BY <1>1, Nibble
    <2> QED BY <1>1, <2>1
  <1>2. CASE s > d
    <2>1. \A i \in 1 .. d : s - i \in 0 .. 15 /\ s - i # 0
      BY <1>2
    <2> QED BY <1>2, <2>1, Nibble
  <1> QED BY <1>1, <1>2

(* The door machine keeps its cells' ranges and their shape, which is what  *)
(* makes its mirrors step alike: three lemmas, a part of its tic each.      *)

(* A press leaves a door its cells and its shape: opening, or idle at its  *)
(* top.                                                                    *)
LEMMA PressShape ==
  ASSUME NEW k, KindOK(k), NEW st \in DoorCells(k), NEW mark \in BOOLEAN
  PROVE  /\ Press(k, st, mark) \in DoorCells(k)
         /\ DoorShape(k, Press(k, st, mark))
         /\ Press(k, st, mark).dir \in {IDLE, OPENING}
         /\ Press(k, st, mark).state = st.state
  <1> USE SpeedAssumption DEF KindOK, DoorCells, Course, Top, IDLE, OPENING, CLOSING, STAY_MARK
  <1>1. CASE st.state = Top(k) /\ ~mark
    BY <1>1 DEF Press, DoorShape, TopWait
  <1>2. CASE ~(st.state = Top(k) /\ ~mark)
    BY <1>2 DEF Press, DoorShape
  <1> QED BY <1>1, <1>2

(* One frame of motion keeps the cells and the shape.                      *)
LEMMA MotionShape ==
  ASSUME NEW k, KindOK(k), NEW st \in DoorCells(k), DoorShape(k, st),
         NEW blocked \in BOOLEAN
  PROVE  Motion(k, st, blocked) \in DoorCells(k) /\ DoorShape(k, Motion(k, st, blocked))
  <1> USE SpeedAssumption DEF KindOK, DoorCells, Course, Top, IDLE, OPENING, CLOSING, STAY_MARK
  <1>1. CASE st.dir # IDLE /\ st.sub # 1
    BY <1>1 DEF Motion, DoorShape
  <1>2. CASE ~(st.dir # IDLE /\ st.sub # 1) /\ st.dir = OPENING
    BY <1>2 DEF Motion, DoorShape, StepUp, ArrivalWait, TopWait
  <1>3. CASE ~(st.dir # IDLE /\ st.sub # 1) /\ st.dir = CLOSING
    BY <1>3 DEF Motion, DoorShape, StepDown
  <1>4. CASE st.dir = IDLE
    BY <1>4 DEF Motion, DoorShape, WaitOut
  <1> QED BY <1>1, <1>2, <1>3, <1>4

(* A tic of the door machine keeps the cells and the shape.                *)
LEMMA DoorTicShape ==
  ASSUME NEW k, KindOK(k), NEW st \in DoorCells(k), DoorShape(k, st),
         NEW used \in BOOLEAN, NEW blocked \in BOOLEAN, NEW mark \in BOOLEAN
  PROVE  /\ DoorTic(k, st, used, blocked, mark) \in DoorCells(k)
         /\ DoorShape(k, DoorTic(k, st, used, blocked, mark))
  BY PressShape, MotionShape DEF DoorTic

(***************************************************************************)
(* The doors: model, mirror and emitted machine                            *)
(***************************************************************************)

(* The shape of an emitted door's cells beyond DoorShape.                  *)
Emitted(st, fired) ==
  /\ st.state = Top(kind) /\ st.dir = IDLE => st.sub = Speed
  /\ st.state = Top(kind) /\ st.dir = OPENING => Top(kind) \in ReverseMask(cfg)
  /\ kind.stay /\ ~cfg.closeable =>
       st.dir # CLOSING /\ (st.dir = IDLE => st.wait = 0)
  /\ kind.stay => (st.dir = IDLE => st.wait = 0)
  /\ st.dir = OPENING /\ st.wait = STAY_MARK =>
       /\ StaySwitches(cfg) # {}
       /\ \A i \in StaySwitches(cfg) : cfg.switches[i].latch \in fired
  /\ ~kind.stay /\ st.state = Top(kind) /\ SwitchReady(st) =>
       \A i \in StaySwitches(cfg) : cfg.switches[i].latch \in fired

MInv ==
  /\ ConfigOK(cfg) /\ Compatible(cfg)
  /\ mirror = model /\ binary = model
  /\ model.door \in DoorCells(kind) /\ DoorShape(kind, model.door)
  /\ model.fired \subseteq Latches(cfg)
  /\ model.req \in BOOLEAN /\ (model.req => cfg.requestable)
  /\ model = [door |-> model.door, fired |-> model.fired, req |-> model.req]
  /\ Emitted(model.door, model.fired)

(* One frame of emitted motion is one frame of door_tic's.                 *)
LEMMA MotionAgrees ==
  ASSUME ConfigOK(cfg), Compatible(cfg),
         NEW st \in DoorCells(kind), DoorShape(kind, st),
         st.state = Top(kind) /\ st.dir = OPENING => Top(kind) \in ReverseMask(cfg),
         kind.stay /\ ~cfg.closeable => st.dir # CLOSING,
         st.dir = OPENING /\ st.wait = STAY_MARK => StaySwitches(cfg) # {},
         NEW touched \in BOOLEAN, NEW blocked \in BOOLEAN,
         st.dir = CLOSING /\ st.state >= kind.pass => blocked = touched
  PROVE  EmittedMotion(st, touched) = Motion(kind, st, blocked)
  <1>0. /\ KindOK(kind) /\ Top(kind) \in 1 .. 15 /\ st.state \in 0 .. Top(kind)
        /\ kind.stride \in Nat \ {0} /\ kind.down \in Nat \ {0} /\ kind.pass \in Nat
        /\ kind.hold = cfg.closeable /\ st.sub \in 0 .. Speed
    BY DEF ConfigOK, KindOK, kind, DoorCells, Top
  <1>1. CASE st.dir = IDLE
    BY <1>1 DEF EmittedMotion, Motion, WaitOut, IDLE, OPENING, CLOSING
  <1>2. CASE st.dir # IDLE /\ st.sub # 1
    <2>1. st.sub - 1 \in 0 .. 15
      BY <1>0, <1>2, ConfigAssumption, SpeedAssumption DEF DoorShape
    <2>2. (st.sub - 1) % 16 = st.sub - 1
      BY <2>1, Nibble
    <2> QED BY <1>2, <2>2 DEF EmittedMotion, Motion
  <1>3. CASE st.dir = OPENING /\ st.sub = 1
    <2>1. EmittedMotion(st, touched) = EmittedUp(st) /\ Motion(kind, st, blocked) = StepUp(kind, st)
      BY <1>3 DEF EmittedMotion, Motion, IDLE, OPENING, CLOSING
    <2>2. EmittedTopWait(st) = ArrivalWait(kind, st)
      BY <1>3 DEF EmittedTopWait, ArrivalWait
    <2>3. CASE st.state = Top(kind)
      <3>1. EmittedArrives(st.state)
        BY <1>3, <2>3 DEF EmittedArrives, Compatible, kind
      <3>2. st.state + kind.stride >= Top(kind)
        BY <1>0, <2>3
      <3> QED BY <2>1, <2>2, <3>1, <3>2 DEF EmittedUp, StepUp
    <2>4. CASE st.state < Top(kind)
      <3>1. st.state \in 0 .. 15 /\ Top(kind) \in 0 .. 15
        BY <1>0
      <3>2. (\E i \in 1 .. kind.stride : (st.state + i) % 16 = Top(kind))
              <=> st.state + kind.stride >= Top(kind)
        BY <1>0, <2>4, <3>1, NibbleUp
      <3>3. st.state + kind.stride < Top(kind) =>
              (st.state + kind.stride) % 16 = st.state + kind.stride
        BY <1>0, <2>4, <3>1, NibbleUp
      <3>4. st.state + kind.stride < Top(kind) \/ st.state + kind.stride >= Top(kind)
        BY <1>0
      <3>5. st.state # Top(kind)
        BY <1>0, <2>4
      <3>6. EmittedArrives(st.state) <=> st.state + kind.stride >= Top(kind)
        BY <3>2, <3>5, Zenon DEF EmittedArrives
      <3> QED BY <2>1, <2>2, <3>3, <3>4, <3>6 DEF EmittedUp, StepUp
    <2> QED BY <1>0, <2>3, <2>4
  <1>4. CASE st.dir = CLOSING /\ st.sub = 1
    <2>1. /\ EmittedMotion(st, touched) = EmittedDown(st, touched)
          /\ Motion(kind, st, blocked) = StepDown(kind, st, blocked)
      BY <1>4 DEF EmittedMotion, Motion, IDLE, OPENING, CLOSING
    <2>2. (touched /\ st.state \in ReverseMask(cfg)) <=> (blocked /\ LeavesPass(kind, st))
      <3>1. st.state \in ReverseMask(cfg) <=> LeavesPass(kind, st)
        BY <1>0, <1>4 DEF ReverseMask, LeavesPass, kind
      <3>2. LeavesPass(kind, st) => blocked = touched
        BY <1>4 DEF LeavesPass
      <3> QED BY <3>1, <3>2
    <2>3. st.state \in 1 .. 15
      BY <1>0, <1>4 DEF DoorShape, CLOSING, OPENING, IDLE
    <2>4. (\E i \in 1 .. kind.down : (st.state - i) % 16 = 0) <=> st.state <= kind.down
      BY <1>0, <2>3, NibbleDown
    <2>5. st.state > kind.down => (st.state - kind.down) % 16 = st.state - kind.down
      BY <1>0, <2>3, NibbleDown
    <2>6. st.state <= kind.down \/ st.state > kind.down
      BY <1>0
    <2> QED BY <1>0, <2>1, <2>2, <2>4, <2>5, <2>6 DEF EmittedDown, StepDown
  <1> QED BY <1>1, <1>2, <1>3, <1>4 DEF DoorCells

(* A pressed, or unpressed, door is pressed alike.  A stay press finds its *)
(* door away from its top, and a door a close line moves at rest.          *)
LEMMA TicAgrees ==
  ASSUME ConfigOK(cfg), Compatible(cfg),
         NEW st \in DoorCells(kind), DoorShape(kind, st),
         NEW fired, Emitted(st, fired),
         NEW mark \in BOOLEAN,
         mark => SwitchReady(st) /\ StaySwitches(cfg) # {} /\ st.state # Top(kind),
         NEW used \in BOOLEAN, mark => used,
         used /\ cfg.closeable => SwitchReady(st),
         NEW touched \in BOOLEAN, NEW blocked \in BOOLEAN,
         st.dir = CLOSING /\ st.state >= kind.pass => blocked = touched
  PROVE  DoorTic(kind, st, used, blocked, mark)
           = EmittedMotion(IF ~used THEN st
                           ELSE IF mark THEN EmittedStayPress(st) ELSE EmittedPress(st),
                           touched)
  <1>0. /\ KindOK(kind) /\ Top(kind) \in 1 .. 15 /\ st.state \in 0 .. Top(kind)
        /\ kind.stay \in BOOLEAN /\ (kind.stay => StaySwitches(cfg) = {})
    BY DEF ConfigOK, KindOK, kind, DoorCells, Top
  <1>1. EmittedMotion(st, touched) = Motion(kind, st, blocked)
    BY MotionAgrees DEF Emitted
  <1>2. CASE ~used
    BY <1>1, <1>2 DEF DoorTic
  <1>3. CASE used /\ st.dir = OPENING
    <2>1. ~mark
      BY <1>3 DEF SwitchReady, IDLE, OPENING
    <2> QED BY <1>1, <1>3, <2>1 DEF DoorTic, EmittedPress
  <1>4. CASE used /\ st.dir # OPENING /\ OpenForGood(kind, st)
    <2>1. ~mark /\ kind.stay /\ st.state = Top(kind)
      BY <1>0, <1>4 DEF OpenForGood
    <2>2. st.dir = IDLE /\ st.wait = 0 /\ st.sub = Speed
      BY <1>4, <2>1 DEF Emitted, SwitchReady, DoorCells
    <2>3. st = Course(st.state, IDLE, TopWait(kind))
      BY <2>1, <2>2 DEF Course, TopWait, DoorCells
    <2>4. EmittedPress(st) = st
      BY <1>4, <2>1, <2>3 DEF EmittedPress
    <2>5. EmittedMotion(st, touched) = st
      BY <2>2 DEF EmittedMotion
    <2> QED BY <1>4, <2>1, <2>4, <2>5 DEF DoorTic
  <1>5. CASE used /\ st.dir # OPENING /\ ~OpenForGood(kind, st)
    <2> DEFINE pr == Press(kind, st, mark)
    <2>1. pr = IF mark THEN EmittedStayPress(st) ELSE EmittedPress(st)
      BY <1>5 DEF Press, EmittedStayPress, EmittedPress
    <2>2. pr \in DoorCells(kind) /\ DoorShape(kind, pr) /\ pr.dir \in {IDLE, OPENING}
      BY <1>0, PressShape
    <2>3. pr.dir # CLOSING
      BY <2>2 DEF IDLE, OPENING, CLOSING
    <2>4. ~(pr.state = Top(kind) /\ pr.dir = OPENING)
      BY DEF Press, Course, IDLE, OPENING
    <2>5. pr.dir = OPENING /\ pr.wait = STAY_MARK => StaySwitches(cfg) # {}
      BY DEF Press, Course, IDLE, OPENING, STAY_MARK
    <2>6. DoorTic(kind, st, used, blocked, mark) = Motion(kind, pr, blocked)
      BY <1>5 DEF DoorTic
    <2> HIDE DEF pr
    <2>7. EmittedMotion(pr, touched) = Motion(kind, pr, blocked)
      BY <2>2, <2>3, <2>4, <2>5, MotionAgrees
    <2> QED BY <1>5, <2>1, <2>6, <2>7
  <1> QED BY <1>2, <1>3, <1>4, <1>5

(* Motion, and then a whole tic, keep what Emitted says.                   *)
LEMMA MotionEmitted ==
  ASSUME ConfigOK(cfg),
         NEW st \in DoorCells(kind), DoorShape(kind, st),
         NEW fired, Emitted(st, fired), NEW blocked \in BOOLEAN
  PROVE  Emitted(Motion(kind, st, blocked), fired)
  <1>0. /\ KindOK(kind) /\ Top(kind) \in 1 .. 15 /\ st.state \in 0 .. Top(kind)
        /\ kind.stride \in Nat \ {0} /\ kind.down \in Nat \ {0} /\ kind.pass \in Nat
        /\ kind.hold = cfg.closeable /\ kind.wait \in Nat \ {0} /\ kind.stay \in BOOLEAN
        /\ st.wait \in Nat
    BY DEF ConfigOK, KindOK, kind, DoorCells, Top
  <1>1. CASE st.dir = IDLE
    BY <1>0, <1>1 DEF Motion, WaitOut, Emitted, Course, SwitchReady, IDLE, OPENING, CLOSING,
                      STAY_MARK, DoorCells, DoorShape
  <1>2. CASE st.dir # IDLE /\ st.sub # 1
    BY <1>2 DEF Motion, Emitted, SwitchReady, IDLE, OPENING, CLOSING, DoorCells
  <1>3. CASE st.dir = OPENING /\ st.sub = 1
    <2>1. Motion(kind, st, blocked) = StepUp(kind, st)
      BY <1>3 DEF Motion, IDLE, OPENING
    <2>2. CASE st.state + kind.stride >= Top(kind)
      <3>1. Motion(kind, st, blocked) = Course(Top(kind), IDLE, ArrivalWait(kind, st))
        BY <2>1, <2>2 DEF StepUp
      <3>2. ArrivalWait(kind, st) = 0 => kind.stay \/ st.wait = STAY_MARK
        BY <1>0 DEF ArrivalWait, TopWait
      <3>3. kind.stay => ArrivalWait(kind, st) = 0
        BY DEF ArrivalWait, TopWait
      <3> QED BY <1>3, <3>1, <3>2, <3>3
              DEF Course, Emitted, SwitchReady, IDLE, OPENING, CLOSING
    <2>3. CASE ~(st.state + kind.stride >= Top(kind))
      BY <1>0, <1>3, <2>1, <2>3 DEF StepUp, Course, Emitted, SwitchReady, IDLE, OPENING, CLOSING
    <2> QED BY <2>2, <2>3
  <1>4. CASE st.dir = CLOSING /\ st.sub = 1
    <2>1. Motion(kind, st, blocked) = StepDown(kind, st, blocked) /\ st.wait = 0
      BY <1>4 DEF Motion, DoorShape, IDLE, OPENING, CLOSING
    <2>2. kind.stay => cfg.closeable
      BY <1>4 DEF Emitted
    <2>3. CASE blocked /\ LeavesPass(kind, st)
      <3>1. st.state = Top(kind) /\ ~cfg.closeable => Top(kind) \in ReverseMask(cfg)
        BY <1>0, <2>2, <2>3 DEF LeavesPass, ReverseMask, kind
      <3> QED BY <1>0, <2>1, <2>2, <2>3, <3>1
              DEF StepDown, Course, Emitted, SwitchReady, IDLE, OPENING, CLOSING, STAY_MARK
    <2>4. CASE ~(blocked /\ LeavesPass(kind, st))
      BY <1>0, <2>1, <2>2, <2>4
      DEF StepDown, Course, Emitted, SwitchReady, IDLE, OPENING, CLOSING, STAY_MARK
    <2> QED BY <2>3, <2>4
  <1> QED BY <1>1, <1>2, <1>3, <1>4 DEF DoorCells

(* The states the emitted machine agrees on are closed under a tic: a stay *)
(* mark is there only once the latch of its switch is spent.               *)
LEMMA TicEmitted ==
  ASSUME ConfigOK(cfg),
         NEW st \in DoorCells(kind), DoorShape(kind, st),
         NEW fired, NEW after, fired \subseteq after, Emitted(st, fired),
         NEW mark \in BOOLEAN,
         mark => /\ StaySwitches(cfg) # {} /\ st.state # Top(kind)
                 /\ \A i \in StaySwitches(cfg) : cfg.switches[i].latch \in after,
         NEW used \in BOOLEAN, NEW blocked \in BOOLEAN
  PROVE  Emitted(DoorTic(kind, st, used, blocked, mark), after)
  <1>0. KindOK(kind) /\ kind.wait \in Nat \ {0}
    BY DEF ConfigOK, KindOK, kind
  <1>1. Emitted(st, after)
    BY DEF Emitted
  <1>2. CASE used /\ st.dir # OPENING /\ ~OpenForGood(kind, st)
    <2>1. /\ Press(kind, st, mark) \in DoorCells(kind)
          /\ DoorShape(kind, Press(kind, st, mark))
      BY <1>0, PressShape
    <2>2. Emitted(Press(kind, st, mark), after)
      BY <1>0 DEF Press, Course, Emitted, TopWait, SwitchReady, IDLE, OPENING, CLOSING, STAY_MARK
    <2> QED BY <1>2, <2>1, <2>2, MotionEmitted DEF DoorTic
  <1>3. CASE used /\ st.dir # OPENING /\ OpenForGood(kind, st)
    BY <1>1, <1>3 DEF DoorTic
  <1>4. CASE ~(used /\ st.dir # OPENING)
    BY <1>1, <1>4, MotionEmitted DEF DoorTic
  <1> QED BY <1>2, <1>3, <1>4

(* The switch box hit: at most one, on a door at rest, its latch unspent.  *)
LEMMA HitFacts ==
  ASSUME MInv, NEW in \in Inputs
  PROVE  /\ \A i \in SwitchHit(in, model) :
              i \in DOMAIN cfg.switches /\ cfg.switches[i].latch \notin model.fired
         /\ SwitchHit(in, model) # {} => SwitchReady(model.door)
         /\ Stay(SwitchHit(in, model)) \in BOOLEAN
         /\ Spent(SwitchHit(in, model)) \subseteq Latches(cfg)
         /\ model.req => ~Stay(SwitchHit(in, model)) /\ Spent(SwitchHit(in, model)) = {}
  BY DEF SwitchHit, Inputs, Stay, Spent, Latches, MInv, Compatible

(* A stay press finds the door away from its top and spends the latch of   *)
(* the door's only stay switch.                                            *)
LEMMA StayHit ==
  ASSUME MInv, NEW in \in Inputs, Stay(SwitchHit(in, model))
  PROVE  /\ SwitchReady(model.door) /\ StaySwitches(cfg) # {}
         /\ model.door.state # Top(kind)
         /\ \A i \in StaySwitches(cfg) : cfg.switches[i].latch \in Spent(SwitchHit(in, model))
  <1>1. PICK h \in SwitchHit(in, model) : cfg.switches[h].stay
    BY DEF Stay
  <1>2. /\ h \in StaySwitches(cfg) /\ cfg.switches[h].latch \notin model.fired
        /\ SwitchReady(model.door)
    BY <1>1, HitFacts DEF StaySwitches
  <1>3. \A i \in StaySwitches(cfg) : i = h /\ cfg.switches[i].latch # NoLatch
    BY <1>2 DEF MInv, Compatible
  <1>4. ~kind.stay
    BY <1>2 DEF MInv, ConfigOK, kind
  <1>5. model.door.state # Top(kind)
    BY <1>2, <1>4 DEF MInv, Emitted
  <1> QED BY <1>1, <1>2, <1>3, <1>5 DEF Spent

(* A doors phase keeps the three implementations on the same cells.       *)
LEMMA PhaseMInv ==
  ASSUME MInv, NEW in \in Inputs, DoorPhase(in)
  PROVE  MInv'
  <1> DEFINE hit     == IF in.front THEN {} ELSE SwitchHit(in, model)
             used    == in.front \/ hit # {} \/ model.req
             blocked == model.door.dir = CLOSING /\ model.door.state >= kind.pass /\ in.touched
             touched == model.door.dir = CLOSING /\ in.touched
             after   == model.fired \union Spent(hit)
             next    == DoorTic(kind, model.door, used, blocked, Stay(hit))
  <1>1. /\ in.front \in BOOLEAN /\ in.touched \in BOOLEAN /\ (in.front => cfg.front)
        /\ ConfigOK(cfg) /\ Compatible(cfg) /\ KindOK(kind)
        /\ model.door \in DoorCells(kind) /\ DoorShape(kind, model.door)
        /\ Emitted(model.door, model.fired) /\ model.req \in BOOLEAN
    BY DEF Inputs, MInv, ConfigOK, kind
  <1>2. /\ Stay(hit) \in BOOLEAN /\ Spent(hit) \subseteq Latches(cfg)
        /\ (hit # {} => SwitchReady(model.door))
        /\ (model.req => ~Stay(hit) /\ Spent(hit) = {})
        /\ (Stay(hit) => hit # {})
    <2>1. CASE in.front
      BY <2>1 DEF Stay, Spent
    <2>2. CASE ~in.front
      BY <2>2, HitFacts DEF Stay
    <2> QED BY <2>1, <2>2
  <1>3. Stay(hit) => /\ SwitchReady(model.door) /\ StaySwitches(cfg) # {}
                     /\ model.door.state # Top(kind)
                     /\ \A i \in StaySwitches(cfg) : cfg.switches[i].latch \in after
    BY StayHit DEF Stay
  <1>4. used /\ cfg.closeable => SwitchReady(model.door)
    BY <1>1, <1>2 DEF Compatible, MInv
  <1>5. model' = [door |-> next, fired |-> after, req |-> FALSE] /\ cfg' = cfg
    BY DEF DoorPhase, ModelTic
  <1>6. used \in BOOLEAN /\ blocked \in BOOLEAN /\ touched \in BOOLEAN
    BY <1>1
  <1>7. /\ next \in DoorCells(kind) /\ DoorShape(kind, next)
    <2> HIDE DEF used, blocked, hit
    <2> QED BY <1>1, <1>2, <1>6, DoorTicShape
  <1>8. Emitted(next, after)
    <2> HIDE DEF used, blocked, hit
    <2> QED BY <1>1, <1>2, <1>3, <1>6, TicEmitted
  <1> DEFINE moved == EmittedMotion(IF ~used THEN model.door
                                    ELSE IF Stay(hit) THEN EmittedStayPress(model.door)
                                    ELSE EmittedPress(model.door), in.touched)
  <1>9. next = moved /\ DoorTic(kind, model.door, used, touched, Stay(hit)) = moved
    <2>1. Stay(hit) => used
      BY <1>2
    <2>2. model.door.dir = CLOSING /\ model.door.state >= kind.pass => blocked = in.touched
      BY <1>1
    <2>3. model.door.dir = CLOSING /\ model.door.state >= kind.pass => touched = in.touched
      BY <1>1
    <2> HIDE DEF used, blocked, hit, touched
    <2> QED BY <1>1, <1>2, <1>3, <1>4, <1>6, <2>1, <2>2, <2>3, TicAgrees
  <1>10. mirror' = [door |-> DoorTic(kind, model.door, used, touched, Stay(hit)),
                    fired |-> after, req |-> FALSE]
    <2>1. mirror' = MirrorTic(in, model)
      BY DEF DoorPhase, MInv
    <2>2. CASE model.req
      <3>1. used /\ ~Stay(hit) /\ after = model.fired \union Spent({}) /\ ~Stay({})
        BY <1>2, <2>2 DEF Stay, Spent
      <3>2. Stay(hit) = FALSE /\ Stay({}) = FALSE /\ used = TRUE
        BY <1>2, <1>6, <3>1 DEF Stay
      <3> QED BY <2>1, <2>2, <3>1, <3>2 DEF MirrorTic
    <2>3. CASE ~model.req
      <3>1. (IF in.front \/ model.req THEN {} ELSE SwitchHit(in, model)) = hit
        BY <2>3
      <3> QED BY <2>1, <2>3, <3>1 DEF MirrorTic
    <2> QED BY <2>2, <2>3
  <1>11. binary' = [door |-> moved, fired |-> after, req |-> FALSE]
    <2>1. binary' = EmittedTic(in, model)
      BY DEF DoorPhase, MInv
    <2>2. CASE model.req
      <3>1. used /\ ~Stay(hit) /\ after = model.fired \union Spent({})
        BY <1>2, <2>2 DEF Spent
      <3>2. moved = EmittedMotion(EmittedPress(model.door), in.touched)
        BY <3>1
      <3> HIDE DEF moved, after
      <3> QED BY <2>1, <2>2, <3>1, <3>2 DEF EmittedTic
    <2>3. CASE ~model.req /\ in.front
      <3>1. used /\ ~Stay(hit) /\ hit = {}
        BY <2>3 DEF Stay
      <3>2. moved = EmittedMotion(EmittedPress(model.door), in.touched)
        BY <3>1
      <3> HIDE DEF moved
      <3> QED BY <2>1, <2>3, <3>1, <3>2 DEF EmittedTic
    <2>4. CASE ~model.req /\ ~in.front
      <3>1. used <=> hit # {}
        BY <2>4
      <3>2. hit = SwitchHit(in, model)
        BY <2>4
      <3> QED BY <2>1, <2>4, <3>1, <3>2 DEF EmittedTic
    <2> QED BY <2>2, <2>3, <2>4
  <1>12. mirror' = model' /\ binary' = model'
    BY <1>5, <1>9, <1>10, <1>11
  <1>13. kind' = kind /\ model'.door = next /\ model'.fired = after /\ model'.req = FALSE
    BY <1>5 DEF kind
  <1>14. after \subseteq Latches(cfg)
    BY <1>2 DEF MInv
  <1> HIDE DEF next, after
  <1> QED BY <1>1, <1>5, <1>7, <1>8, <1>12, <1>13, <1>14 DEF MInv, Emitted, kind

(* A request sets the same bit in all three.                               *)
LEMMA RequestMInv == MInv /\ Request => MInv'
  <1> SUFFICES ASSUME MInv, Request PROVE MInv'
    OBVIOUS
  <1>1. model' = [door |-> model.door, fired |-> model.fired, req |-> TRUE]
    BY DEF Request, MInv
  <1>2. mirror' = model' /\ binary' = model'
    BY DEF Request, MInv
  <1>3. cfg' = cfg /\ cfg.requestable
    BY DEF Request
  <1> QED BY <1>1, <1>2, <1>3 DEF MInv, Emitted, kind

(* A close line starts the door down the same way in all three.           *)
LEMMA CrossCloseMInv == MInv /\ CrossClose => MInv'
  <1> SUFFICES ASSUME MInv, CrossClose PROVE MInv'
    OBVIOUS
  <1>1. mirror' = model' /\ binary' = model' /\ cfg' = cfg /\ cfg.closeable
    BY DEF CrossClose, MInv
  <1>2. CASE RepeatAct("close", model.door) # "close"
    <2>1. model' = model
      BY <1>2 DEF CrossClose, Closed
    <2> QED BY <1>1, <2>1 DEF MInv, Emitted, kind
  <1>3. CASE RepeatAct("close", model.door) = "close"
    <2>1. model' = [door |-> CloseState(model.door), fired |-> model.fired, req |-> model.req]
      BY <1>3 DEF CrossClose, Closed, MInv
    <2>2. model.door.state > 0
      BY <1>3 DEF RepeatAct
    <2>3. /\ CloseState(model.door) \in DoorCells(kind)
          /\ DoorShape(kind, CloseState(model.door))
      BY <2>2, SpeedAssumption
      DEF MInv, CloseState, Course, DoorCells, DoorShape, ConfigOK, KindOK, kind, Top,
          IDLE, OPENING, CLOSING
    <2>4. CloseState(model.door).dir = CLOSING
      BY DEF CloseState, Course
    <2> QED BY <1>1, <2>1, <2>3, <2>4
            DEF MInv, Emitted, SwitchReady, kind, IDLE, OPENING, CLOSING
  <1> QED BY <1>2, <1>3

(* All three start at the level start's cells.                             *)
LEMMA InitMInv == (\A c \in Configs : Compatible(c)) /\ Init => MInv
  <1> SUFFICES ASSUME \A c \in Configs : Compatible(c), Init PROVE MInv
    OBVIOUS
  <1>1. ConfigOK(cfg) /\ Compatible(cfg) /\ KindOK(kind)
    BY ConfigAssumption DEF Init, ConfigOK, kind
  <1>2. InitialDoor \in DoorCells(kind) /\ DoorShape(kind, InitialDoor) /\ Top(kind) # 0
    BY <1>1, SpeedAssumption
    DEF KindOK, InitialDoor, DoorCells, DoorShape, Top, IDLE, OPENING, CLOSING
  <1> QED BY <1>1, <1>2
          DEF Init, AtStart, MInv, Emitted, InitialDoor, SwitchReady, IDLE, OPENING, CLOSING

(* The invariant is inductive: one case per disjunct of Next.              *)
LEMMA NextMInv == MInv /\ [Next]_vars => MInv'
  <1> SUFFICES ASSUME MInv, [Next]_vars PROVE MInv'
    OBVIOUS
  <1>1. CASE UNCHANGED vars
    BY <1>1 DEF vars, MInv, Emitted, kind
  <1> QED BY <1>1, PhaseMInv, RequestMInv, CrossCloseMInv DEF Next

(* The model's door phase, the gates' mirror and the emitted machine agree *)
(* on every frame, for every set of compatible doors.                      *)
THEOREM DoorPhasesAgree ==
  ASSUME \A c \in Configs : Compatible(c)
  PROVE  Spec => [](MirrorIsModel /\ BinaryIsMirror)
  <1>1. Init => MInv
    BY InitMInv
  <1>2. MInv => MirrorIsModel /\ BinaryIsMirror
    BY DEF MInv, MirrorIsModel, BinaryIsMirror
  <1> QED BY <1>1, <1>2, NextMInv, PTL DEF Spec

(* World._doors_phase and DoorPhase.tic agree by themselves: every gate    *)
(* that steps the one speaks of the other.                                 *)
THEOREM SpecMirrorIsModel ==
  ASSUME \A c \in Configs : Compatible(c)
  PROVE  Spec => []MirrorIsModel
  <1>1. Init => MInv
    BY InitMInv
  <1>2. MInv => MirrorIsModel
    BY DEF MInv, MirrorIsModel
  <1> QED BY <1>1, <1>2, NextMInv, PTL DEF Spec

(* The cells of all three keep their ranges (the emitted ones their        *)
(* nibbles: no counter wraps, no state steps past the top).                *)
THEOREM SpecTypeOK ==
  ASSUME \A c \in Configs : Compatible(c)
  PROVE  Spec => []TypeOK
  <1>1. Init => MInv
    BY InitMInv
  <1>2. MInv => TypeOK
    BY DEF MInv, TypeOK
  <1> QED BY <1>1, <1>2, NextMInv, PTL DEF Spec

(***************************************************************************)
(* The movers: the inductive invariant                                     *)
(***************************************************************************)

StepOf(l) == IF l \in Perpetual THEN PerpSub ELSE 1

LiftCells(l) ==
  [state : 0 .. Bottom(l), dir : {IDLE, OPENING, CLOSING},
   sub : 0 .. StepOf(l), wait : 0 .. LiftWait]

(* A lift rests at its top, waits at an end (a plain one at its bottom),   *)
(* and on its way counts a stop's frames and no wait.                      *)
LiftShape(l, st) ==
  /\ st.dir = IDLE /\ st.wait = 0 => st.state = 0
  /\ st.dir = IDLE /\ st.wait > 0 =>
       st.state = Bottom(l) \/ (st.state = 0 /\ l \in Perpetual)
  /\ st.dir # IDLE => st.sub > 0 /\ st.wait = 0
  /\ st.dir = OPENING => st.state < Bottom(l) /\ (st.state > 0 \/ l \in Perpetual)
  /\ st.dir = CLOSING => st.state > 0

FloorCells(g) == [state : 0 .. GroupN[g] - 1, sub : 0 .. GroupSub[g]]

(* A floor that still counts is not there yet.                             *)
FloorShape(g, f) == f.sub > 0 => f.state < GroupN[g] - 1

LiftsShaped ==
  \A l \in Lift : lift[l] \in LiftCells(l) /\ LiftShape(l, lift[l])

FloorsShaped ==
  \A g \in Group : floor[g] \in FloorCells(g) /\ FloorShape(g, floor[g])

FrameShaped ==
  /\ req \subseteq Lift /\ on \subseteq Switch
  /\ time \in [Repeats -> 0 .. ButtonFrames]
  /\ over \in BOOLEAN /\ phase \in Phases
  /\ phase \in {"movers", "use", "monsters"} => ~over

(* The countdown of a button that came out at this frame's use, or at the  *)
(* last one's.                                                             *)
JustOut(w) ==
  time[w] = IF phase \in {"movers", "use"} THEN ButtonFrames - 1 ELSE ButtonFrames

(* Until the movers' phase a lift it called is at rest with its call in    *)
(* place; after it that lift rides.                                        *)
LiftAsked(w) ==
  \E l \in Calls[w] :
    IF phase = "use" THEN lift[l].state # 0 ELSE lift[l].state = 0 /\ l \in req

LiftButtons ==
  \A w \in on : SwitchKind[w] = "lift" =>
    /\ phase \in {"movers", "use"} => time[w] < ButtonFrames
    /\ ~over /\ JustOut(w) => LiftAsked(w)

FloorSwitches ==
  \A w \in on : SwitchKind[w] = "floor" /\ ~over =>
    \A g \in Fires[w] : Fired(floor[g])

MoversInv ==
  /\ fjLift = lift /\ fjFloor = floor
  /\ LiftsShaped /\ FloorsShaped /\ FrameShaped
  /\ ButtonsRun /\ LiftButtons /\ FloorSwitches

(***************************************************************************)
(* One tic of a plain lift                                                 *)
(***************************************************************************)

(* Slot by slot, what a lift's tic may be.                                 *)
LiftGoes(l, st, triggered, next) ==
  \/ st.state = 0 /\ ~triggered /\ next = st
  \/ /\ st.dir = OPENING \/ (st.state = 0 /\ triggered)
     /\ next = IF st.state + Stride[l] >= Bottom(l)
                THEN Course(Bottom(l), IDLE, LiftWait)
                ELSE Course(st.state + Stride[l], OPENING, 0)
  \/ /\ st.dir = CLOSING
     /\ next = IF st.state <= Stride[l] THEN Course(0, IDLE, 0)
                ELSE Course(st.state - Stride[l], CLOSING, 0)
  \/ st.dir = IDLE /\ st.wait = 1 /\ next = Course(st.state, CLOSING, 0)
  \/ st.dir = IDLE /\ st.wait > 1 /\ next = [st EXCEPT !.wait = @ - 1]

LEMMA LiftFacts ==
  ASSUME NEW l \in Lift
  PROVE  /\ Bottom(l) \in 1 .. 15 /\ Stride[l] \in Nat \ {0}
         /\ LiftWait \in Nat \ {0} /\ PerpSub \in 1 .. 15 /\ Speed = 1
         /\ Top(Kind(l)) = Bottom(l)
  BY MoverAssumption, SpeedIsOne DEF Bottom, Top, Kind

(* door_tic on a lift's kind, in each of the states a lift is in.          *)
LEMMA LiftTicGoes ==
  ASSUME NEW l \in Lift, l \notin Perpetual,
         NEW st \in LiftCells(l), LiftShape(l, st), NEW triggered \in BOOLEAN
  PROVE  LiftGoes(l, st, triggered, LiftTic(l, st, triggered))
  <1> DEFINE k == Kind(l)
             tic == LiftTic(l, st, triggered)
  <1>0. /\ Top(k) = Bottom(l) /\ k.stride = Stride[l] /\ k.down = Stride[l]
        /\ k.stay = FALSE /\ k.wait = LiftWait /\ TopWait(k) = LiftWait
    BY LiftFacts DEF Kind, TopWait
  <1>f. /\ Bottom(l) \in 1 .. 15 /\ Stride[l] \in Nat \ {0} /\ LiftWait \in Nat \ {0}
        /\ Speed = 1
    BY LiftFacts
  <1>s. /\ st.state \in 0 .. Bottom(l) /\ st.dir \in {IDLE, OPENING, CLOSING}
        /\ st.sub \in 0 .. 1 /\ st.wait \in 0 .. LiftWait
    BY DEF LiftCells, StepOf
  <1>t. tic = IF triggered /\ st.state = 0 /\ st.dir # OPENING
              THEN Motion(k, Press(k, st, FALSE), FALSE) ELSE Motion(k, st, FALSE)
    BY <1>0, <1>f DEF LiftTic, DoorTic, OpenForGood
  <1> HIDE DEF k, tic
  <1> USE DEF IDLE, OPENING, CLOSING, STAY_MARK
  <1>1. CASE st.state = 0 /\ ~triggered
    <2>1. st.dir = IDLE /\ st.wait = 0
      BY <1>1, <1>f, <1>s DEF LiftShape
    <2> QED BY <1>1, <1>t, <2>1 DEF Motion, LiftGoes, tic
  <1>2. CASE st.state = 0 /\ triggered
    <2>1. st.dir # OPENING
      BY <1>2, <1>s DEF LiftShape
    <2>2. Press(k, st, FALSE) = Course(0, OPENING, 0)
      BY <1>0, <1>2, <1>f DEF Press
    <2>3. tic = Motion(k, Course(0, OPENING, 0), FALSE)
      BY <1>2, <1>t, <2>1, <2>2
    <2>4. tic = StepUp(k, Course(0, OPENING, 0))
      BY <1>f, <2>3 DEF Motion, Course
    <2>5. tic = IF 0 + Stride[l] >= Bottom(l) THEN Course(Bottom(l), IDLE, LiftWait)
                ELSE Course(0 + Stride[l], OPENING, 0)
      <3>1. Course(0, OPENING, 0).state = 0 /\ Course(0, OPENING, 0).wait = 0
        BY DEF Course
      <3>2. ArrivalWait(k, Course(0, OPENING, 0)) = LiftWait
        BY <1>0, <3>1 DEF ArrivalWait
      <3> QED BY <1>0, <2>4, <3>1, <3>2, Zenon DEF StepUp
    <2> QED BY <1>2, <2>5, Zenon DEF LiftGoes, tic
  <1>3. CASE st.state # 0 /\ st.dir = OPENING
    <2>1. tic = StepUp(k, st) /\ st.wait = 0
      BY <1>3, <1>s, <1>t DEF Motion, LiftShape
    <2> QED BY <1>0, <1>3, <1>f, <2>1 DEF StepUp, ArrivalWait, LiftGoes, tic
  <1>4. CASE st.state # 0 /\ st.dir = CLOSING
    <2>1. st.sub = 1 /\ st.wait = 0 /\ tic = Motion(k, st, FALSE)
      BY <1>4, <1>s, <1>t DEF LiftShape
    <2>2. tic = StepDown(k, st, FALSE)
      BY <1>4, <2>1 DEF Motion
    <2> QED BY <1>0, <1>4, <1>f, <2>1, <2>2 DEF StepDown, LiftGoes, tic
  <1>5. CASE st.state # 0 /\ st.dir = IDLE
    <2>1. tic = WaitOut(st) /\ st.wait > 0
      BY <1>5, <1>s, <1>t DEF Motion, LiftShape
    <2> QED BY <1>5, <1>s, <2>1 DEF WaitOut, LiftGoes, tic
  <1> QED BY <1>1, <1>2, <1>3, <1>4, <1>5, <1>s DEF tic

(* What of the emitted machine is a plain lift's: it is the door machine's *)
(* with no stay switch, and with no contact to reverse on.                 *)
EmittedLiftMotion(l, st) == Fj(Kind(l))!EmittedMotion(st, FALSE)

LEMMA EmittedLiftCode ==
  ASSUME NEW l \in Lift, NEW st
  PROVE  /\ Fj(Kind(l))!EmittedPress(st) =
              IF st.dir = OPENING THEN st
              ELSE IF st.state = Bottom(l) THEN Course(st.state, IDLE, LiftWait)
              ELSE Course(st.state, OPENING, 0)
         /\ st.dir = IDLE => EmittedLiftMotion(l, st) =
              IF st.wait = 0 THEN st
              ELSE IF st.wait = 1 THEN Course(st.state, CLOSING, 0)
              ELSE [st EXCEPT !.wait = @ - 1]
         /\ st.dir = OPENING /\ st.sub = 1 /\ st.wait = 0 =>
              EmittedLiftMotion(l, st) =
                IF \E i \in 1 .. Stride[l] : (st.state + i) % 16 = Bottom(l)
                THEN Course(Bottom(l), IDLE, LiftWait)
                ELSE Course((st.state + Stride[l]) % 16, OPENING, 0)
         /\ st.dir = CLOSING /\ st.sub = 1 =>
              EmittedLiftMotion(l, st) =
                IF \E i \in 1 .. Stride[l] : (st.state - i) % 16 = 0
                THEN Course(0, IDLE, st.wait)
                ELSE Course((st.state - Stride[l]) % 16, CLOSING, st.wait)
  <1>1. /\ Fj(Kind(l))!kind = Kind(l) /\ Fj(Kind(l))!Top(Kind(l)) = Bottom(l) /\ Fj(Kind(l))!TopWait(Kind(l)) = LiftWait
        /\ Kind(l).stride = Stride[l] /\ Kind(l).down = Stride[l]
    BY DEF Fj!kind, Fj!Top, Fj!TopWait, Kind, Bottom
  <1>2. /\ Fj(Kind(l))!IDLE = IDLE /\ Fj(Kind(l))!OPENING = OPENING /\ Fj(Kind(l))!CLOSING = CLOSING
        /\ IDLE # OPENING /\ IDLE # CLOSING /\ OPENING # CLOSING
    BY DEF Fj!IDLE, Fj!OPENING, Fj!CLOSING, IDLE, OPENING, CLOSING
  <1>3. ASSUME NEW s, NEW d, NEW w
        PROVE  Fj(Kind(l))!Course(s, d, w) = Course(s, d, w)
    BY DEF Fj!Course, Course
  <1>4. Fj(Kind(l))!EmittedPress(st) =
              IF st.dir = OPENING THEN st
              ELSE IF st.state = Bottom(l) THEN Course(st.state, IDLE, LiftWait)
              ELSE Course(st.state, OPENING, 0)
    BY <1>1, <1>2, <1>3 DEF Fj!EmittedPress
  <1>5. st.dir = IDLE => EmittedLiftMotion(l, st) =
              IF st.wait = 0 THEN st
              ELSE IF st.wait = 1 THEN Course(st.state, CLOSING, 0)
              ELSE [st EXCEPT !.wait = @ - 1]
    BY <1>2, <1>3 DEF EmittedLiftMotion, Fj!EmittedMotion
  <1>6. ASSUME st.dir = OPENING, st.sub = 1, st.wait = 0
        PROVE  EmittedLiftMotion(l, st) =
                IF \E i \in 1 .. Stride[l] : (st.state + i) % 16 = Bottom(l)
                THEN Course(Bottom(l), IDLE, LiftWait)
                ELSE Course((st.state + Stride[l]) % 16, OPENING, 0)
    <2>1. EmittedLiftMotion(l, st) = Fj(Kind(l))!EmittedUp(st)
      BY <1>2, <1>6 DEF EmittedLiftMotion, Fj!EmittedMotion
    <2>2. Fj(Kind(l))!EmittedTopWait(st) = LiftWait
      BY <1>1, <1>6 DEF Fj!EmittedTopWait, Fj!STAY_MARK
    <2>3. Fj(Kind(l))!EmittedArrives(st.state) <=>
            \E i \in 1 .. Stride[l] : (st.state + i) % 16 = Bottom(l)
      BY <1>1 DEF Fj!EmittedArrives
    <2>4. EmittedLiftMotion(l, st) =
            IF Fj(Kind(l))!EmittedArrives(st.state) THEN Course(Bottom(l), IDLE, LiftWait)
            ELSE Course((st.state + Kind(l).stride) % 16, OPENING, st.wait)
      BY <1>1, <1>2, <1>3, <2>1, <2>2, Zenon DEF Fj!EmittedUp
    <2> QED BY <1>1, <1>6, <2>3, <2>4
  <1>7. ASSUME st.dir = CLOSING, st.sub = 1
        PROVE  EmittedLiftMotion(l, st) =
                IF \E i \in 1 .. Stride[l] : (st.state - i) % 16 = 0
                THEN Course(0, IDLE, st.wait)
                ELSE Course((st.state - Stride[l]) % 16, CLOSING, st.wait)
    <2>1. EmittedLiftMotion(l, st) = Fj(Kind(l))!EmittedDown(st, FALSE)
      BY <1>2, <1>7 DEF EmittedLiftMotion, Fj!EmittedMotion
    <2> QED BY <1>1, <1>2, <1>3, <2>1 DEF Fj!EmittedDown
  <1> QED BY <1>4, <1>5, <1>6, <1>7

(* Counting a lift's nibble by ones meets its ends where door_tic's clamps *)
(* would.                                                                  *)
LEMMA LiftNibble ==
  ASSUME NEW l \in Lift, NEW s \in 0 .. Bottom(l)
  PROVE  /\ s < Bottom(l) =>
              /\ (\E i \in 1 .. Stride[l] : (s + i) % 16 = Bottom(l))
                   <=> s + Stride[l] >= Bottom(l)
              /\ s + Stride[l] < Bottom(l) => (s + Stride[l]) % 16 = s + Stride[l]
         /\ s > 0 =>
              /\ (\E i \in 1 .. Stride[l] : (s - i) % 16 = 0) <=> s <= Stride[l]
              /\ s > Stride[l] => (s - Stride[l]) % 16 = s - Stride[l]
  <1> DEFINE t == Bottom(l)
             d == Stride[l]
  <1>1. t \in 0 .. 15 /\ d \in Nat \ {0} /\ s \in 0 .. 15 /\ (s > 0 => s \in 1 .. 15)
    BY LiftFacts
  <1> HIDE DEF t, d
  <1>2. s < t => /\ (\E i \in 1 .. d : (s + i) % 16 = t) <=> s + d >= t
                 /\ s + d < t => (s + d) % 16 = s + d
    BY <1>1, NibbleUp
  <1>3. s > 0 => /\ (\E i \in 1 .. d : (s - i) % 16 = 0) <=> s <= d
                 /\ s > d => (s - d) % 16 = s - d
    BY <1>1, NibbleDown
  <1> QED BY <1>2, <1>3 DEF t, d

(* The emitted lines do the same.                                          *)
LEMMA EmittedLiftAgrees ==
  ASSUME NEW l \in Lift, l \notin Perpetual,
         NEW st \in LiftCells(l), LiftShape(l, st), NEW triggered \in BOOLEAN
  PROVE  EmittedLift(l, st, triggered) = LiftTic(l, st, triggered)
  <1> DEFINE tic == LiftTic(l, st, triggered)
             emitted == EmittedLift(l, st, triggered)
             start == Course(0, OPENING, 0)
  <1>f. /\ Bottom(l) \in 1 .. 15 /\ Stride[l] \in Nat \ {0} /\ LiftWait \in Nat \ {0}
        /\ Speed = 1
    BY LiftFacts
  <1>s. /\ st.state \in 0 .. Bottom(l) /\ st.dir \in {IDLE, OPENING, CLOSING}
        /\ st.sub \in 0 .. 1 /\ st.wait \in 0 .. LiftWait
    BY DEF LiftCells, StepOf
  <1>d. IDLE # OPENING /\ IDLE # CLOSING /\ OPENING # CLOSING
    BY DEF IDLE, OPENING, CLOSING
  <1>g. LiftGoes(l, st, triggered, tic)
    BY LiftTicGoes
  <1>1. st.state = 0 => st.dir = IDLE /\ st.wait = 0
    BY <1>d, <1>f, <1>s DEF LiftShape
  <1>2. /\ ~(triggered /\ st.state = 0) => emitted = EmittedLiftMotion(l, st)
        /\ triggered /\ st.state = 0 => emitted = EmittedLiftMotion(l, start)
    <2>1. st.state = 0 => Fj(Kind(l))!EmittedPress(st) = start
      BY <1>1, <1>d, <1>f, EmittedLiftCode
    <2> QED BY <2>1, Zenon DEF EmittedLift, EmittedLiftMotion
  <1> HIDE DEF tic, emitted
  <1>3. CASE st.state = 0 /\ ~triggered
    <2>1. EmittedLiftMotion(l, st) = st
      BY <1>1, <1>3, EmittedLiftCode
    <2>2. tic = st
      BY <1>1, <1>3, <1>d, <1>g DEF LiftGoes
    <2> QED BY <1>2, <1>3, <2>1, <2>2 DEF emitted, tic
  <1>4. CASE st.state = 0 /\ triggered
    <2>1. start.dir = OPENING /\ start.sub = 1 /\ start.wait = 0 /\ start.state = 0
      BY <1>f DEF Course
    <2>2. EmittedLiftMotion(l, start) =
            IF \E i \in 1 .. Stride[l] : (0 + i) % 16 = Bottom(l)
            THEN Course(Bottom(l), IDLE, LiftWait)
            ELSE Course((0 + Stride[l]) % 16, OPENING, 0)
      <3> HIDE DEF start
      <3> QED BY <2>1, EmittedLiftCode
    <2>3. tic = IF 0 + Stride[l] >= Bottom(l) THEN Course(Bottom(l), IDLE, LiftWait)
                ELSE Course(0 + Stride[l], OPENING, 0)
      BY <1>1, <1>4, <1>d, <1>g DEF LiftGoes
    <2>4. /\ (\E i \in 1 .. Stride[l] : (0 + i) % 16 = Bottom(l)) <=> 0 + Stride[l] >= Bottom(l)
          /\ 0 + Stride[l] < Bottom(l) => (0 + Stride[l]) % 16 = 0 + Stride[l]
      <3>1. 0 \in 0 .. Bottom(l) /\ 0 < Bottom(l)
        BY <1>f
      <3> QED BY <3>1, LiftNibble
    <2>5. ~(0 + Stride[l] >= Bottom(l)) => 0 + Stride[l] < Bottom(l)
      BY <1>f
    <2>6. EmittedLiftMotion(l, start) = tic
      BY <2>2, <2>3, <2>4, <2>5, Zenon
    <2> QED BY <1>2, <1>4, <2>6, Zenon DEF emitted, tic
  <1>5. CASE st.state # 0 /\ st.dir = OPENING
    <2>1. st.sub = 1 /\ st.wait = 0 /\ st.state < Bottom(l)
      BY <1>5, <1>d, <1>s DEF LiftShape
    <2>2. EmittedLiftMotion(l, st) =
            IF \E i \in 1 .. Stride[l] : (st.state + i) % 16 = Bottom(l)
            THEN Course(Bottom(l), IDLE, LiftWait)
            ELSE Course((st.state + Stride[l]) % 16, OPENING, 0)
      BY <1>5, <2>1, EmittedLiftCode
    <2>3. tic = IF st.state + Stride[l] >= Bottom(l) THEN Course(Bottom(l), IDLE, LiftWait)
                ELSE Course(st.state + Stride[l], OPENING, 0)
      BY <1>5, <1>d, <1>g DEF LiftGoes
    <2>4. /\ (\E i \in 1 .. Stride[l] : (st.state + i) % 16 = Bottom(l))
                <=> st.state + Stride[l] >= Bottom(l)
          /\ st.state + Stride[l] < Bottom(l) =>
                (st.state + Stride[l]) % 16 = st.state + Stride[l]
      BY <1>s, <2>1, LiftNibble
    <2>5. ~(st.state + Stride[l] >= Bottom(l)) => st.state + Stride[l] < Bottom(l)
      BY <1>f, <1>s
    <2>6. EmittedLiftMotion(l, st) = tic
      BY <2>2, <2>3, <2>4, <2>5, Zenon
    <2> QED BY <1>2, <1>5, <2>6, Zenon DEF emitted, tic
  <1>6. CASE st.state # 0 /\ st.dir = CLOSING
    <2>1. st.sub = 1 /\ st.wait = 0
      BY <1>6, <1>d, <1>s DEF LiftShape
    <2>2. EmittedLiftMotion(l, st) =
            IF \E i \in 1 .. Stride[l] : (st.state - i) % 16 = 0
            THEN Course(0, IDLE, 0)
            ELSE Course((st.state - Stride[l]) % 16, CLOSING, 0)
      BY <1>6, <2>1, EmittedLiftCode
    <2>3. tic = IF st.state <= Stride[l] THEN Course(0, IDLE, 0)
                ELSE Course(st.state - Stride[l], CLOSING, 0)
      BY <1>6, <1>d, <1>g DEF LiftGoes
    <2>4. /\ (\E i \in 1 .. Stride[l] : (st.state - i) % 16 = 0) <=> st.state <= Stride[l]
          /\ st.state > Stride[l] => (st.state - Stride[l]) % 16 = st.state - Stride[l]
      <3>1. st.state > 0
        BY <1>6, <1>s
      <3> QED BY <1>s, <3>1, LiftNibble
    <2>5. ~(st.state <= Stride[l]) => st.state > Stride[l]
      BY <1>f, <1>s
    <2>6. EmittedLiftMotion(l, st) = tic
      BY <2>2, <2>3, <2>4, <2>5, Zenon
    <2> QED BY <1>2, <1>6, <2>6, Zenon DEF emitted, tic
  <1>7. CASE st.state # 0 /\ st.dir = IDLE
    <2>1. EmittedLiftMotion(l, st) =
              IF st.wait = 0 THEN st
              ELSE IF st.wait = 1 THEN Course(st.state, CLOSING, 0)
              ELSE [st EXCEPT !.wait = @ - 1]
      BY <1>7, EmittedLiftCode
    <2>2. st.wait > 0
      BY <1>7, <1>s DEF LiftShape
    <2>3. EmittedLiftMotion(l, st) = tic
      BY <1>7, <1>d, <1>g, <1>s, <2>1, <2>2 DEF LiftGoes
    <2> QED BY <1>2, <1>7, <2>3, Zenon DEF emitted, tic
  <1> QED BY <1>3, <1>4, <1>5, <1>6, <1>7, <1>s DEF emitted, tic

LEMMA LiftTicKeeps ==
  ASSUME NEW l \in Lift, l \notin Perpetual,
         NEW st \in LiftCells(l), LiftShape(l, st), NEW triggered \in BOOLEAN
  PROVE  /\ LiftTic(l, st, triggered) \in LiftCells(l)
         /\ LiftShape(l, LiftTic(l, st, triggered))
         /\ triggered /\ st.state = 0 => LiftTic(l, st, triggered).state # 0
  <1> DEFINE tic == LiftTic(l, st, triggered)
  <1>1. LiftGoes(l, st, triggered, tic)
    BY LiftTicGoes
  <1>2. /\ Bottom(l) \in 1 .. 15 /\ Stride[l] \in Nat \ {0} /\ LiftWait \in Nat \ {0}
        /\ Speed = 1
    BY LiftFacts
  <1> HIDE DEF tic
  <1>3. tic \in LiftCells(l) /\ LiftShape(l, tic) /\ (triggered /\ st.state = 0 => tic.state # 0)
    BY <1>1, <1>2
    DEF LiftGoes, LiftCells, LiftShape, StepOf, Course, IDLE, OPENING, CLOSING
  <1> QED BY <1>3 DEF tic

(***************************************************************************)
(* One tic of a perpetual lift                                             *)
(***************************************************************************)

(* The emitted timer of a stop, and its end by equality.                   *)
LEMMA PerpStepAgrees ==
  ASSUME NEW l \in Lift, NEW st, st.sub \in 1 .. 15, NEW next, NEW end,
         next \in {0, Bottom(l)} <=> next = end
  PROVE  EmittedPerpStep(st, next, end) = PerpMove(l, st, next)
  <1>1. (st.sub - 1) % 16 = st.sub - 1
    BY Nibble
  <1>2. (st.sub - 1) % 16 # 0 <=> st.sub > 1
    BY <1>1
  <1> QED BY <1>1, <1>2, Zenon DEF EmittedPerpStep, PerpMove

LEMMA PerpMoveKeeps ==
  ASSUME NEW l \in Perpetual,
         NEW st \in LiftCells(l), LiftShape(l, st), st.dir # IDLE,
         NEW next \in 0 .. Bottom(l),
         st.dir = OPENING => next > 0, st.dir = CLOSING => next < Bottom(l)
  PROVE  PerpMove(l, st, next) \in LiftCells(l) /\ LiftShape(l, PerpMove(l, st, next))
  <1>1. l \in Lift
    BY MoverAssumption
  <1>2. Bottom(l) \in 1 .. 15 /\ LiftWait \in Nat \ {0} /\ PerpSub \in 1 .. 15
    BY <1>1, LiftFacts
  <1>3. /\ st.state \in 0 .. Bottom(l) /\ st.dir \in {IDLE, OPENING, CLOSING}
        /\ st.sub \in 0 .. PerpSub /\ st.wait \in 0 .. LiftWait
    BY DEF LiftCells, StepOf
  <1>4. /\ StepOf(l) = PerpSub /\ IDLE # OPENING /\ IDLE # CLOSING /\ OPENING # CLOSING
        /\ IDLE \in {IDLE, OPENING, CLOSING}
    BY DEF StepOf, IDLE, OPENING, CLOSING
  <1> DEFINE m == PerpMove(l, st, next)
  <1>5. CASE st.sub > 1
    <2>1. m = [st EXCEPT !.sub = @ - 1]
      BY <1>5 DEF PerpMove
    <2> HIDE DEF m
    <2>2. m \in LiftCells(l) /\ LiftShape(l, m)
      BY <1>2, <1>3, <1>4, <1>5, <2>1 DEF LiftCells, LiftShape
    <2> QED BY <2>2 DEF m
  <1>6. CASE ~(st.sub > 1) /\ next \in {0, Bottom(l)}
    <2>1. m = [state |-> next, dir |-> IDLE, sub |-> 0, wait |-> LiftWait]
      BY <1>6 DEF PerpMove, PerpEnd
    <2> HIDE DEF m
    <2>2. m \in LiftCells(l) /\ LiftShape(l, m)
      BY <1>2, <1>4, <1>6, <2>1 DEF LiftCells, LiftShape
    <2> QED BY <2>2 DEF m
  <1>7. CASE ~(st.sub > 1) /\ next \notin {0, Bottom(l)}
    <2>1. m = [state |-> next, dir |-> st.dir, sub |-> PerpSub, wait |-> st.wait]
      BY <1>7 DEF PerpMove, LiftCells
    <2> HIDE DEF m
    <2>2. m \in LiftCells(l) /\ LiftShape(l, m)
      BY <1>2, <1>3, <1>4, <1>7, <2>1 DEF LiftCells, LiftShape
    <2> QED BY <2>2 DEF m
  <1> QED BY <1>5, <1>6, <1>7

LEMMA LiftRecord ==
  ASSUME NEW l, NEW st \in LiftCells(l)
  PROVE  st = [state |-> st.state, dir |-> st.dir, sub |-> st.sub, wait |-> st.wait]
  BY DEF LiftCells

(* Set off down from its top.                                              *)
Going(st) == [st EXCEPT !.dir = OPENING, !.sub = PerpSub]

LEMMA GoingKeeps ==
  ASSUME NEW l \in Perpetual, NEW st \in LiftCells(l), st.state = 0, st.wait = 0
  PROVE  Going(st) \in LiftCells(l) /\ LiftShape(l, Going(st))
  <1>1. l \in Lift
    BY MoverAssumption
  <1>2. Bottom(l) \in 1 .. 15 /\ LiftWait \in Nat \ {0} /\ PerpSub \in 1 .. 15
    BY <1>1, LiftFacts
  <1>3. /\ StepOf(l) = PerpSub /\ IDLE # OPENING /\ OPENING # CLOSING
        /\ OPENING \in {IDLE, OPENING, CLOSING}
    BY DEF StepOf, IDLE, OPENING, CLOSING
  <1>4. Going(st) \in LiftCells(l)
    <2> DEFINE S == 0 .. Bottom(l)
               D == {IDLE, OPENING, CLOSING}
               C == 0 .. StepOf(l)
               W == 0 .. LiftWait
    <2>1. st \in [state : S, dir : D, sub : C, wait : W]
      BY DEF LiftCells
    <2>2. OPENING \in D /\ PerpSub \in C
      BY <1>2, <1>3
    <2> HIDE DEF S, D, C, W
    <2>3. Going(st) \in [state : S, dir : D, sub : C, wait : W]
      BY <2>1, <2>2 DEF Going
    <2> QED BY <2>3 DEF S, D, C, W, LiftCells
  <1>5. /\ Going(st).state = 0 /\ Going(st).dir = OPENING
        /\ Going(st).sub = PerpSub /\ Going(st).wait = 0
    BY DEF Going, LiftCells
  <1> QED BY <1>2, <1>3, <1>4, <1>5 DEF LiftShape

(* perpetual_tic in each of the states a perpetual lift is in.             *)
LEMMA PerpTicGoes ==
  ASSUME NEW l \in Perpetual,
         NEW st \in LiftCells(l), LiftShape(l, st), NEW triggered \in BOOLEAN
  PROVE  /\ st.dir = IDLE /\ st.wait = 0 => st.state = 0
         /\ st.dir = IDLE /\ st.wait = 0 /\ ~triggered => PerpTic(l, st, triggered) = st
         /\ st.dir = IDLE /\ st.wait = 0 /\ triggered =>
              PerpTic(l, st, triggered) = PerpMove(l, Going(st), st.state + 1)
         /\ st.dir = OPENING => PerpTic(l, st, triggered) = PerpMove(l, st, st.state + 1)
         /\ st.dir = CLOSING => PerpTic(l, st, triggered) = PerpMove(l, st, st.state - 1)
         /\ st.dir = IDLE /\ st.wait > 1 => PerpTic(l, st, triggered) = [st EXCEPT !.wait = @ - 1]
         /\ st.dir = IDLE /\ st.wait = 1 => PerpTic(l, st, triggered) = PerpTurn(st)
  <1>1. l \in Lift
    BY MoverAssumption
  <1>2. st.state \in Nat /\ st.wait \in Nat /\ st.dir \in {IDLE, OPENING, CLOSING}
    BY <1>1, LiftFacts DEF LiftCells
  <1>3. IDLE # OPENING /\ IDLE # CLOSING /\ OPENING # CLOSING
    BY DEF IDLE, OPENING, CLOSING
  <1>4. st.dir = IDLE /\ st.wait = 0 => st.state = 0
    BY DEF LiftShape
  <1>5. ~(st.wait = 0 /\ st.wait > 1) /\ ~(st.wait = 0 /\ st.wait = 1) /\ ~(st.wait > 1 /\ st.wait = 1)
    BY <1>2
  <1> HIDE DEF IDLE, OPENING, CLOSING
  <1> QED BY <1>2, <1>3, <1>4, <1>5 DEF PerpTic, SwitchReady, Going

LEMMA PerpTicKeeps ==
  ASSUME NEW l \in Perpetual,
         NEW st \in LiftCells(l), LiftShape(l, st), NEW triggered \in BOOLEAN
  PROVE  /\ PerpTic(l, st, triggered) \in LiftCells(l)
         /\ LiftShape(l, PerpTic(l, st, triggered))
  <1> DEFINE tic == PerpTic(l, st, triggered)
  <1>1. l \in Lift
    BY MoverAssumption
  <1>2. Bottom(l) \in 1 .. 15 /\ LiftWait \in Nat \ {0} /\ PerpSub \in 1 .. 15
    BY <1>1, LiftFacts
  <1>3. /\ st.state \in 0 .. Bottom(l) /\ st.dir \in {IDLE, OPENING, CLOSING}
        /\ st.wait \in 0 .. LiftWait
    BY DEF LiftCells
  <1>4. IDLE # OPENING /\ IDLE # CLOSING /\ OPENING # CLOSING
    BY DEF IDLE, OPENING, CLOSING
  <1>5. CASE st.dir = IDLE /\ st.wait = 0 /\ ~triggered
    BY <1>5, PerpTicGoes
  <1>6. CASE st.dir = IDLE /\ st.wait = 0 /\ triggered
    <2>1. st.state = 0 /\ tic = PerpMove(l, Going(st), st.state + 1)
      BY <1>6, PerpTicGoes
    <2>2. Going(st) \in LiftCells(l) /\ LiftShape(l, Going(st)) /\ Going(st).dir = OPENING
      BY <1>6, <2>1, GoingKeeps DEF Going, LiftCells
    <2>3. st.state + 1 \in 0 .. Bottom(l) /\ st.state + 1 > 0
      BY <1>2, <2>1
    <2> QED BY <1>4, <2>1, <2>2, <2>3, PerpMoveKeeps
  <1>7. CASE st.dir = OPENING
    <2>1. tic = PerpMove(l, st, st.state + 1)
      BY <1>7, PerpTicGoes
    <2>2. st.state + 1 \in 0 .. Bottom(l) /\ st.state + 1 > 0
      BY <1>2, <1>3, <1>7 DEF LiftShape
    <2> QED BY <1>4, <1>7, <2>1, <2>2, PerpMoveKeeps
  <1>8. CASE st.dir = CLOSING
    <2>1. tic = PerpMove(l, st, st.state - 1)
      BY <1>8, PerpTicGoes
    <2>2. st.state - 1 \in 0 .. Bottom(l) /\ st.state - 1 < Bottom(l)
      BY <1>2, <1>3, <1>8 DEF LiftShape
    <2> QED BY <1>4, <1>8, <2>1, <2>2, PerpMoveKeeps
  <1>9. CASE st.dir = IDLE /\ st.wait > 1
    <2>1. tic = [st EXCEPT !.wait = @ - 1]
      BY <1>9, PerpTicGoes
    <2> HIDE DEF tic
    <2>2. tic \in LiftCells(l) /\ LiftShape(l, tic)
      BY <1>2, <1>4, <1>9, <2>1 DEF LiftCells, LiftShape
    <2> QED BY <2>2 DEF tic
  <1>10. CASE st.dir = IDLE /\ st.wait = 1
    <2>1. tic = PerpTurn(st) /\ st.state \in {0, Bottom(l)} /\ StepOf(l) = PerpSub
      BY <1>10, PerpTicGoes DEF LiftShape, StepOf
    <2>2. tic = [state |-> st.state, dir |-> IF st.state = 0 THEN OPENING ELSE CLOSING,
                 sub |-> PerpSub, wait |-> 0]
      BY <2>1 DEF PerpTurn, LiftCells
    <2> HIDE DEF tic
    <2>3. CASE st.state = 0
      <3>1. tic \in LiftCells(l) /\ LiftShape(l, tic)
        BY <1>2, <1>4, <2>1, <2>2, <2>3 DEF LiftCells, LiftShape
      <3> QED BY <3>1 DEF tic
    <2>4. CASE st.state # 0
      <3>1. tic \in LiftCells(l) /\ LiftShape(l, tic)
        BY <1>2, <1>3, <1>4, <2>1, <2>2, <2>4 DEF LiftCells, LiftShape
      <3> QED BY <3>1 DEF tic
    <2> QED BY <2>3, <2>4
  <1> QED BY <1>3, <1>5, <1>6, <1>7, <1>8, <1>9, <1>10

LEMMA EmittedPerpAgrees ==
  ASSUME NEW l \in Perpetual,
         NEW st \in LiftCells(l), LiftShape(l, st), NEW triggered \in BOOLEAN
  PROVE  EmittedPerp(l, st, triggered) = PerpTic(l, st, triggered)
  <1> DEFINE tic == PerpTic(l, st, triggered)
             emitted == EmittedPerp(l, st, triggered)
  <1>1. l \in Lift
    BY MoverAssumption
  <1>2. Bottom(l) \in 1 .. 15 /\ PerpSub \in 1 .. 15
    BY <1>1, LiftFacts
  <1>3. /\ st.state \in 0 .. Bottom(l) /\ st.dir \in {IDLE, OPENING, CLOSING}
        /\ st.sub \in 0 .. PerpSub /\ st.wait \in 0 .. LiftWait /\ LiftWait \in Nat
    BY MoverAssumption DEF LiftCells, StepOf
  <1>4. IDLE # OPENING /\ IDLE # CLOSING /\ OPENING # CLOSING
    BY DEF IDLE, OPENING, CLOSING
  <1>5. ~(triggered /\ st.dir = IDLE /\ st.wait = 0) => emitted = EmittedPerpMotion(l, st)
    BY DEF EmittedPerp, EmittedPerpStart
  <1>6. CASE st.dir = IDLE /\ st.wait = 0 /\ ~triggered
    BY <1>5, <1>6, PerpTicGoes DEF EmittedPerpMotion
  <1>7. CASE st.dir = IDLE /\ st.wait = 0 /\ triggered
    <2>1. /\ st.state = 0 /\ tic = PerpMove(l, Going(st), st.state + 1)
      BY <1>7, PerpTicGoes
    <2>2. Going(st).dir = OPENING /\ Going(st).state = 0 /\ Going(st).sub = PerpSub
      BY <2>1 DEF Going, LiftCells
    <2>3. emitted = EmittedPerpMotion(l, Going(st))
      BY <1>7, Zenon DEF EmittedPerp, EmittedPerpStart, Going
    <2>4. emitted = EmittedPerpStep(Going(st), (0 + 1) % 16, Bottom(l))
      BY <1>4, <2>2, <2>3 DEF EmittedPerpMotion
    <2>5. (0 + 1) % 16 = st.state + 1 /\ (st.state + 1 \in {0, Bottom(l)} <=> st.state + 1 = Bottom(l))
      BY <2>1
    <2>6. Going(st).sub \in 1 .. 15
      BY <1>2, <2>2
    <2>7. EmittedPerpStep(Going(st), st.state + 1, Bottom(l)) = PerpMove(l, Going(st), st.state + 1)
      BY <1>1, <2>5, <2>6, PerpStepAgrees
    <2> QED BY <2>1, <2>4, <2>5, <2>7
  <1>8. CASE st.dir = OPENING
    <2>1. tic = PerpMove(l, st, st.state + 1)
      BY <1>8, PerpTicGoes
    <2>2. emitted = EmittedPerpStep(st, (st.state + 1) % 16, Bottom(l))
      BY <1>4, <1>5, <1>8 DEF EmittedPerpMotion
    <2>3. st.sub \in 1 .. 15 /\ st.state + 1 \in 1 .. 15
      BY <1>2, <1>3, <1>4, <1>8 DEF LiftShape
    <2>4. (st.state + 1) % 16 = st.state + 1 /\ (st.state + 1 \in {0, Bottom(l)} <=> st.state + 1 = Bottom(l))
      BY <2>3, Nibble
    <2>5. EmittedPerpStep(st, st.state + 1, Bottom(l)) = PerpMove(l, st, st.state + 1)
      BY <1>1, <2>3, <2>4, PerpStepAgrees
    <2> QED BY <2>1, <2>2, <2>4, <2>5
  <1>9. CASE st.dir = CLOSING
    <2>1. tic = PerpMove(l, st, st.state - 1)
      BY <1>9, PerpTicGoes
    <2>2. emitted = EmittedPerpStep(st, (st.state - 1) % 16, 0)
      BY <1>4, <1>5, <1>9 DEF EmittedPerpMotion
    <2>3. st.sub \in 1 .. 15 /\ st.state - 1 \in 0 .. 15 /\ st.state - 1 < Bottom(l)
      BY <1>2, <1>3, <1>4, <1>9 DEF LiftShape
    <2>4. (st.state - 1) % 16 = st.state - 1 /\ (st.state - 1 \in {0, Bottom(l)} <=> st.state - 1 = 0)
      BY <1>2, <2>3, Nibble
    <2>5. EmittedPerpStep(st, st.state - 1, 0) = PerpMove(l, st, st.state - 1)
      BY <1>1, <2>3, <2>4, PerpStepAgrees
    <2> QED BY <2>1, <2>2, <2>4, <2>5
  <1>10. CASE st.dir = IDLE /\ st.wait > 1
    <2>1. tic = [st EXCEPT !.wait = @ - 1]
      BY <1>10, PerpTicGoes
    <2>2. emitted = [st EXCEPT !.wait = @ - 1]
      BY <1>3, <1>5, <1>10 DEF EmittedPerpMotion
    <2> QED BY <2>1, <2>2
  <1>11. CASE st.dir = IDLE /\ st.wait = 1
    <2>1. tic = [state |-> st.state, dir |-> IF st.state = 0 THEN OPENING ELSE CLOSING,
                 sub |-> PerpSub, wait |-> 0]
      <3>1. tic = PerpTurn(st)
        BY <1>11, PerpTicGoes
      <3> QED BY <3>1, LiftRecord DEF PerpTurn
    <2>2. emitted = [state |-> st.state, dir |-> IF st.state = 0 THEN OPENING ELSE CLOSING,
                     sub |-> PerpSub, wait |-> 0]
      <3>1. emitted = [st EXCEPT !.wait = 0, !.sub = PerpSub,
                                 !.dir = IF st.state = 0 THEN OPENING ELSE CLOSING]
        <4>1. st.wait # 0 /\ ~(st.wait > 1)
          BY <1>11
        <4> QED BY <1>5, <1>11, <4>1, Zenon DEF EmittedPerpMotion
      <3> QED BY <3>1, LiftRecord
    <2> QED BY <2>1, <2>2
  <1> QED BY <1>3, <1>6, <1>7, <1>8, <1>9, <1>10, <1>11

(***************************************************************************)
(* The floors                                                              *)
(***************************************************************************)

LEMMA GroupFacts ==
  ASSUME NEW g \in Group
  PROVE  /\ GroupN[g] \in 2 .. 16 /\ GroupSub[g] \in 0 .. 15
         /\ GroupSub[g] = 0 => GroupN[g] = 2
  BY MoverAssumption

(* One frame of a floor that moves by stops.                               *)
LEMMA FloorTicKeeps ==
  ASSUME NEW g \in Group, GroupSub[g] > 0, NEW f \in FloorCells(g), FloorShape(g, f)
  PROVE  /\ FloorTic(g, f) \in FloorCells(g) /\ FloorShape(g, FloorTic(g, f))
         /\ Fired(f) => Fired(FloorTic(g, f))
         /\ EmittedFloor(g, f) = FloorTic(g, f)
  <1>1. GroupN[g] \in 2 .. 16 /\ GroupSub[g] \in 1 .. 15
    BY GroupFacts
  <1>2. f.state \in 0 .. GroupN[g] - 1 /\ f.sub \in 0 .. GroupSub[g]
    BY DEF FloorCells
  <1>3. CASE f.sub = 0
    BY <1>3 DEF FloorTic, EmittedFloor
  <1>4. CASE f.sub > 1
    BY <1>1, <1>2, <1>4 DEF FloorTic, EmittedFloor, FloorCells, FloorShape, Fired, Still
  <1>5. CASE f.sub = 1
    <2>1. f.state + 1 \in 1 .. 15 /\ f.state + 1 <= GroupN[g] - 1
      BY <1>1, <1>2, <1>5 DEF FloorShape
    <2>2. (f.state + 1) % 16 = f.state + 1
      BY <2>1, Nibble
    <2>3. FloorTic(g, f) = [state |-> f.state + 1,
                            sub |-> IF f.state + 1 < GroupN[g] - 1 THEN GroupSub[g] ELSE 0]
      BY <1>5 DEF FloorTic
    <2>4. EmittedFloor(g, f) = [state |-> f.state + 1,
                            sub |-> IF f.state + 1 = GroupN[g] - 1 THEN 0 ELSE GroupSub[g]]
      BY <1>1, <1>5, <2>2 DEF EmittedFloor
    <2>5. f.state + 1 < GroupN[g] - 1 <=> f.state + 1 # GroupN[g] - 1
      BY <1>1, <1>2, <2>1
    <2>6. EmittedFloor(g, f) = FloorTic(g, f)
      BY <2>3, <2>4, <2>5
    <2>7. FloorTic(g, f) \in FloorCells(g) /\ FloorShape(g, FloorTic(g, f)) /\ Fired(FloorTic(g, f))
      BY <1>1, <2>1, <2>3 DEF FloorCells, FloorShape, Fired, Still
    <2> QED BY <2>6, <2>7
  <1> QED BY <1>2, <1>3, <1>4, <1>5

(* A trigger: _floor_trigger, and the cells _fire_lines writes.            *)
LEMMA FloorTriggerKeeps ==
  ASSUME NEW g \in Group, NEW f \in FloorCells(g), FloorShape(g, f)
  PROVE  /\ FloorTrigger(g, f) \in FloorCells(g) /\ FloorShape(g, FloorTrigger(g, f))
         /\ Fired(FloorTrigger(g, f)) /\ (Fired(f) => FloorTrigger(g, f) = f)
         /\ EmittedFire(g, f) = FloorTrigger(g, f)
  <1>1. GroupN[g] \in 2 .. 16 /\ GroupSub[g] \in 0 .. 15 /\ (GroupSub[g] = 0 => GroupN[g] = 2)
    BY GroupFacts
  <1>2. /\ f.state \in 0 .. GroupN[g] - 1 /\ f.sub \in 0 .. GroupSub[g]
        /\ f = [state |-> f.state, sub |-> f.sub]
    BY DEF FloorCells
  <1>3. f = Still <=> f.state = 0 /\ f.sub = 0
    BY <1>2 DEF Still
  <1>4. CASE f = Still
    <2>1. FloorTrigger(g, f) = IF GroupSub[g] = 0 THEN [state |-> 1, sub |-> 0]
                               ELSE [state |-> 0, sub |-> GroupSub[g]]
      BY <1>4 DEF FloorTrigger, Still
    <2>2. EmittedFire(g, f) = FloorTrigger(g, f)
      BY <1>3, <1>4 DEF EmittedFire, FloorTrigger
    <2>3. /\ FloorTrigger(g, f) \in FloorCells(g) /\ FloorShape(g, FloorTrigger(g, f))
          /\ Fired(FloorTrigger(g, f))
      BY <1>1, <2>1 DEF FloorCells, FloorShape, Fired, Still
    <2> QED BY <1>4, <2>2, <2>3 DEF Fired
  <1>5. CASE f # Still
    <2>1. FloorTrigger(g, f) = f
      BY <1>5 DEF FloorTrigger
    <2>2. EmittedFire(g, f) = f
      <3>1. CASE GroupSub[g] = 0
        <4>1. f = [state |-> 1, sub |-> 0]
          BY <1>1, <1>2, <1>3, <1>5, <3>1
        <4> QED BY <3>1, <4>1 DEF EmittedFire
      <3>2. CASE GroupSub[g] # 0
        BY <1>3, <1>5, <3>2 DEF EmittedFire
      <3> QED BY <3>1, <3>2
    <2> QED BY <1>5, <2>1, <2>2 DEF Fired
  <1> QED BY <1>4, <1>5

(***************************************************************************)
(* MoversInv is inductive                                                  *)
(***************************************************************************)

LEMMA MoversStart == MoversInit => MoversInv
  <1> SUFFICES ASSUME MoversInit PROVE MoversInv
    OBVIOUS
  <1> USE DEF MoversInit
  <1>1. LiftsShaped
    BY LiftFacts
    DEF LiftsShaped, LiftCells, LiftShape, StepOf, InitialDoor, IDLE, OPENING, CLOSING
  <1>2. FloorsShaped
    BY GroupFacts DEF FloorsShaped, FloorCells, FloorShape, Still
  <1>3. FrameShaped
    <2>1. time \in [Repeats -> 0 .. ButtonFrames] /\ phase = "doors"
      BY LineAssumption
    <2>2. req \subseteq Lift /\ on \subseteq Switch
      OBVIOUS
    <2>3. over \in BOOLEAN /\ ~over
      BY Zenon
    <2> QED BY <2>1, <2>2, <2>3 DEF FrameShaped, Phases
  <1>4. ButtonsRun /\ LiftButtons /\ FloorSwitches
    BY DEF ButtonsRun, LiftButtons, FloorSwitches
  <1> QED BY <1>1, <1>2, <1>3, <1>4 DEF MoversInv

(* A tag's lifts and groups.                                               *)
LEMMA TagFacts ==
  ASSUME NEW lines \in SUBSET (UseLine \union WalkLine)
  PROVE  CalledBy(lines) \subseteq Lift /\ FiredBy(lines) \subseteq Group
  BY LineAssumption DEF CalledBy, FiredBy

(* Firing groups: the emitted cells go along, and what was fired stays so. *)
LEMMA FireKeeps ==
  ASSUME FloorsShaped, fjFloor = floor, NEW groups \in SUBSET Group, Fire(groups)
  PROVE  /\ FloorsShaped' /\ fjFloor' = floor'
         /\ \A g \in Group : Fired(floor[g]) => Fired(floor'[g])
         /\ \A g \in groups : Fired(floor'[g])
  <1>1. ASSUME NEW g \in Group
        PROVE  /\ floor'[g] \in FloorCells(g) /\ FloorShape(g, floor'[g])
               /\ Fired(floor[g]) => Fired(floor'[g])
               /\ g \in groups => Fired(floor'[g])
    <2>1. floor[g] \in FloorCells(g) /\ FloorShape(g, floor[g])
      BY DEF FloorsShaped
    <2>2. floor'[g] = IF g \in groups THEN FloorTrigger(g, floor[g]) ELSE floor[g]
      BY DEF Fire
    <2> QED BY <2>1, <2>2, FloorTriggerKeeps
  <1>2. fjFloor' = floor'
    <2>1. \A g \in Group : EmittedFire(g, floor[g]) = FloorTrigger(g, floor[g])
      BY FloorTriggerKeeps DEF FloorsShaped
    <2> QED BY <2>1, Zenon DEF Fire
  <1> QED BY <1>1, <1>2 DEF FloorsShaped

(* A press of switches whose countdowns run: they go on running, the new   *)
(* ones with all their frames.                                             *)
LEMMA PressedKeeps ==
  ASSUME NEW pressed \in SUBSET Switch, NEW onNow \in SUBSET Switch,
         NEW timeNow \in [Repeats -> 0 .. ButtonFrames],
         \A w \in Repeats : w \in onNow <=> timeNow[w] > 0,
         Pressed(pressed, onNow, timeNow)
  PROVE  /\ on' \subseteq Switch /\ time' \in [Repeats -> 0 .. ButtonFrames]
         /\ ButtonsRun'
         /\ \A w \in on' : w \in onNow \/ w \in pressed
         /\ \A w \in Repeats : w \in onNow => time'[w] = timeNow[w]
  <1>1. ButtonFrames \in Nat /\ ButtonFrames > 1 /\ Repeats \subseteq Switch
    BY LineAssumption
  <1>2. on' = onNow \union pressed
    BY DEF Pressed
  <1>3. \A w \in Repeats :
          time'[w] = IF w \in pressed \ onNow THEN ButtonFrames ELSE timeNow[w]
    BY DEF Pressed
  <1>4. time' \in [Repeats -> 0 .. ButtonFrames]
    BY <1>1 DEF Pressed
  <1> QED BY <1>1, <1>2, <1>3, <1>4 DEF ButtonsRun

(* The countdown keeps a running button on, and one less.                  *)
LEMMA CountedKeeps ==
  ASSUME FrameShaped, ButtonsRun
  PROVE  /\ CountedOn \in SUBSET Switch /\ Counted \in [Repeats -> 0 .. ButtonFrames]
         /\ \A w \in Repeats : w \in CountedOn <=> Counted[w] > 0
         /\ \A w \in Repeats : w \in CountedOn => Counted[w] = time[w] - 1
  <1>1. ButtonFrames \in Nat /\ time \in [Repeats -> 0 .. ButtonFrames] /\ on \subseteq Switch
    BY LineAssumption DEF FrameShaped
  <1>2. \A w \in Repeats : time[w] \in 0 .. ButtonFrames
    BY <1>1
  <1>3. \A w \in Repeats : Counted[w] = IF time[w] > 0 THEN time[w] - 1 ELSE 0
    BY DEF Counted
  <1>4. Counted \in [Repeats -> 0 .. ButtonFrames]
    BY <1>1, <1>2 DEF Counted
  <1>5. \A w \in Repeats : w \in CountedOn <=> w \in on /\ time[w] # 1
    BY DEF CountedOn
  <1> QED BY <1>1, <1>2, <1>3, <1>4, <1>5 DEF ButtonsRun, CountedOn

LEMMA SwitchFacts ==
  /\ ButtonFrames \in Nat /\ ButtonFrames > 1
  /\ \A w \in Switch :
       /\ SwitchKind[w] = "lift" =>
            w \in UseLine /\ w \in Repeats /\ Calls[w] \subseteq Lift \ Perpetual
       /\ SwitchKind[w] = "floor" =>
            /\ w \in UseLine /\ w \notin Repeats
            /\ Fires[w] \subseteq Group
  BY LineAssumption

LEMMA MoversStep == MoversInv /\ [MoversNext]_moverVars => MoversInv'
  <1> SUFFICES ASSUME MoversInv, [MoversNext]_moverVars PROVE MoversInv'
    OBVIOUS
  <1>i. /\ fjLift = lift /\ fjFloor = floor /\ LiftsShaped /\ FloorsShaped
        /\ FrameShaped /\ ButtonsRun /\ LiftButtons /\ FloorSwitches
    BY DEF MoversInv
  <1>b. /\ on \in SUBSET Switch /\ time \in [Repeats -> 0 .. ButtonFrames]
        /\ \A w \in Repeats : w \in on <=> time[w] > 0
        /\ over \in BOOLEAN
    BY <1>i DEF FrameShaped, ButtonsRun
  <1>1. CASE DoorsPhase
    <2>1. /\ phase = "doors" /\ ~over /\ phase' = "movers" /\ over' = over /\ req' = req
          /\ lift' = lift /\ fjLift' = fjLift /\ floor' = floor /\ fjFloor' = fjFloor
      BY <1>1 DEF DoorsPhase, machines
    <2>2. PICK ready \in SUBSET {w \in Switch : SwitchKind[w] = "door"} :
            Pressed(ready, CountedOn, Counted)
      BY <1>1 DEF DoorsPhase
    <2>3. /\ on' \subseteq Switch /\ time' \in [Repeats -> 0 .. ButtonFrames] /\ ButtonsRun'
          /\ \A w \in on' : w \in CountedOn \/ w \in ready
          /\ \A w \in Repeats : w \in CountedOn => time'[w] = Counted[w]
      BY <1>i, <2>2, CountedKeeps, PressedKeeps
    <2>4. ASSUME NEW w \in on', SwitchKind[w] \in {"lift", "floor"}
          PROVE  /\ w \in on /\ w \in Switch
                 /\ SwitchKind[w] = "lift" => w \in Repeats /\ time'[w] = time[w] - 1
      <3>1. w \in CountedOn
        BY <2>3, <2>4
      <3> QED BY <1>b, <1>i, <2>3, <3>1, CountedKeeps, SwitchFacts DEF CountedOn
    <2>5. LiftsShaped' /\ FloorsShaped'
      BY <1>i, <2>1 DEF LiftsShaped, FloorsShaped
    <2>6. FrameShaped'
      BY <1>i, <2>1, <2>3 DEF FrameShaped, Phases
    <2>7. LiftButtons'
      <3> SUFFICES ASSUME NEW w \in on', SwitchKind[w] = "lift"
                   PROVE  /\ time'[w] < ButtonFrames
                          /\ ~over' /\ JustOut(w)' => LiftAsked(w)'
        BY <2>1 DEF LiftButtons
      <3>1. w \in on /\ w \in Repeats /\ time'[w] = time[w] - 1 /\ time[w] \in 0 .. ButtonFrames
        BY <1>b, <2>4
      <3>2. time'[w] < ButtonFrames
        BY <3>1, SwitchFacts
      <3>3. JustOut(w)' => JustOut(w)
        BY <2>1, <3>1, SwitchFacts DEF JustOut
      <3>4. JustOut(w) => LiftAsked(w)
        BY <1>i, <2>1, <3>1 DEF LiftButtons
      <3>5. LiftAsked(w) => LiftAsked(w)'
        BY <2>1 DEF LiftAsked
      <3> QED BY <3>2, <3>3, <3>4, <3>5
    <2>8. FloorSwitches'
      BY <1>i, <2>1, <2>4 DEF FloorSwitches
    <2> QED BY <1>i, <2>1, <2>3, <2>5, <2>6, <2>7, <2>8 DEF MoversInv
  <1>2. CASE MoversPhase
    <2>1. /\ phase = "movers" /\ phase' = "use" /\ over' = over /\ req' = {}
          /\ on' = on /\ time' = time /\ ~over
      BY <1>2, <1>i DEF MoversPhase, textures, FrameShaped
    <2>2. ASSUME NEW l \in Lift
          PROVE  /\ lift'[l] \in LiftCells(l) /\ LiftShape(l, lift'[l])
                 /\ l \notin Perpetual /\ l \in req /\ lift[l].state = 0 => lift'[l].state # 0
      <3>1. lift[l] \in LiftCells(l) /\ LiftShape(l, lift[l]) /\ (l \in req) \in BOOLEAN
        BY <1>i DEF LiftsShaped
      <3>2. lift'[l] = IF l \in Perpetual THEN PerpTic(l, lift[l], l \in req)
                       ELSE LiftTic(l, lift[l], l \in req)
        BY <1>2 DEF MoversPhase
      <3>3. CASE l \in Perpetual
        BY <3>1, <3>2, <3>3, PerpTicKeeps
      <3>4. CASE l \notin Perpetual
        BY <3>1, <3>2, <3>4, LiftTicKeeps
      <3> QED BY <3>3, <3>4
    <2>3. fjLift' = lift'
      <3>1. ASSUME NEW l \in Lift
            PROVE  (IF l \in Perpetual THEN EmittedPerp(l, lift[l], l \in req)
                    ELSE EmittedLift(l, lift[l], l \in req))
                 = (IF l \in Perpetual THEN PerpTic(l, lift[l], l \in req)
                    ELSE LiftTic(l, lift[l], l \in req))
        <4>1. lift[l] \in LiftCells(l) /\ LiftShape(l, lift[l]) /\ (l \in req) \in BOOLEAN
          BY <1>i DEF LiftsShaped
        <4>2. CASE l \in Perpetual
          BY <4>1, <4>2, EmittedPerpAgrees
        <4>3. CASE l \notin Perpetual
          BY <4>1, <4>3, EmittedLiftAgrees
        <4> QED BY <4>2, <4>3
      <3> QED BY <1>2, <1>i, <3>1, Zenon DEF MoversPhase
    <2>4. ASSUME NEW g \in Group
          PROVE  /\ floor'[g] \in FloorCells(g) /\ FloorShape(g, floor'[g])
                 /\ Fired(floor[g]) => Fired(floor'[g])
      <3>1. floor[g] \in FloorCells(g) /\ FloorShape(g, floor[g])
        BY <1>i DEF FloorsShaped
      <3>2. floor'[g] = IF GroupSub[g] > 0 THEN FloorTic(g, floor[g]) ELSE floor[g]
        BY <1>2 DEF MoversPhase
      <3> QED BY <3>1, <3>2, FloorTicKeeps
    <2>5. fjFloor' = floor'
      <3>1. ASSUME NEW g \in Group
            PROVE  EmittedFloor(g, floor[g]) =
                     IF GroupSub[g] > 0 THEN FloorTic(g, floor[g]) ELSE floor[g]
        <4>1. floor[g] \in FloorCells(g) /\ FloorShape(g, floor[g])
          BY <1>i DEF FloorsShaped
        <4>2. CASE GroupSub[g] > 0
          BY <4>1, <4>2, FloorTicKeeps
        <4>3. CASE ~(GroupSub[g] > 0)
          BY <4>3, GroupFacts DEF EmittedFloor
        <4> QED BY <4>2, <4>3
      <3> QED BY <1>2, <1>i, <3>1, Zenon DEF MoversPhase
    <2>6. LiftsShaped' /\ FloorsShaped'
      BY <2>2, <2>4 DEF LiftsShaped, FloorsShaped
    <2>7. FrameShaped' /\ ButtonsRun'
      BY <1>i, <2>1 DEF FrameShaped, Phases, ButtonsRun
    <2>8. LiftButtons'
      <3> SUFFICES ASSUME NEW w \in on, SwitchKind[w] = "lift"
                   PROVE  /\ time'[w] < ButtonFrames
                          /\ ~over' /\ JustOut(w)' => LiftAsked(w)'
        BY <2>1 DEF LiftButtons
      <3>1. time[w] < ButtonFrames /\ (JustOut(w) => LiftAsked(w))
        BY <1>i, <2>1 DEF LiftButtons
      <3>2. JustOut(w)' => JustOut(w)
        BY <2>1 DEF JustOut
      <3>3. LiftAsked(w) => LiftAsked(w)'
        <4>1. w \in Switch /\ Calls[w] \subseteq Lift \ Perpetual
          BY <1>b, SwitchFacts
        <4> QED BY <2>1, <2>2, <4>1 DEF LiftAsked
      <3> QED BY <2>1, <3>1, <3>2, <3>3
    <2>9. FloorSwitches'
      BY <1>b, <1>i, <2>1, <2>4, SwitchFacts DEF FloorSwitches
    <2> QED BY <2>3, <2>5, <2>6, <2>7, <2>8, <2>9 DEF MoversInv
  <1>3. CASE UseLines
    <2>1. phase = "use" /\ phase' = "move" /\ ~over
      BY <1>3, <1>i DEF UseLines, FrameShaped
    <2>2. PICK hit \in SUBSET (UseLine \union {w \in Switch : SwitchKind[w] = "light"}),
               exit \in BOOLEAN :
            /\ Pressed({w \in hit \cap Switch : Answers(w)}, on, time)
            /\ over' = exit
            /\ IF exit THEN UNCHANGED <<machines, req>>
               ELSE /\ req' = req \union CalledBy(hit \cap UseLine)
                    /\ Fire(FiredBy(hit \cap UseLine))
                    /\ UNCHANGED <<lift, fjLift>>
      BY <1>3 DEF UseLines
    <2> DEFINE pressed == {w \in hit \cap Switch : Answers(w)}
    <2>3. lift' = lift /\ fjLift' = fjLift
      BY <2>2 DEF machines
    <2>4. /\ on' \subseteq Switch /\ time' \in [Repeats -> 0 .. ButtonFrames] /\ ButtonsRun'
          /\ \A w \in on' : w \in on \/ w \in pressed
          /\ \A w \in Repeats : w \in on => time'[w] = time[w]
      <3>1. pressed \in SUBSET Switch /\ Pressed(pressed, on, time)
        BY <2>2
      <3> HIDE DEF pressed
      <3> QED BY <1>b, <3>1, PressedKeeps
    <2>5. /\ hit \cap UseLine \in SUBSET (UseLine \union WalkLine)
          /\ CalledBy(hit \cap UseLine) \subseteq Lift /\ FiredBy(hit \cap UseLine) \subseteq Group
      BY TagFacts
    <2>6. /\ FloorsShaped' /\ fjFloor' = floor'
          /\ \A g \in Group : Fired(floor[g]) => Fired(floor'[g])
          /\ ~over' => \A g \in FiredBy(hit \cap UseLine) : Fired(floor'[g])
      <3>1. CASE exit
        BY <1>i, <2>2, <3>1 DEF machines, FloorsShaped
      <3>2. CASE ~exit
        BY <1>i, <2>2, <2>5, <3>2, FireKeeps
      <3> QED BY <3>1, <3>2
    <2>7. LiftsShaped' /\ fjLift' = lift'
      BY <1>i, <2>3 DEF LiftsShaped
    <2>8. FrameShaped'
      <3>1. req' \subseteq Lift
        BY <1>i, <2>2, <2>5 DEF FrameShaped
      <3> QED BY <2>1, <2>2, <2>4, <3>1 DEF FrameShaped, Phases
    <2>9. LiftButtons'
      <3> SUFFICES ASSUME NEW w \in on', SwitchKind[w] = "lift", ~over', JustOut(w)'
                   PROVE  LiftAsked(w)'
        BY <2>1 DEF LiftButtons
      <3>1. w \in Switch /\ w \in UseLine /\ w \in Repeats
        BY <2>4, SwitchFacts
      <3>2. time'[w] = ButtonFrames
        BY <2>1 DEF JustOut
      <3>3. w \notin on
        <4>1. w \in on => time[w] < ButtonFrames /\ time'[w] = time[w] /\ time[w] \in 0 .. ButtonFrames
          BY <1>b, <1>i, <2>1, <2>4, <3>1 DEF LiftButtons
        <4> QED BY <3>2, <4>1, SwitchFacts
      <3>4. w \in hit /\ Answers(w)
        BY <2>4, <3>3
      <3>5. PICK l \in Calls[w] : lift[l].state = 0
        BY <3>4 DEF Answers
      <3>6. l \in req'
        BY <2>2, <3>1, <3>4, <3>5 DEF CalledBy
      <3> QED BY <2>1, <2>3, <3>5, <3>6 DEF LiftAsked
    <2>10. FloorSwitches'
      <3> SUFFICES ASSUME NEW w \in on', SwitchKind[w] = "floor", ~over', NEW g \in Fires[w]
                   PROVE  Fired(floor'[g])
        BY DEF FloorSwitches
      <3>1. w \in Switch /\ w \in UseLine /\ g \in Group
        BY <2>4, SwitchFacts
      <3>2. CASE w \in on
        BY <1>i, <2>1, <2>6, <3>1, <3>2 DEF FloorSwitches
      <3>3. CASE w \notin on
        <4>1. w \in hit \cap UseLine
          BY <2>4, <3>1, <3>3
        <4>2. g \in FiredBy(hit \cap UseLine)
          BY <4>1 DEF FiredBy
        <4> QED BY <2>6, <4>2
      <3> QED BY <3>2, <3>3
    <2> QED BY <2>4, <2>6, <2>7, <2>8, <2>9, <2>10 DEF MoversInv
  <1>4. CASE Move
    <2>1. PICK crossed \in SUBSET WalkLine, exit \in BOOLEAN,
               shot \in SUBSET {w \in Switch : SwitchKind[w] = "shot"} :
            /\ Pressed(shot, on, time)
            /\ req' = req \union CalledBy(crossed)
            /\ Fire(FiredBy(crossed))
            /\ over' = (over \/ exit)
      BY <1>4 DEF Move
    <2>2. /\ phase = "move" /\ phase' = (IF over' THEN "doors" ELSE "monsters")
          /\ lift' = lift /\ fjLift' = fjLift
      BY <1>4 DEF Move
    <2>3. /\ on' \subseteq Switch /\ time' \in [Repeats -> 0 .. ButtonFrames] /\ ButtonsRun'
          /\ \A w \in on' : w \in on \/ w \in shot
          /\ \A w \in Repeats : w \in on => time'[w] = time[w]
      BY <1>b, <2>1, PressedKeeps
    <2>4. CalledBy(crossed) \subseteq Lift /\ FiredBy(crossed) \subseteq Group
      BY TagFacts
    <2>5. /\ FloorsShaped' /\ fjFloor' = floor'
          /\ \A g \in Group : Fired(floor[g]) => Fired(floor'[g])
      BY <1>i, <2>1, <2>4, FireKeeps
    <2>6. LiftsShaped' /\ fjLift' = lift'
      BY <1>i, <2>2 DEF LiftsShaped
    <2>7. FrameShaped'
      <3>1. req' \subseteq Lift /\ over' \in BOOLEAN
        BY <1>b, <1>i, <2>1, <2>4 DEF FrameShaped
      <3>2. phase' \in {"doors", "monsters"} /\ (phase' = "monsters" => ~over')
        BY <2>2
      <3> QED BY <2>3, <3>1, <3>2 DEF FrameShaped, Phases
    <2>8. LiftButtons'
      <3> SUFFICES ASSUME NEW w \in on', SwitchKind[w] = "lift"
                   PROVE  ~over' /\ JustOut(w)' => LiftAsked(w)'
        BY <2>2 DEF LiftButtons
      <3>1. w \in on /\ w \in Repeats /\ time'[w] = time[w]
        BY <2>3, SwitchFacts
      <3>2. JustOut(w)' => JustOut(w)
        BY <2>2, <3>1 DEF JustOut
      <3>3. ~over /\ JustOut(w) => LiftAsked(w)
        BY <1>i, <3>1 DEF LiftButtons
      <3>4. LiftAsked(w) => LiftAsked(w)'
        BY <2>1, <2>2 DEF LiftAsked
      <3> QED BY <2>1, <3>2, <3>3, <3>4
    <2>9. FloorSwitches'
      BY <1>i, <2>1, <2>3, <2>5, SwitchFacts DEF FloorSwitches
    <2> QED BY <2>3, <2>5, <2>6, <2>7, <2>8, <2>9 DEF MoversInv
  <1>5. CASE Monsters
    <2>1. PICK crossed \in SUBSET MonsterLine, boss \in SUBSET BossGroup :
            req' = req \union CalledBy(crossed) /\ Fire(boss)
      BY <1>5 DEF Monsters
    <2>2. /\ phase = "monsters" /\ phase' = "doors" /\ lift' = lift /\ fjLift' = fjLift
          /\ on' = on /\ time' = time /\ over' = over
      BY <1>5 DEF Monsters, textures
    <2>3. CalledBy(crossed) \subseteq Lift /\ boss \in SUBSET Group
      BY LineAssumption, TagFacts
    <2>4. /\ FloorsShaped' /\ fjFloor' = floor'
          /\ \A g \in Group : Fired(floor[g]) => Fired(floor'[g])
      BY <1>i, <2>1, <2>3, FireKeeps
    <2>5. LiftsShaped' /\ fjLift' = lift'
      BY <1>i, <2>2 DEF LiftsShaped
    <2>6. FrameShaped' /\ ButtonsRun'
      <3>1. req' \subseteq Lift
        BY <1>i, <2>1, <2>3 DEF FrameShaped
      <3> QED BY <1>i, <2>2, <3>1 DEF FrameShaped, Phases, ButtonsRun
    <2>7. LiftButtons'
      <3> SUFFICES ASSUME NEW w \in on, SwitchKind[w] = "lift"
                   PROVE  ~over' /\ JustOut(w)' => LiftAsked(w)'
        BY <2>2 DEF LiftButtons
      <3>1. JustOut(w)' => JustOut(w)
        BY <2>2 DEF JustOut
      <3>2. ~over /\ JustOut(w) => LiftAsked(w)
        BY <1>i DEF LiftButtons
      <3>3. LiftAsked(w) => LiftAsked(w)'
        BY <2>1, <2>2 DEF LiftAsked
      <3> QED BY <2>2, <3>1, <3>2, <3>3
    <2>8. FloorSwitches'
      BY <1>b, <1>i, <2>2, <2>4, SwitchFacts DEF FloorSwitches
    <2> QED BY <2>4, <2>5, <2>6, <2>7, <2>8 DEF MoversInv
  <1>6. CASE Restart
    <2> USE <1>6 DEF Restart
    <2>1. LiftsShaped' /\ fjLift' = lift'
      BY LiftFacts
      DEF LiftsShaped, LiftCells, LiftShape, StepOf, InitialDoor, IDLE, OPENING, CLOSING
    <2>2. FloorsShaped' /\ fjFloor' = floor'
      BY GroupFacts DEF FloorsShaped, FloorCells, FloorShape, Still
    <2>3. FrameShaped'
      <3>1. time' \in [Repeats -> 0 .. ButtonFrames] /\ phase' = "doors"
        BY SwitchFacts
      <3>2. req' \subseteq Lift /\ on' \subseteq Switch
        OBVIOUS
      <3>3. over' \in BOOLEAN /\ ~over'
        BY Zenon
      <3> QED BY <3>1, <3>2, <3>3 DEF FrameShaped, Phases
    <2>4. ButtonsRun' /\ LiftButtons' /\ FloorSwitches'
      BY DEF ButtonsRun, LiftButtons, FloorSwitches
    <2> QED BY <2>1, <2>2, <2>3, <2>4 DEF MoversInv
  <1>7. CASE UNCHANGED moverVars
    BY <1>7, <1>i
    DEF moverVars, MoversInv, LiftsShaped, FloorsShaped, FrameShaped, ButtonsRun, LiftButtons,
        FloorSwitches, JustOut, LiftAsked
  <1> QED BY <1>1, <1>2, <1>3, <1>4, <1>5, <1>6, <1>7 DEF MoversNext

LEMMA MoversInvariant == MoversSpec => []MoversInv
  BY MoversStart, MoversStep, PTL DEF MoversSpec

(***************************************************************************)
(* The theorems                                                            *)
(***************************************************************************)

(* Every level's emitted movers step as the model's, and no cell of either *)
(* leaves its nibble; a plain lift is at rest exactly in state 0, the one  *)
(* nibble the emitted lines test.                                          *)
THEOREM MoversStepAlike == MoversSpec => []MoversInStep
  <1>1. MoversInv => MoversInStep
    <2> SUFFICES ASSUME MoversInv PROVE MoversInStep
      OBVIOUS
    <2>1. /\ fjLift = lift /\ fjFloor = floor /\ LiftsShaped /\ FloorsShaped /\ FrameShaped
      BY DEF MoversInv
    <2>2. ASSUME NEW l \in Lift
          PROVE  /\ lift[l].state \in 0 .. Bottom(l) /\ lift[l].dir \in {IDLE, OPENING, CLOSING}
                 /\ lift[l].sub \in 0 .. (IF l \in Perpetual THEN PerpSub ELSE Speed)
                 /\ lift[l].wait \in 0 .. LiftWait
      BY <2>1, SpeedIsOne DEF LiftsShaped, LiftCells, StepOf
    <2>3. ASSUME NEW g \in Group
          PROVE  floor[g].state \in 0 .. GroupN[g] - 1 /\ floor[g].sub \in 0 .. GroupSub[g]
      BY <2>1 DEF FloorsShaped, FloorCells
    <2>4. MoversTypeOK
      BY <2>1, <2>2, <2>3 DEF MoversTypeOK, FrameShaped
    <2>5. RestIsTop
      <3> SUFFICES ASSUME NEW l \in Lift, l \notin Perpetual
                   PROVE  lift[l].state = 0 <=> SwitchReady(lift[l])
        BY DEF RestIsTop
      <3>1. lift[l] \in LiftCells(l) /\ LiftShape(l, lift[l])
        BY <2>1 DEF LiftsShaped
      <3>2. Bottom(l) \in 1 .. 15 /\ LiftWait \in Nat
        BY LiftFacts
      <3> QED BY <3>1, <3>2 DEF LiftCells, LiftShape, SwitchReady
    <2> QED BY <2>1, <2>4, <2>5 DEF MoversInStep
  <1> QED BY <1>1, MoversInvariant, PTL

(* No switch of any level shows its other texture for nothing: a lift's    *)
(* lift rides, a floor's floor is fired, and every button swaps back.      *)
THEOREM SwitchesTellTruth == MoversSpec => []SwitchTellsTruth
  <1>1. MoversInv => SwitchTellsTruth
    <2> SUFFICES ASSUME MoversInv, NEW w \in on,
                        SwitchKind[w] = "lift", phase = "use", time[w] = ButtonFrames - 1
                 PROVE  \E l \in Calls[w] : lift[l].state # 0
      BY DEF MoversInv, SwitchTellsTruth, FloorSwitches
    <2>1. ~over /\ JustOut(w)
      BY DEF MoversInv, FrameShaped, JustOut
    <2>2. LiftAsked(w)
      BY <2>1 DEF MoversInv, LiftButtons
    <2> QED BY <2>2 DEF LiftAsked
  <1> QED BY <1>1, MoversInvariant, PTL

(* What one step may do to a floor group.                                  *)
FloorOn(g, f, next) ==
  /\ next.state \in {f.state, f.state + 1}
  /\ Fired(f) => Fired(next)
  /\ f.state = next.state /\ Fired(f) => next.sub <= f.sub
  /\ f.state = GroupN[g] - 1 => next = f

LEMMA FloorGoesOn ==
  ASSUME NEW g \in Group, NEW f \in FloorCells(g), FloorShape(g, f)
  PROVE  /\ FloorOn(g, f, f)
         /\ FloorOn(g, f, FloorTrigger(g, f))
         /\ GroupSub[g] > 0 => FloorOn(g, f, FloorTic(g, f))
  <1>1. GroupN[g] \in 2 .. 16 /\ GroupSub[g] \in 0 .. 15 /\ (GroupSub[g] = 0 => GroupN[g] = 2)
    BY GroupFacts
  <1>2. f.state \in 0 .. GroupN[g] - 1 /\ f.sub \in 0 .. GroupSub[g]
    BY DEF FloorCells
  <1>3. FloorOn(g, f, f)
    BY <1>2 DEF FloorOn
  <1>4. FloorOn(g, f, FloorTrigger(g, f))
    <2>1. CASE Fired(f)
      BY <1>3, <2>1, FloorTriggerKeeps
    <2>2. CASE ~Fired(f)
      <3>1. f = Still
        BY <2>2 DEF Fired
      <3>2. FloorTrigger(g, f).state \in {0, 1}
        BY <3>1 DEF FloorTrigger, Still
      <3>3. f.state = 0
        BY <3>1 DEF Still
      <3> QED BY <1>1, <2>2, <3>2, <3>3 DEF FloorOn
    <2> QED BY <2>1, <2>2
  <1>5. ASSUME GroupSub[g] > 0
        PROVE  FloorOn(g, f, FloorTic(g, f))
    <2>1. Fired(f) => Fired(FloorTic(g, f))
      BY <1>5, FloorTicKeeps
    <2>2. CASE f.sub = 0
      BY <1>3, <2>2 DEF FloorTic
    <2>3. CASE f.sub > 1
      <3>1. FloorTic(g, f) = [f EXCEPT !.sub = @ - 1] /\ f.state # GroupN[g] - 1
        BY <1>1, <1>2, <2>3 DEF FloorTic, FloorShape
      <3>2. FloorTic(g, f).state = f.state /\ FloorTic(g, f).sub = f.sub - 1
        BY <3>1 DEF FloorCells
      <3> QED BY <1>2, <2>1, <3>1, <3>2 DEF FloorOn
    <2>4. CASE f.sub = 1
      <3>1. FloorTic(g, f).state = f.state + 1 /\ f.state # GroupN[g] - 1
        BY <1>1, <1>2, <2>4 DEF FloorTic, FloorShape
      <3>2. f.state # f.state + 1
        BY <1>2
      <3> QED BY <2>1, <3>1, <3>2 DEF FloorOn
    <2> QED BY <1>2, <2>2, <2>3, <2>4
  <1> QED BY <1>3, <1>4, <1>5

(* A floor runs once, in every level: nothing sets it back but the level   *)
(* start.                                                                  *)
THEOREM FloorsRunOnce == MoversSpec => FloorRunsOnce
  <1>1. MoversInv /\ [MoversNext]_moverVars =>
          [Restart \/ \A g \in Group : FloorOn(g, floor[g], floor'[g])]_moverVars
    <2> SUFFICES ASSUME MoversInv, MoversNext, ~Restart, NEW g \in Group
                 PROVE  FloorOn(g, floor[g], floor'[g])
      OBVIOUS
    <2>1. floor[g] \in FloorCells(g) /\ FloorShape(g, floor[g])
      BY DEF MoversInv, FloorsShaped
    <2>2. \/ floor'[g] = floor[g] \/ floor'[g] = FloorTrigger(g, floor[g])
          \/ GroupSub[g] > 0 /\ floor'[g] = FloorTic(g, floor[g])
      <3>1. ASSUME NEW groups, Fire(groups)
            PROVE  floor'[g] = floor[g] \/ floor'[g] = FloorTrigger(g, floor[g])
        BY <3>1 DEF Fire
      <3>2. CASE DoorsPhase
        BY <3>2 DEF DoorsPhase, machines
      <3>3. CASE MoversPhase
        BY <3>3 DEF MoversPhase
      <3>4. CASE UseLines
        BY <3>1, <3>4, Zenon DEF UseLines, machines
      <3>5. CASE Move
        BY <3>1, <3>5, Zenon DEF Move
      <3>6. CASE Monsters
        BY <3>1, <3>6, Zenon DEF Monsters
      <3> QED BY <3>2, <3>3, <3>4, <3>5, <3>6 DEF MoversNext
    <2> QED BY <2>1, <2>2, FloorGoesOn
  <1> QED BY <1>1, MoversInvariant, PTL DEF MoversSpec, FloorRunsOnce, FloorOn

(* One tic in Plat's own terms: the ride, depth and wait before and after. *)
Rides(l, ride, depth, left, triggered, then, to, wait) ==
  \/ ride = "rest" /\ ~triggered /\ then = ride /\ to = depth /\ wait = left
  \/ ride # "rest" /\ then = ride /\ to = depth /\ wait = left
  \/ /\ ride = "rest" /\ triggered
     /\ \/ then = "down" /\ to < Bottom(l) /\ wait = left
        \/ then = "low" /\ wait = LiftWait /\ to = Bottom(l)
  \/ /\ ride = "down" /\ to > depth
     /\ \/ then = "down" /\ to < Bottom(l) /\ wait = left
        \/ then = "low" /\ wait = LiftWait /\ to = Bottom(l)
  \/ /\ ride = "up" /\ to < depth
     /\ \/ then = "up" /\ to > 0 /\ wait = left
        \/ then = "rest" /\ to = 0 /\ l \notin Perpetual /\ wait = left
        \/ then = "high" /\ to = 0 /\ l \in Perpetual /\ wait = LiftWait
  \/ ride \in {"low", "high"} /\ then = ride /\ left > 1 /\ wait = left - 1 /\ to = depth
  \/ ride = "low" /\ then = "up" /\ left = 1 /\ wait = 0 /\ to = depth
  \/ ride = "high" /\ then = "down" /\ left = 1 /\ wait = 0 /\ to = depth

TicRides(l, st, triggered, next) ==
  Rides(l, RideOf(st, l), st.state, st.wait, triggered, RideOf(next, l), next.state, next.wait)

LEMMA RideFacts ==
  ASSUME NEW l \in Lift, NEW st, st.state \in Nat, st.wait \in Nat
  PROVE  /\ st.dir = OPENING => RideOf(st, l) = "down"
         /\ st.dir = CLOSING => RideOf(st, l) = "up"
         /\ st.dir = IDLE /\ st.wait = 0 => RideOf(st, l) = "rest"
         /\ st.dir = IDLE /\ st.wait > 0 /\ st.state = Bottom(l) => RideOf(st, l) = "low"
         /\ st.dir = IDLE /\ st.wait > 0 /\ st.state # Bottom(l) => RideOf(st, l) = "high"
  BY DEF RideOf, SwitchReady, IDLE, OPENING, CLOSING

LEMMA LiftRides ==
  ASSUME NEW l \in Lift, l \notin Perpetual,
         NEW st \in LiftCells(l), LiftShape(l, st), NEW triggered \in BOOLEAN
  PROVE  TicRides(l, st, triggered, LiftTic(l, st, triggered))
  <1> DEFINE tic == LiftTic(l, st, triggered)
  <1>1. LiftGoes(l, st, triggered, tic)
    BY LiftTicGoes
  <1>2. tic \in LiftCells(l) /\ LiftShape(l, tic)
    BY LiftTicKeeps
  <1> SUFFICES TicRides(l, st, triggered, tic)
    OBVIOUS
  <1> HIDE DEF tic
  <1>3. /\ Bottom(l) \in 1 .. 15 /\ Stride[l] \in Nat \ {0} /\ LiftWait \in Nat \ {0}
    BY LiftFacts
  <1>4. /\ st.state \in 0 .. Bottom(l) /\ st.wait \in 0 .. LiftWait
        /\ tic.state \in 0 .. Bottom(l) /\ tic.wait \in 0 .. LiftWait
        /\ st.dir \in {IDLE, OPENING, CLOSING} /\ tic.dir \in {IDLE, OPENING, CLOSING}
    BY <1>2 DEF LiftCells
  <1>5. IDLE # OPENING /\ IDLE # CLOSING /\ OPENING # CLOSING
    BY DEF IDLE, OPENING, CLOSING
  <1>n. /\ st.state \in Nat /\ st.wait \in Nat /\ tic.state \in Nat /\ tic.wait \in Nat
    BY <1>3, <1>4
  <1>q. /\ st.dir = OPENING => RideOf(st, l) = "down"
        /\ st.dir = CLOSING => RideOf(st, l) = "up"
        /\ st.dir = IDLE /\ st.wait = 0 => RideOf(st, l) = "rest"
        /\ st.dir = IDLE /\ st.wait > 0 /\ st.state = Bottom(l) => RideOf(st, l) = "low"
    BY <1>n, RideFacts
  <1>r. /\ tic.dir = OPENING => RideOf(tic, l) = "down"
        /\ tic.dir = CLOSING => RideOf(tic, l) = "up"
        /\ tic.dir = IDLE /\ tic.wait = 0 => RideOf(tic, l) = "rest"
        /\ tic.dir = IDLE /\ tic.wait > 0 /\ tic.state = Bottom(l) => RideOf(tic, l) = "low"
    BY <1>n, RideFacts
  <1>s. st.state = 0 => st.dir = IDLE /\ st.wait = 0
    BY <1>3, <1>4, <1>5 DEF LiftShape
  <1>6. CASE st.state = 0 /\ ~triggered /\ tic = st
    BY <1>6, <1>q, <1>r, <1>s DEF TicRides, Rides
  <1>7. CASE /\ st.dir = OPENING \/ (st.state = 0 /\ triggered)
             /\ tic = IF st.state + Stride[l] >= Bottom(l)
                      THEN Course(Bottom(l), IDLE, LiftWait)
                      ELSE Course(st.state + Stride[l], OPENING, 0)
    <2>1. tic.state > st.state /\ st.wait = 0
      <3>1. st.state < Bottom(l) /\ st.wait = 0
        BY <1>3, <1>4, <1>5, <1>7, <1>s DEF LiftShape
      <3> QED BY <1>3, <1>4, <1>7, <3>1 DEF Course
    <2>2. \/ RideOf(tic, l) = "low" /\ tic.state = Bottom(l) /\ tic.wait = LiftWait
          \/ RideOf(tic, l) = "down" /\ tic.state < Bottom(l) /\ tic.wait = 0
      <3>1. \/ tic.dir = IDLE /\ tic.state = Bottom(l) /\ tic.wait = LiftWait
            \/ tic.dir = OPENING /\ tic.state < Bottom(l) /\ tic.wait = 0
        BY <1>3, <1>4, <1>7 DEF Course
      <3> QED BY <1>3, <1>q, <1>r, <3>1
    <2>3. RideOf(st, l) = "down" \/ (RideOf(st, l) = "rest" /\ triggered)
      BY <1>7, <1>q, <1>r, <1>s
    <2> QED BY <2>1, <2>2, <2>3 DEF TicRides, Rides
  <1>8. CASE /\ st.dir = CLOSING
             /\ tic = IF st.state <= Stride[l] THEN Course(0, IDLE, 0)
                      ELSE Course(st.state - Stride[l], CLOSING, 0)
    <2>1. tic.state < st.state /\ st.wait = 0
      BY <1>3, <1>4, <1>5, <1>8 DEF LiftShape, Course
    <2>2. \/ RideOf(tic, l) = "rest" /\ tic.state = 0 /\ tic.wait = 0
          \/ RideOf(tic, l) = "up" /\ tic.state > 0 /\ tic.wait = 0
      <3>1. \/ tic.dir = IDLE /\ tic.state = 0 /\ tic.wait = 0
            \/ tic.dir = CLOSING /\ tic.state > 0 /\ tic.wait = 0
        BY <1>3, <1>4, <1>8 DEF Course
      <3> QED BY <1>q, <1>r, <3>1
    <2>3. RideOf(st, l) = "up"
      BY <1>8, <1>q
    <2> QED BY <2>1, <2>2, <2>3 DEF TicRides, Rides
  <1>9. CASE st.dir = IDLE /\ st.wait = 1 /\ tic = Course(st.state, CLOSING, 0)
    <2>1. tic.dir = CLOSING /\ tic.state = st.state /\ tic.wait = 0
      BY <1>9 DEF Course
    <2>2. st.state = Bottom(l)
      BY <1>9 DEF LiftShape
    <2>3. RideOf(st, l) = "low" /\ RideOf(tic, l) = "up"
      BY <1>9, <1>q, <1>r, <2>1, <2>2
    <2> QED BY <1>9, <2>1, <2>3 DEF TicRides, Rides
  <1>10. CASE st.dir = IDLE /\ st.wait > 1 /\ tic = [st EXCEPT !.wait = @ - 1]
    <2>1. tic.dir = IDLE /\ tic.state = st.state /\ tic.wait = st.wait - 1
      BY <1>10 DEF LiftCells
    <2>2. st.state = Bottom(l) /\ tic.wait > 0 /\ st.wait > 0
      BY <1>4, <1>10, <2>1 DEF LiftShape
    <2>3. RideOf(st, l) = "low" /\ RideOf(tic, l) = "low"
      BY <1>10, <1>q, <1>r, <2>1, <2>2
    <2> QED BY <1>10, <2>1, <2>3 DEF TicRides, Rides
  <1> QED BY <1>1, <1>6, <1>7, <1>8, <1>9, <1>10 DEF LiftGoes

(* A stop of a perpetual lift, or a frame of counting towards it.          *)
LEMMA PerpMoveRides ==
  ASSUME NEW l \in Perpetual, NEW st \in LiftCells(l), st.dir # IDLE, st.wait = 0,
         NEW next \in 0 .. Bottom(l)
  PROVE  LET m == PerpMove(l, st, next) IN
         \/ m.state = st.state /\ m.wait = 0 /\ m.dir = st.dir
         \/ next \in {0, Bottom(l)} /\ m.state = next /\ m.wait = LiftWait /\ m.dir = IDLE
         \/ next \notin {0, Bottom(l)} /\ m.state = next /\ m.wait = 0 /\ m.dir = st.dir
  <1> DEFINE m == PerpMove(l, st, next)
  <1>1. CASE st.sub > 1
    <2>1. m = [st EXCEPT !.sub = @ - 1]
      BY <1>1 DEF PerpMove
    <2>2. m.state = st.state /\ m.wait = st.wait /\ m.dir = st.dir
      BY <2>1 DEF LiftCells
    <2> QED BY <2>2
  <1>2. CASE ~(st.sub > 1) /\ next \in {0, Bottom(l)}
    <2>1. m.state = next /\ m.wait = LiftWait /\ m.dir = IDLE
      BY <1>2 DEF PerpMove, PerpEnd
    <2> QED BY <1>2, <2>1
  <1>3. CASE ~(st.sub > 1) /\ next \notin {0, Bottom(l)}
    <2>1. m = [st EXCEPT !.state = next, !.sub = PerpSub]
      BY <1>3 DEF PerpMove
    <2>2. m.state = next /\ m.wait = st.wait /\ m.dir = st.dir
      BY <2>1 DEF LiftCells
    <2> QED BY <1>3, <2>2
  <1> QED BY <1>1, <1>2, <1>3

LEMMA PerpRides ==
  ASSUME NEW l \in Perpetual,
         NEW st \in LiftCells(l), LiftShape(l, st), NEW triggered \in BOOLEAN
  PROVE  TicRides(l, st, triggered, PerpTic(l, st, triggered))
  <1> DEFINE tic == PerpTic(l, st, triggered)
  <1>1. l \in Lift
    BY MoverAssumption
  <1>2. tic \in LiftCells(l) /\ LiftShape(l, tic)
    BY PerpTicKeeps
  <1>3. /\ Bottom(l) \in 1 .. 15 /\ LiftWait \in Nat \ {0}
    BY <1>1, LiftFacts
  <1>t. /\ st.dir = IDLE /\ st.wait = 0 => st.state = 0
        /\ st.dir = IDLE /\ st.wait = 0 /\ ~triggered => tic = st
        /\ st.dir = IDLE /\ st.wait = 0 /\ triggered => tic = PerpMove(l, Going(st), st.state + 1)
        /\ st.dir = OPENING => tic = PerpMove(l, st, st.state + 1)
        /\ st.dir = CLOSING => tic = PerpMove(l, st, st.state - 1)
        /\ st.dir = IDLE /\ st.wait > 1 => tic = [st EXCEPT !.wait = @ - 1]
        /\ st.dir = IDLE /\ st.wait = 1 => tic = PerpTurn(st)
    BY PerpTicGoes
  <1> SUFFICES TicRides(l, st, triggered, tic)
    OBVIOUS
  <1> HIDE DEF tic
  <1>4. /\ st.state \in 0 .. Bottom(l) /\ st.wait \in 0 .. LiftWait
        /\ tic.state \in 0 .. Bottom(l) /\ tic.wait \in 0 .. LiftWait
        /\ st.dir \in {IDLE, OPENING, CLOSING} /\ tic.dir \in {IDLE, OPENING, CLOSING}
    BY <1>2 DEF LiftCells
  <1>5. IDLE # OPENING /\ IDLE # CLOSING /\ OPENING # CLOSING
    BY DEF IDLE, OPENING, CLOSING
  <1>n. /\ st.state \in Nat /\ st.wait \in Nat /\ tic.state \in Nat /\ tic.wait \in Nat
    BY <1>3, <1>4
  <1>q. /\ st.dir = OPENING => RideOf(st, l) = "down"
        /\ st.dir = CLOSING => RideOf(st, l) = "up"
        /\ st.dir = IDLE /\ st.wait = 0 => RideOf(st, l) = "rest"
        /\ st.dir = IDLE /\ st.wait > 0 /\ st.state = Bottom(l) => RideOf(st, l) = "low"
        /\ st.dir = IDLE /\ st.wait > 0 /\ st.state # Bottom(l) => RideOf(st, l) = "high"
    BY <1>1, <1>n, RideFacts
  <1>r. /\ tic.dir = OPENING => RideOf(tic, l) = "down"
        /\ tic.dir = CLOSING => RideOf(tic, l) = "up"
        /\ tic.dir = IDLE /\ tic.wait = 0 => RideOf(tic, l) = "rest"
        /\ tic.dir = IDLE /\ tic.wait > 0 /\ tic.state = Bottom(l) => RideOf(tic, l) = "low"
        /\ tic.dir = IDLE /\ tic.wait > 0 /\ tic.state # Bottom(l) => RideOf(tic, l) = "high"
    BY <1>1, <1>n, RideFacts
  <1>6. CASE st.dir = IDLE /\ st.wait = 0 /\ ~triggered
    BY <1>6, <1>q, <1>r, <1>t DEF TicRides, Rides
  <1>7. CASE st.dir = IDLE /\ st.wait = 0 /\ triggered
    <2>1. /\ st.state = 0 /\ Going(st) \in LiftCells(l)
          /\ Going(st).dir = OPENING /\ Going(st).wait = 0 /\ Going(st).state = 0
      BY <1>7, <1>t, GoingKeeps DEF Going, LiftCells
    <2>2. 1 \in 0 .. Bottom(l) /\ tic = PerpMove(l, Going(st), 1)
      BY <1>3, <1>7, <1>t, <2>1
    <2>3. \/ tic.state = 0 /\ tic.wait = 0 /\ tic.dir = OPENING
          \/ 1 \in {0, Bottom(l)} /\ tic.state = 1 /\ tic.wait = LiftWait /\ tic.dir = IDLE
          \/ 1 \notin {0, Bottom(l)} /\ tic.state = 1 /\ tic.wait = 0 /\ tic.dir = OPENING
      BY <1>5, <2>1, <2>2, PerpMoveRides
    <2>4. \/ RideOf(tic, l) = "down" /\ tic.state < Bottom(l) /\ tic.wait = 0
          \/ RideOf(tic, l) = "low" /\ tic.state = Bottom(l) /\ tic.wait = LiftWait
      BY <1>3, <1>q, <1>r, <2>3
    <2>5. RideOf(st, l) = "rest"
      BY <1>7, <1>q
    <2> QED BY <1>7, <2>4, <2>5 DEF TicRides, Rides
  <1>8. CASE st.dir = OPENING
    <2>1. st.wait = 0 /\ st.state + 1 \in 1 .. Bottom(l) /\ st.state + 1 \in 0 .. Bottom(l)
      BY <1>3, <1>4, <1>5, <1>8 DEF LiftShape
    <2>2. tic = PerpMove(l, st, st.state + 1)
      BY <1>8, <1>t
    <2>3. \/ tic.state = st.state /\ tic.wait = 0 /\ tic.dir = OPENING
          \/ /\ st.state + 1 \in {0, Bottom(l)}
             /\ tic.state = st.state + 1 /\ tic.wait = LiftWait /\ tic.dir = IDLE
          \/ /\ st.state + 1 \notin {0, Bottom(l)}
             /\ tic.state = st.state + 1 /\ tic.wait = 0 /\ tic.dir = OPENING
      BY <1>5, <1>8, <2>1, <2>2, PerpMoveRides
    <2>4. \/ RideOf(tic, l) = "down" /\ tic.state = st.state /\ tic.wait = st.wait
          \/ /\ tic.state > st.state
             /\ \/ RideOf(tic, l) = "down" /\ tic.state < Bottom(l) /\ tic.wait = st.wait
                \/ RideOf(tic, l) = "low" /\ tic.state = Bottom(l) /\ tic.wait = LiftWait
      BY <1>3, <1>4, <1>q, <1>r, <2>1, <2>3
    <2>5. RideOf(st, l) = "down" /\ "down" # "rest"
      BY <1>8, <1>q
    <2> QED BY <2>4, <2>5 DEF TicRides, Rides
  <1>9. CASE st.dir = CLOSING
    <2>1. /\ st.wait = 0 /\ st.state - 1 \in 0 .. Bottom(l) /\ st.state - 1 < Bottom(l)
      BY <1>3, <1>4, <1>5, <1>9 DEF LiftShape
    <2>2. tic = PerpMove(l, st, st.state - 1)
      BY <1>9, <1>t
    <2>3. \/ tic.state = st.state /\ tic.wait = 0 /\ tic.dir = CLOSING
          \/ /\ st.state - 1 \in {0, Bottom(l)}
             /\ tic.state = st.state - 1 /\ tic.wait = LiftWait /\ tic.dir = IDLE
          \/ /\ st.state - 1 \notin {0, Bottom(l)}
             /\ tic.state = st.state - 1 /\ tic.wait = 0 /\ tic.dir = CLOSING
      <3> DEFINE next == st.state - 1
      <3>1. next \in 0 .. Bottom(l) /\ tic = PerpMove(l, st, next) /\ st.dir # IDLE
        BY <1>5, <1>9, <2>1, <2>2
      <3> HIDE DEF next
      <3>2. \/ tic.state = st.state /\ tic.wait = 0 /\ tic.dir = st.dir
            \/ next \in {0, Bottom(l)} /\ tic.state = next /\ tic.wait = LiftWait /\ tic.dir = IDLE
            \/ next \notin {0, Bottom(l)} /\ tic.state = next /\ tic.wait = 0 /\ tic.dir = st.dir
        BY <2>1, <3>1, PerpMoveRides
      <3> QED BY <1>9, <3>2 DEF next
    <2>4. \/ RideOf(tic, l) = "up" /\ tic.state = st.state /\ tic.wait = st.wait
          \/ /\ tic.state < st.state
             /\ \/ RideOf(tic, l) = "up" /\ tic.state > 0 /\ tic.wait = st.wait
                \/ RideOf(tic, l) = "high" /\ tic.state = 0 /\ tic.wait = LiftWait
      BY <1>3, <1>4, <1>q, <1>r, <2>1, <2>3
    <2>5. RideOf(st, l) = "up" /\ "up" # "rest"
      BY <1>9, <1>q
    <2> QED BY <2>4, <2>5 DEF TicRides, Rides
  <1>10. CASE st.dir = IDLE /\ st.wait > 1
    <2>1. tic.dir = IDLE /\ tic.state = st.state /\ tic.wait = st.wait - 1
      BY <1>10, <1>t DEF LiftCells
    <2>2. tic.wait > 0 /\ st.wait > 0
      BY <1>4, <1>10, <2>1
    <2>3. RideOf(st, l) \in {"low", "high"} /\ RideOf(tic, l) = RideOf(st, l)
      BY <1>10, <1>q, <1>r, <2>1, <2>2
    <2> QED BY <1>10, <2>1, <2>3 DEF TicRides, Rides
  <1>11. CASE st.dir = IDLE /\ st.wait = 1
    <2>1. tic = PerpTurn(st)
      BY <1>11, <1>t
    <2>2. /\ tic.dir = (IF st.state = 0 THEN OPENING ELSE CLOSING)
          /\ tic.state = st.state /\ tic.wait = 0
      BY <2>1 DEF PerpTurn, LiftCells
    <2>3. st.state \in {0, Bottom(l)} /\ 0 # Bottom(l)
      BY <1>3, <1>11 DEF LiftShape
    <2>4. \/ RideOf(st, l) = "low" /\ RideOf(tic, l) = "up"
          \/ RideOf(st, l) = "high" /\ RideOf(tic, l) = "down"
      BY <1>11, <1>q, <1>r, <2>2, <2>3
    <2> QED BY <1>11, <2>2, <2>4 DEF TicRides, Rides
  <1> QED BY <1>4, <1>6, <1>7, <1>8, <1>9, <1>10, <1>11

(* Every lift of every level is the one Plat describes: it leaves its rest *)
(* when called and only then, goes all the way down, waits its full time   *)
(* and comes all the way back, and a call while it rides is forgotten.     *)
THEOREM LiftsImplementPlat == MoversSpec => ImplementsPlat
  <1>1. MoversInit => PlatsStart
    <2> SUFFICES ASSUME MoversInit, NEW l \in Lift PROVE PlatOf(l)!Init
      BY DEF PlatsStart
    <2>1. lift[l] = InitialDoor /\ req = {}
      BY DEF MoversInit
    <2>2. lift[l].state = 0 /\ lift[l].wait = 0 /\ lift[l].dir = IDLE
      BY <2>1 DEF InitialDoor
    <2>3. RideOf(lift[l], l) = "rest"
      BY <2>2, RideFacts
    <2> QED BY <2>1, <2>2, <2>3 DEF PlatOf!Init
  <1>2. MoversInv /\ [MoversNext]_moverVars => [PlatsStep]_moverVars
    <2> SUFFICES ASSUME MoversInv, MoversNext, NEW l \in Lift
                 PROVE  PlatOf(l)!Next \/ UNCHANGED PlatOf(l)!plat
      BY DEF PlatsStep
    <2>1. lift[l] \in LiftCells(l) /\ LiftShape(l, lift[l]) /\ (l \in req) \in BOOLEAN
      BY DEF MoversInv, LiftsShaped
    <2>2. ASSUME lift' = lift, req \subseteq req'
          PROVE  PlatOf(l)!Next \/ UNCHANGED PlatOf(l)!plat
      <3>1. CASE l \in req'
        BY <2>2, <3>1 DEF PlatOf!Next, PlatOf!Call
      <3>2. CASE l \notin req'
        BY <2>2, <3>2 DEF PlatOf!plat
      <3> QED BY <3>1, <3>2
    <2>3. CASE DoorsPhase
      BY <2>2, <2>3 DEF DoorsPhase, machines
    <2>4. CASE MoversPhase
      <3>1. req' = {} /\ l \notin req'
        BY <2>4 DEF MoversPhase
      <3>2. TicRides(l, lift[l], l \in req, lift'[l])
        <4>1. lift'[l] = IF l \in Perpetual THEN PerpTic(l, lift[l], l \in req)
                         ELSE LiftTic(l, lift[l], l \in req)
          BY <2>4 DEF MoversPhase
        <4>2. CASE l \in Perpetual
          BY <2>1, <4>1, <4>2, PerpRides
        <4>3. CASE l \notin Perpetual
          BY <2>1, <4>1, <4>3, LiftRides
        <4> QED BY <4>2, <4>3
      <3> QED BY <3>1, <3>2
          DEF TicRides, Rides, PlatOf!Next, PlatOf!plat, PlatOf!Forget, PlatOf!Start, PlatOf!Sink,
              PlatOf!Rise, PlatOf!Stay, PlatOf!Arrive, PlatOf!Depart
    <2>5. CASE UseLines
      BY <2>2, <2>5 DEF UseLines, machines
    <2>6. CASE Move
      BY <2>2, <2>6 DEF Move
    <2>7. CASE Monsters
      BY <2>2, <2>7 DEF Monsters
    <2>8. CASE Restart
      <3>1. lift'[l] = InitialDoor /\ req' = {}
        BY <2>8 DEF Restart
      <3>2. lift'[l].state = 0 /\ lift'[l].wait = 0 /\ lift'[l].dir = IDLE
        BY <3>1 DEF InitialDoor
      <3>3. RideOf(lift'[l], l) = "rest"
        BY <3>2, RideFacts
      <3> QED BY <3>1, <3>2, <3>3 DEF PlatOf!Next, PlatOf!Reset
    <2> QED BY <2>3, <2>4, <2>5, <2>6, <2>7, <2>8 DEF MoversNext
  <1> QED BY <1>1, <1>2, MoversInvariant, PTL DEF MoversSpec, ImplementsPlat
=============================================================================
