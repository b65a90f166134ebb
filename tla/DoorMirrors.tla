----------------------------- MODULE DoorMirrors -----------------------------
(***************************************************************************)
(* The same door stepped three times: by the executable model              *)
(* (World._doors_phase), by the gates' mirror (doors.DoorPhase.tic) and by *)
(* the emitted machine (doorcode.door_tic_lines and machine_lines, nibble  *)
(* cells).  All three see the same player, things and requests; the repo's *)
(* correctness argument is that their door cells agree on every frame.     *)
(***************************************************************************)
EXTENDS DoorMachine, Sequences

CONSTANTS
  Configs,     (* the doors tried: [kind, switches, front, requestable, closeable] *)
  NoLatch,     (* the latch of a repeatable switch                          *)
  TopClamp     (* machine_lines' top_clamp: TRUE on every map but E1M1      *)

(* A switch is [latch, stay].  front: the door has a line or a box of its  *)
(* own; requestable: something sets its request cell; closeable: a WR      *)
(* close line moves it (close_strides: only an open-stay door, which then  *)
(* holds).  A state is one nibble.                                         *)
Latches(c)      == {c.switches[i].latch : i \in DOMAIN c.switches} \ {NoLatch}
StaySwitches(c) == {i \in DOMAIN c.switches : c.switches[i].stay}

(* What the tables guarantee: a close line moves an open-stay door, which  *)
(* then holds, and a stay press is an open-stay switch's on another door.  *)
ConfigOK(c) ==
  /\ KindOK(c.kind) /\ c.kind.n <= 16 /\ c.kind.hold = c.closeable
  /\ \A i \in DOMAIN c.switches : c.switches[i].stay \in BOOLEAN
  /\ c.front \in BOOLEAN /\ c.requestable \in BOOLEAN /\ c.closeable \in BOOLEAN
  /\ c.closeable => c.kind.stay
  /\ c.kind.stay => StaySwitches(c) = {}

ASSUME ConfigAssumption ==
  TopClamp \in BOOLEAN /\ Speed < 16 /\ \A c \in Configs : ConfigOK(c)

(* reverse_mask: the states whose closing step asks for contact; a door    *)
(* that stays and that no close line moves has none.                       *)
ReverseMask(c) ==
  IF c.kind.stay /\ ~c.closeable THEN {}
  ELSE {s \in 0 .. Top(c.kind) : s >= c.kind.pass /\ c.kind.pass > s - c.kind.down}

(***************************************************************************)
(* The doors the three agree on: no switch that spends a latch or stays    *)
(* beside a request; nothing presses a door a close line moves but its     *)
(* switches (which find it at rest); one stay switch, pressed once; a      *)
(* reversal at the top only with the top clamp.                            *)
(***************************************************************************)
Compatible(c) ==
  /\ c.requestable => \A i \in DOMAIN c.switches :
                        c.switches[i].latch = NoLatch /\ ~c.switches[i].stay
  /\ c.closeable => ~c.front /\ ~c.requestable
  /\ \A i \in StaySwitches(c) :
       c.switches[i].latch # NoLatch /\ \A j \in StaySwitches(c) : i = j
  /\ Top(c.kind) \in ReverseMask(c) => TopClamp

VARIABLES
  cfg,      (* the door                                                    *)
  model,    (* [door, fired, req] as World keeps them                      *)
  mirror,   (* ... as DoorPhase's tuple (ds, fired, req)                   *)
  binary    (* ... as the emitted cells dstate..dwait, wfired, dreq        *)

vars == <<cfg, model, mirror, binary>>

kind == cfg.kind

(* What a frame's door phase sees: the use key held with the player alive  *)
(* in the door's own box, the switch boxes it is held in (their cards      *)
(* held), and whether a live thing touches the door.                       *)
Inputs == [front : {FALSE, cfg.front},
           boxes : SUBSET DOMAIN cfg.switches,
           touched : BOOLEAN]

(* The first switch box hit whose latch is not spent; {} when none.        *)
SwitchHit(in, side) ==
  LET hits == {i \in in.boxes : cfg.switches[i].latch \notin side.fired}
  IN  {i \in hits : SwitchReady(side.door) /\ \A j \in hits : i <= j}
Stay(hit)  == \E i \in hit : cfg.switches[i].stay
Spent(hit) == {cfg.switches[i].latch : i \in hit} \ {NoLatch}

(***************************************************************************)
(* The model: the switch is looked at whenever the door's own lines did    *)
(* not press it, and the request joins afterwards.                         *)
(***************************************************************************)
ModelTic(in, side) ==
  LET hit == IF in.front THEN {} ELSE SwitchHit(in, side)
  IN  [door  |-> DoorTic(kind, side.door, in.front \/ hit # {} \/ side.req,
                         /\ side.door.dir = CLOSING
                         /\ side.door.state >= kind.pass
                         /\ in.touched,
                         Stay(hit)),
       fired |-> side.fired \union Spent(hit),
       req   |-> FALSE]

(***************************************************************************)
(* The mirror: the request counts as pressed before the switch is looked   *)
(* at, so a requested door's switch is not.                                *)
(***************************************************************************)
MirrorTicKeepsLatch(in, side) ==   (* slip: the latch is never spent *)
  LET hit == IF in.front \/ side.req THEN {} ELSE SwitchHit(in, side)
  IN  [door  |-> DoorTic(kind, side.door, in.front \/ side.req \/ hit # {},
                         side.door.dir = CLOSING /\ in.touched, Stay(hit)),
       fired |-> side.fired,
       req   |-> FALSE]

MirrorTic(in, side) ==
  LET hit == IF in.front \/ side.req THEN {} ELSE SwitchHit(in, side)
  IN  [door  |-> DoorTic(kind, side.door, in.front \/ side.req \/ hit # {},
                         side.door.dir = CLOSING /\ in.touched, Stay(hit)),
       fired |-> side.fired \union Spent(hit),
       req   |-> FALSE]

(***************************************************************************)
(* The emitted machine, on nibble cells                                    *)
(***************************************************************************)

(* The labels _press / _pressopen / _already.                              *)
EmittedPress(st) ==
  IF st.dir = OPENING THEN st
  ELSE IF st.state = Top(kind) THEN Course(st.state, IDLE, TopWait(kind))
  ELSE Course(st.state, OPENING, 0)

(* The label _spress: only on a door with a stay switch.                   *)
EmittedStayPress(st) == Course(st.state, OPENING, STAY_MARK)

(* `up`: stride increments, each followed by the equality with the top.    *)
(* E1M1's emission has no clamp; elsewhere leaving it out is a slip.       *)
EmittedArrives(s) ==
  \/ TopClamp /\ Top(kind) \in ReverseMask(cfg) /\ s = Top(kind)
  \/ \E i \in 1 .. kind.stride : (s + i) % 16 = Top(kind)

(* Slip: the stay mark is not looked at.                                   *)
EmittedTopWaitPlain(st) == TopWait(kind)

(* `top_set`: a stay mark in the wait sets none.                           *)
EmittedTopWait(st) ==
  IF StaySwitches(cfg) # {} /\ st.wait = STAY_MARK THEN 0 ELSE TopWait(kind)

EmittedUp(st) ==
  IF EmittedArrives(st.state) THEN Course(Top(kind), IDLE, EmittedTopWait(st))
  ELSE Course((st.state + kind.stride) % 16, OPENING, st.wait)

(* `down`: decrements, each followed by the zero test.                     *)
EmittedDown(st, touched) ==
  IF touched /\ st.state \in ReverseMask(cfg)
  THEN Course(st.state, IF cfg.closeable THEN CLOSING ELSE OPENING, st.wait)
  ELSE IF \E i \in 1 .. kind.down : (st.state - i) % 16 = 0
  THEN Course(0, IDLE, st.wait)
  ELSE Course((st.state - kind.down) % 16, CLOSING, st.wait)

(* The labels _moved, _step, _idle.                                        *)
EmittedMotion(st, touched) ==
  IF st.dir = IDLE
  THEN IF st.wait = 0 THEN st
       ELSE IF st.wait = 1 THEN Course(st.state, CLOSING, 0)
       ELSE [st EXCEPT !.wait = @ - 1]
  ELSE IF st.sub # 1 THEN [st EXCEPT !.sub = (@ - 1) % 16]
  ELSE IF st.dir = OPENING THEN EmittedUp(st)
  ELSE EmittedDown(st, touched)

(* The trigger lines: the request first, then the use key.                 *)
EmittedTic(in, side) ==
  LET hit == IF side.req \/ in.front THEN {} ELSE SwitchHit(in, side)
      st  == IF side.req \/ in.front THEN EmittedPress(side.door)
             ELSE IF hit = {} THEN side.door
             ELSE IF Stay(hit) THEN EmittedStayPress(side.door)
             ELSE EmittedPress(side.door)
  IN  [door  |-> EmittedMotion(st, in.touched),
       fired |-> side.fired \union Spent(hit),
       req   |-> FALSE]

(***************************************************************************)
(* The frames                                                              *)
(***************************************************************************)

AtStart == [door |-> InitialDoor, fired |-> {}, req |-> FALSE]

Init ==
  /\ cfg \in Configs
  /\ model = AtStart /\ mirror = AtStart /\ binary = AtStart

DoorPhase(in) ==
  /\ model'  = ModelTic(in, model)
  /\ mirror' = MirrorTic(in, mirror)
  /\ binary' = EmittedTic(in, binary)
  /\ UNCHANGED cfg

(* A W1 line, a monster's refused step or a shot presses it next tic.      *)
Request ==
  /\ cfg.requestable
  /\ model' = [model EXCEPT !.req = TRUE]
  /\ mirror' = [mirror EXCEPT !.req = TRUE]
  /\ binary' = [binary EXCEPT !.req = TRUE]
  /\ UNCHANGED cfg

Closed(side) ==
  IF RepeatAct("close", side.door) = "close"
  THEN [side EXCEPT !.door = CloseState(side.door)] ELSE side

(* A WR close line is crossed.                                             *)
CrossClose ==
  /\ cfg.closeable
  /\ model' = Closed(model) /\ mirror' = Closed(mirror) /\ binary' = Closed(binary)
  /\ UNCHANGED cfg

Next ==
  \/ \E in \in Inputs : DoorPhase(in)
  \/ Request
  \/ CrossClose

Spec == Init /\ [][Next]_vars

(***************************************************************************)
(* Properties                                                              *)
(***************************************************************************)

(* The cells keep their ranges, in particular the emitted nibbles: no      *)
(* counter wraps, no state steps past the top.                             *)
TypeOK ==
  /\ ConfigOK(cfg)
  /\ \A side \in {model, mirror, binary} :
       /\ side.door \in DoorCells(kind)
       /\ side.fired \subseteq Latches(cfg)
       /\ side.req \in BOOLEAN

(* "World._doors_phase (the model's door phase) is DoorPhase.tic (every    *)
(* gate's) ... frame for frame".                                           *)
MirrorIsModel == mirror = model

(* "The mirror of doors.DoorPhase.tic": the emitted machine's cells are    *)
(* the mirror's, frame for frame.                                          *)
BinaryIsMirror == binary = mirror
=============================================================================
