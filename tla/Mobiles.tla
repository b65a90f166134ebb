------------------------------ MODULE Mobiles ------------------------------
(***************************************************************************)
(* The mobiles of a level: monsters that walk from leaf to leaf, the pool  *)
(* of missiles, the pool of effects (blood, puffs, teleport fogs), and the *)
(* items the dead drop; and the leaf lists the renderer draws them from.   *)
(* The model (World, CombatMixin) keeps each slot's cells; the emitted     *)
(* code (projcode, barrelcode's drops) works every slot through ONE shared *)
(* window `win`, which a kill's drop link also writes.                     *)
(*                                                                         *)
(* Where things stand is a choice: a try to move meets a wall, a thing,    *)
(* the player or nothing, and damage kills or does not.  Barrels are in    *)
(* module Barrels.                                                         *)
(***************************************************************************)
EXTENDS LeafLists, FiniteSets

CONSTANT Stages    (* the levels to choose from, records of                *)
                   (*   leaf           the leaves, numbered from 1         *)
                   (*   monsters       how many monster slots              *)
                   (*   shooter        those that fire, all of one species *)
                   (*   dropper        those that leave an item            *)
                   (*   start          the leaf each monster starts in     *)
                   (*   missilePool    FIREBALL_POOL (8)                   *)
                   (*   fxPool         FX_POOL (2)                         *)
                   (*   playerMissile  the player's: "rocket", "plasma"    *)
                   (*   run            how many states a kind's death or   *)
                   (*                  effect runs                         *)
                   (*   flightTics     the tics of a missile's flight      *)
                   (*   ticsOf         the tics of a state of its death,   *)
                   (*                  or of the effect                    *)
                   (*   maxRoll        P_Random() & 3                      *)
                   (*   monsterTics    tics of the monsters' world a frame *)
                   (*   maxFlight      bound: tries before a missile meets *)
                   (*                  a wall (a closed map)               *)

VARIABLES
  stage,    (* the level played                                            *)
  status,   (* each monster: "live", "dying" (solid still) or "fallen"     *)
  drop,     (* mon_drop, mdrop: 0 none, 1 on the floor, 2 taken            *)
  dead,     (* the player is dead                                          *)
  cells,    (* the model's pools, monsters' leaves and lists               *)
  emitted,  (* the emitted pools, rows, lists and window                   *)
  range,    (* how many more tries each missile may find free              *)
  step      (* the part of the frame that runs next                        *)

mobiles == <<stage, status, drop, dead, cells, emitted, range, step>>

Leaf          == stage.leaf
Walkers       == stage.monsters
Shooter       == stage.shooter
Dropper       == stage.dropper
MissilePool   == stage.missilePool
FxPool        == stage.fxPool
PlayerMissile == stage.playerMissile
Run           == stage.run
FlightTics    == stage.flightTics
BurstTics     == stage.ticsOf
MaxRoll       == stage.maxRoll
MaxFlight     == stage.maxFlight

Monster == 1 .. Walkers
Missile == 1 .. MissilePool
Fx      == 1 .. FxPool
MissileKind == {"ball"} \union PlayerMissile
FxKind  == {"fog", "blood", "puff"}

(* The things of the lists: the monsters, the pools, then the drops.       *)
MissileThing(s) == Walkers + s
FxThing(s)      == Walkers + MissilePool + s
DropThing(m)    == Walkers + MissilePool + FxPool + m
Things          == Walkers + MissilePool + FxPool + Walkers
Thing           == 1 .. Things

(* What the code's constants keep.                                         *)
ASSUME MobilesAssumption ==
  \A lv \in Stages :
    LET monsters == 1 .. lv.monsters
        missiles == {"ball"} \union lv.playerMissile
    IN  /\ {lv.monsters, lv.missilePool, lv.fxPool, lv.maxRoll, lv.maxFlight} \subseteq Nat
        /\ 0 \notin lv.leaf /\ lv.start \in [monsters -> lv.leaf]
        /\ lv.shooter \subseteq monsters /\ lv.dropper \subseteq monsters
        /\ lv.playerMissile \subseteq {"rocket", "plasma"}
        /\ \A k \in missiles \union FxKind : lv.run[k] \in Nat \ {0} /\ lv.ticsOf[k] \in 1 .. 15
        /\ lv.run["puff"] >= 3 /\ lv.run["blood"] >= 3
        /\ \A k \in missiles : lv.flightTics[k] \in 1 .. 15
        /\ lv.monsterTics \in Nat \ {0}

(* projcode.check_model_rules: no tics roll is clamped but the rocket's,   *)
(* whose flight state lasts one tic.                                       *)
ASSUME NoClamp ==
  \A lv \in Stages :
    /\ \A k \in {"ball", "blood", "puff"} \union lv.playerMissile : lv.ticsOf[k] > lv.maxRoll
    /\ \A k \in {"ball"} \union lv.playerMissile :
         IF k = "rocket" THEN lv.flightTics[k] = 1 ELSE lv.flightTics[k] > lv.maxRoll

(* A state of a missile or an effect: 0 its flight, then its death's; a    *)
(* free slot's cells are zero, and S_NULL follows the last state.          *)
Null == <<"none", 0>>

NextOf(st) ==
  IF st[2] = 0 THEN st ELSE IF st[2] < Run[st[1]] THEN <<st[1], st[2] + 1>> ELSE Null

Tics(st) == IF st[2] = 0 THEN FlightTics[st[1]] ELSE BurstTics[st[1]]

(* max(1, tics - v) *)
Rolled(st, v) == IF Tics(st) > v THEN Tics(st) - v ELSE 1

FreeMissile == [act |-> FALSE, st |-> Null, tics |-> 0, src |-> 0, mom |-> FALSE, leaf |-> 0]
FreeFx      == [act |-> FALSE, st |-> Null, tics |-> 0, leaf |-> 0]
IsFog(f)    == f.act /\ f.st[1] = "fog"
ByPlayer(p) == p.src = 0

(***************************************************************************)
(* What a missile's try may meet, and who may be hurt                      *)
(***************************************************************************)

Live == {m \in Monster : status[m] = "live"}

(* [at, leaf, who, kills]: a clear move to a leaf, a wall, the player, or  *)
(* the first monster whose box overlaps.  A missile passes its shooter,    *)
(* the player's own passes the player, a dead player is not hit.           *)
Meeting(p, clear) ==
  {[at |-> "clear", leaf |-> l, who |-> 0, kills |-> FALSE] : l \in clear}
  \union {[at |-> "wall", leaf |-> 0, who |-> 0, kills |-> FALSE]}
  \union {[at |-> "player", leaf |-> 0, who |-> 0, kills |-> k] :
            k \in {b \in BOOLEAN : ~ByPlayer(p) /\ ~dead}}
  \union {[at |-> "thing", leaf |-> 0, who |-> m, kills |-> k] :
            m \in {x \in Monster : status[x] # "fallen" /\ x # p.src}, k \in BOOLEAN}

(* A missile without momentum does not try; one that moved on rolls        *)
(* nothing.                                                                *)
Still == [at |-> "still", leaf |-> 0, who |-> 0, kills |-> FALSE]

Rolls(o) == IF o.at \in {"clear", "still"} THEN {0} ELSE 0 .. MaxRoll

(* The species rule and a corpse stop a missile without damage.            *)
Hurts(p, o) ==
  /\ o.at = "thing" /\ status[o.who] = "live"
  /\ ~(~ByPlayer(p) /\ o.who \in Shooter)

KilledBy(p, o) == IF Hurts(p, o) /\ o.kills THEN {o.who} ELSE {}

(* A rocket that stops blasts: any of those that live may die of it.       *)
Blasts(p, o) == p.st[1] = "rocket" /\ o.at \notin {"clear", "still"}

BlastKills(p, o) == IF Blasts(p, o) THEN SUBSET (Live \ KilledBy(p, o)) ELSE {{}}

(***************************************************************************)
(* The model (CombatMixin)                                                 *)
(***************************************************************************)

(* _missile_try, clear: the relink when its leaf changes.                  *)
Moved(w, s, leaf) ==
  LET old == w.proj[s].leaf IN
  IF leaf = old THEN w
  ELSE [w EXCEPT !.proj[s].leaf = leaf,
                 !.list = Link(Unlink(w.list, old, MissileThing(s)), leaf, MissileThing(s))]

(* _explode                                                                *)
Exploded(w, s, v) ==
  LET kind == w.proj[s].st[1] IN
  [w EXCEPT !.proj[s].st = <<kind, 1>>, !.proj[s].tics = Rolled(<<kind, 1>>, v), !.proj[s].mom = FALSE]

(* The state tics of _projectiles_phase.                                   *)
MissileTic(w, s) ==
  LET p == [w.proj[s] EXCEPT !.tics = @ - 1]
      n == NextOf(p.st)
  IN  IF p.tics > 0 THEN [w EXCEPT !.proj[s] = p]
      ELSE IF n # Null THEN [w EXCEPT !.proj[s] = [p EXCEPT !.st = n, !.tics = Tics(n)]]
      ELSE [w EXCEPT !.proj[s] = FreeMissile, !.list = Unlink(@, p.leaf, MissileThing(s))]

Thinks(w, s, o, v) ==
  MissileTic(IF ~w.proj[s].mom THEN w
             ELSE IF o.at = "clear" THEN Moved(w, s, o.leaf) ELSE Exploded(w, s, v), s)

FreeSlots(pool) == {s \in DOMAIN pool : ~pool[s].act}

(* _spawn_fireball, _spawn_rocket, _spawn_plasma in free slot s.           *)
Launched(w, s, kind, src, leaf, v0, o, v) ==
  LET flying == [w EXCEPT !.proj[s] = [act |-> TRUE, st |-> <<kind, 0>>, tics |-> Rolled(<<kind, 0>>, v0),
                                       src |-> src, mom |-> TRUE, leaf |-> leaf],
                          !.list = Link(@, leaf, MissileThing(s))]
  IN  IF o.at = "clear" THEN flying ELSE Exploded(flying, s, v)

(* Slip: blood takes any slot, as a fog's.                                 *)
FxSlotsAny(pool, kind) == IF kind = "fog" THEN FreeSlots(pool) ELSE DOMAIN pool

(* _spawn_fx: A FOG YIELDS to blood and puffs; a fog takes a free slot.    *)
FxSlots(pool, kind) ==
  FreeSlots(pool) \union (IF kind = "fog" THEN {} ELSE {s \in DOMAIN pool : IsFog(pool[s])})

(* The state an effect starts in: the fist's puff and weak blood skip      *)
(* states, and the tics just rolled with them.                             *)
FxStart(kind, again, v) ==
  IF again > 1 THEN [st |-> <<kind, again>>, tics |-> BurstTics[kind]]
  ELSE [st |-> <<kind, 1>>, tics |-> IF kind = "fog" THEN BurstTics[kind] ELSE Rolled(<<kind, 1>>, v)]

WithFx(w, kind, again, v, leaf) ==
  IF FxSlots(w.fx, kind) = {} THEN w
  ELSE LET s     == FirstOf(FxSlots(w.fx, kind))
           first == FxStart(kind, again, v)
           clear == IF w.fx[s].act THEN Unlink(w.list, w.fx[s].leaf, FxThing(s)) ELSE w.list
       IN  [w EXCEPT !.fx[s] = [act |-> TRUE, st |-> first.st, tics |-> first.tics, leaf |-> leaf],
                     !.list = Link(clear, leaf, FxThing(s))]

(* Slip: the state is kept and its tics start over.                        *)
FxTicHeld(w, s) ==
  IF w.fx[s].tics > 1 THEN [w EXCEPT !.fx[s].tics = @ - 1]
  ELSE [w EXCEPT !.fx[s].tics = Tics(w.fx[s].st)]

(* _fx_phase                                                               *)
FxTic(w, s) ==
  LET f == [w.fx[s] EXCEPT !.tics = @ - 1]
      n == NextOf(f.st)
  IN  IF f.tics > 0 THEN [w EXCEPT !.fx[s] = f]
      ELSE IF n # Null THEN [w EXCEPT !.fx[s] = [f EXCEPT !.st = n, !.tics = Tics(n)]]
      ELSE [w EXCEPT !.fx[s] = FreeFx, !.list = Unlink(@, f.leaf, FxThing(s))]

(* _move_monster's relink.                                                 *)
Walked(w, m, leaf) ==
  IF leaf = w.mon[m] THEN w
  ELSE [w EXCEPT !.mon[m] = leaf, !.list = Link(Unlink(w.list, w.mon[m], m), leaf, m)]

(***************************************************************************)
(* The emitted code (projcode), through the window                         *)
(***************************************************************************)

PwLink(f)   == [f EXCEPT !.list = Link(@, f.win.leaf, f.win.t)]
PwUnlink(f) == [f EXCEPT !.list = Unlink(@, f.win.leaf, f.win.t)]

(* drop_link<k>, dr_link: dropper m's item lies in the corpse's leaf.      *)
DropLink(f, m) ==
  PwLink([f EXCEPT !.row[DropThing(m)] = f.row[m], !.live = @ + 1,
                   !.win.t = DropThing(m), !.win.leaf = f.row[m]])

(* drop_take<k>, dr_take: the player takes it.                             *)
DropTake(f, m) ==
  PwUnlink([f EXCEPT !.row[DropThing(m)] = 0, !.live = @ - 1,
                     !.win.t = DropThing(m), !.win.leaf = f.row[DropThing(m)]])

DropLinks(f, killed) ==
  LET d[m \in 0 .. Walkers] ==
        IF m = 0 THEN f
        ELSE IF m \in killed \cap Dropper THEN DropLink(d[m - 1], m) ELSE d[m - 1]
  IN  d[Walkers]

(* Slip: the window is not kept (blocked52's fight gate F6, frame 44).     *)
HitUnkept(f, killed) == DropLinks(f, killed)

(* pt_thing, rk_blast: the window's thing and leaf are kept across dm_go.  *)
Hit(f, killed) ==
  [DropLinks(f, killed) EXCEPT !.win.t = f.win.t, !.win.leaf = f.win.leaf]

(* pj_explode: the rocket's blast runs before the tics roll.               *)
EmittedExplode(f, v, blast) ==
  LET kind == f.win.st[1]
      dead1 == [f EXCEPT !.win.mom = FALSE, !.win.st = <<kind, 1>>, !.win.tics = BurstTics[kind]]
      after == IF kind = "rocket" THEN Hit(dead1, blast) ELSE dead1
  IN  [after EXCEPT !.win.tics = (@ - v) % 16]

(* pj_try and what follows a stop or a clear move.                         *)
EmittedTry(f, o, killed, blast, v) ==
  IF o.at # "clear" THEN EmittedExplode(Hit(f, killed), v, blast)
  ELSE IF o.leaf = f.win.leaf THEN f
  ELSE PwLink([PwUnlink(f) EXCEPT !.win.leaf = o.leaf])

(* pool_tic, with pjst's next states.                                      *)
PoolTic(f) ==
  LET w == [f.win EXCEPT !.tics = (@ - 1) % 16]
      n == NextOf(w.st)
  IN  IF w.tics # 0 THEN [f EXCEPT !.win = w]
      ELSE IF n # Null THEN [f EXCEPT !.win = [w EXCEPT !.st = n, !.tics = Tics(n)]]
      ELSE [PwUnlink(f) EXCEPT !.win = [w EXCEPT !.act = FALSE, !.st = Null, !.mom = FALSE,
                                                 !.leaf = 0, !.src = 0]]

LoadMissile(f, s) ==
  [f EXCEPT !.win = [t |-> MissileThing(s), act |-> TRUE, st |-> f.pj[s].st, tics |-> f.pj[s].tics,
                     src |-> f.pj[s].src, mom |-> f.pj[s].mom, leaf |-> f.row[MissileThing(s)]]]

(* pj_out<s>: the window into slot s and its thing's row.                  *)
CopyOutMissile(f, s) ==
  [f EXCEPT !.pj[s] = [act |-> f.win.act, st |-> f.win.st, tics |-> f.win.tics,
                       src |-> f.win.src, mom |-> f.win.mom],
            !.row[MissileThing(s)] = f.win.leaf]

EmittedThinks(f, s, o, killed, blast, v) ==
  LET g == LoadMissile(f, s) IN
  CopyOutMissile(PoolTic(IF g.win.mom THEN EmittedTry(g, o, killed, blast, v) ELSE g), s)

(* pj_spawn_leaf, rk_spawn_leaf, pl_spawn_leaf: the rocket's draw is made  *)
(* and its tics stay 1.                                                    *)
EmittedLaunch(f, s, kind, src, leaf, v0, o, killed, blast, v) ==
  LET tics == IF kind = "rocket" THEN FlightTics[kind] ELSE (FlightTics[kind] - v0) % 16
      g == PwLink([f EXCEPT !.win = [t |-> MissileThing(s), act |-> TRUE, st |-> <<kind, 0>>,
                                     tics |-> tics, src |-> src, mom |-> TRUE, leaf |-> leaf]])
  IN  CopyOutMissile(EmittedTry(g, o, killed, blast, v), s)

(* The state and tics fx_spawn stamps.                                     *)
FxFirst(kind, again, v) ==
  CASE kind = "fog" -> <<1, BurstTics[kind]>>
    [] again > 1    -> <<again, BurstTics[kind]>>
    [] OTHER        -> <<1, (BurstTics[kind] - v) % 16>>

(* fx_ev<s>, fx_spawn_leaf: slot s, put out of its list if it is taken.    *)
FxIn(f, s, st, tics, leaf) ==
  LET t == FxThing(s)
      g == IF f.fx[s].act THEN PwUnlink([f EXCEPT !.win.t = t, !.win.leaf = f.row[t]]) ELSE f
      h == PwLink([g EXCEPT !.win.t = t, !.win.leaf = leaf, !.win.act = TRUE,
                            !.win.st = st, !.win.tics = tics])
  IN  [h EXCEPT !.fx[s] = [act |-> h.win.act, st |-> h.win.st, tics |-> h.win.tics],
                !.row[t] = h.win.leaf, !.ptss = leaf]

(* fx_spawn, tf_spawn                                                      *)
EmittedFx(f, kind, again, v, leaf) ==
  IF FxSlots(f.fx, kind) = {} THEN f
  ELSE FxIn(f, FirstOf(FxSlots(f.fx, kind)), <<kind, FxFirst(kind, again, v)[1]>>,
            FxFirst(kind, again, v)[2], leaf)

EmittedFxTic(f, s) ==
  LET t == FxThing(s)
      g == PoolTic([f EXCEPT !.win.t = t, !.win.act = TRUE, !.win.st = f.fx[s].st,
                             !.win.tics = f.fx[s].tics, !.win.leaf = f.row[t]])
  IN  [g EXCEPT !.fx[s] = [act |-> g.win.act, st |-> g.win.st, tics |-> g.win.tics],
                !.row[t] = IF g.win.act THEN @ ELSE 0]

(* mm_move's relink, to the leaf ptss names.                               *)
EmittedRelink(f, m) ==
  IF f.ptss = f.row[m] THEN f
  ELSE [f EXCEPT !.row[m] = f.ptss, !.list = Link(Unlink(@, f.row[m], m), f.ptss, m)]

EmittedFogs(f, a, b) == EmittedFx(EmittedFx(f, "fog", 0, 0, a), "fog", 0, 0, b)

(* mm_move: a teleport's fogs, then the leaf it names, then the relink.    *)
EmittedMove(f, m, leaf) == EmittedRelink([f EXCEPT !.ptss = leaf], m)
EmittedTeleport(f, m, leaf, a, b) == EmittedMove(EmittedFogs(f, a, b), m, leaf)

(***************************************************************************)
(* The frame                                                               *)
(***************************************************************************)

(* The player's move and fire, the monsters' world monsterTics times (the  *)
(* monsters, the missiles by slot, the effects by slot), the frame's tail. *)
PassLen == Walkers + MissilePool + FxPool
Steps   == 3 + stage.monsterTics * PassLen
InPass  == (step - 3) % PassLen

Part ==
  CASE step = 1     -> "move"
    [] step = 2     -> "fire"
    [] step = Steps -> "tail"
    [] OTHER        -> IF InPass < Walkers THEN "monsters"
                       ELSE IF InPass < Walkers + MissilePool THEN "missiles" ELSE "effects"

PoolSlot == IF Part = "missiles" THEN InPass - Walkers + 1 ELSE InPass - Walkers - MissilePool + 1

StepOn == step' = (step % Steps) + 1 /\ UNCHANGED stage

(* The level start's lists, baked (things.spawn_leaf_lists): each leaf's   *)
(* monsters in ascending order.                                            *)
StartList ==
  [head |-> [l \in Leaf |-> FirstOf({m \in Monster : stage.start[m] = l})],
   next |-> [t \in Thing |-> IF t \in Monster
                             THEN FirstOf({m \in Monster : m > t /\ stage.start[m] = stage.start[t]}) ELSE 0]]

StartCells ==
  [mon |-> stage.start, proj |-> [s \in Missile |-> FreeMissile], fx |-> [s \in Fx |-> FreeFx],
   list |-> StartList]

Scratch == [t |-> 0, act |-> FALSE, st |-> Null, tics |-> 0, src |-> 0, mom |-> FALSE, leaf |-> 0]

StartEmitted ==
  [pj |-> [s \in Missile |-> [act |-> FALSE, st |-> Null, tics |-> 0, src |-> 0, mom |-> FALSE]],
   fx |-> [s \in Fx |-> [act |-> FALSE, st |-> Null, tics |-> 0]],
   row |-> [t \in Thing |-> IF t \in Monster THEN stage.start[t] ELSE 0],
   list |-> StartList, live |-> 0, win |-> Scratch, ptss |-> 0]

MobilesInit ==
  /\ stage \in Stages
  /\ status = [m \in Monster |-> "live"] /\ drop = [m \in Monster |-> 0] /\ dead = FALSE
  /\ range = [s \in Missile |-> 0] /\ step = 1
  /\ cells = StartCells /\ emitted = StartEmitted

(* _kill_monster: the death states, and the drop.                          *)
Kill(killed) ==
  /\ status' = [m \in Monster |-> IF m \in killed THEN "dying" ELSE status[m]]
  /\ drop' = [m \in Monster |-> IF m \in killed \cap Dropper THEN 1 ELSE drop[m]]

Fogs(w, a, b) == WithFx(WithFx(w, "fog", 0, 0, a), "fog", 0, 0, b)

(* The player's move: he walks, teleports with two fogs, telefragging who  *)
(* stands there, or takes what lies about.                                 *)
PlayerMoves ==
  /\ Part = "move" /\ StepOn
  /\ \/ UNCHANGED <<status, drop, cells, emitted>>
     \/ \E a, b \in Leaf, frag \in SUBSET Live :
          /\ Cardinality(frag) <= 1
          /\ ~dead
          /\ Kill(frag)
          /\ cells' = Fogs(cells, a, b)
          /\ emitted' = EmittedFogs(DropLinks(emitted, frag), a, b)
     \/ \E m \in Dropper :
          /\ ~dead /\ drop[m] = 1
          /\ drop' = [drop EXCEPT ![m] = 2]
          /\ emitted' = DropTake(emitted, m)
          /\ UNCHANGED <<status, cells>>
  /\ UNCHANGED <<dead, range>>

(* A missile of `kind` is fired: into the lowest free slot, where it tries *)
(* its first half step; with no slot it fizzles.                           *)
Launch(kind, src) ==
  IF FreeSlots(cells.proj) = {} THEN UNCHANGED <<status, drop, dead, cells, emitted, range>>
  ELSE LET s == FirstOf(FreeSlots(cells.proj)) IN
       \E leaf \in Leaf, v0 \in 0 .. MaxRoll :
         LET p == [st |-> <<kind, 0>>, src |-> src] IN
         \E o \in Meeting(p, {leaf}) : \E v \in Rolls(o), blast \in BlastKills(p, o) :
           /\ Kill(KilledBy(p, o) \union blast)
           /\ dead' \in {dead \/ (o.at = "player" /\ o.kills), dead \/ Blasts(p, o)}
           /\ cells' = Launched(cells, s, kind, src, leaf, v0, o, v)
           /\ emitted' = EmittedLaunch(emitted, s, kind, src, leaf, v0, o, KilledBy(p, o), blast, v)
           /\ range' = [range EXCEPT ![s] = IF o.at = "clear" THEN MaxFlight ELSE 0]

(* A bullet or a claw lands: blood or a puff, then the damage.             *)
Strike(shooter) ==
  \E kind \in {"blood", "puff"}, again \in {0, 2, 3}, v \in 0 .. MaxRoll, leaf \in Leaf,
     killed \in SUBSET (Live \ {shooter}) :
    /\ Cardinality(killed) <= 1
    /\ (kind = "puff" => again # 2 /\ killed = {})
    /\ Kill(killed)
    /\ cells' = WithFx(cells, kind, again, v, leaf)
    /\ emitted' = DropLinks(EmittedFx(emitted, kind, again, v, leaf), killed)

PlayerFires ==
  /\ Part = "fire" /\ StepOn
  /\ \/ UNCHANGED <<status, drop, dead, cells, emitted, range>>
     \/ ~dead /\ \E kind \in PlayerMissile : Launch(kind, 0)
     \/ ~dead /\ FxPool > 0 /\ Strike(0) /\ UNCHANGED <<dead, range>>

(* One monster of the monsters' phase (in the scheduler's order, not       *)
(* modelled here).                                                         *)
MonsterActs ==
  /\ Part = "monsters" /\ StepOn
  /\ \/ UNCHANGED <<status, drop, dead, cells, emitted, range>>
     \/ \E m \in Live, leaf \in Leaf :
          /\ cells' = Walked(cells, m, leaf) /\ emitted' = EmittedMove(emitted, m, leaf)
          /\ UNCHANGED <<status, drop, dead, range>>
     \/ \E m \in Live, a, b, leaf \in Leaf :
          /\ FxPool > 0
          /\ cells' = Walked(Fogs(cells, a, b), m, leaf) /\ emitted' = EmittedTeleport(emitted, m, leaf, a, b)
          /\ UNCHANGED <<status, drop, dead, range>>
     \/ \E m \in Live \cap Shooter : Launch("ball", m)
     \/ \E m \in Live : FxPool > 0 /\ Strike(m) /\ UNCHANGED <<dead, range>>
     \/ /\ ~dead /\ Live # {}
        /\ dead' = TRUE
        /\ UNCHANGED <<status, drop, cells, emitted, range>>
     \/ \E m \in Monster :
          /\ status[m] = "dying"
          /\ status' = [status EXCEPT ![m] = "fallen"]
          /\ UNCHANGED <<drop, dead, cells, emitted, range>>

(* _projectiles_phase, slot by slot.                                       *)
MissileThinks ==
  /\ Part = "missiles" /\ StepOn
  /\ LET s == PoolSlot
         p == cells.proj[s]
     IN  IF ~p.act THEN UNCHANGED <<status, drop, dead, cells, emitted, range>>
         ELSE \E o \in IF p.mom THEN Meeting(p, IF range[s] > 0 THEN Leaf ELSE {}) ELSE {Still} :
              \E v \in Rolls(o), blast \in BlastKills(p, o) :
                /\ Kill(KilledBy(p, o) \union blast)
                /\ dead' \in {dead \/ (o.at = "player" /\ o.kills), dead \/ Blasts(p, o)}
                /\ cells' = Thinks(cells, s, o, v)
                /\ emitted' = EmittedThinks(emitted, s, o, KilledBy(p, o), blast, v)
                /\ range' = [range EXCEPT ![s] = IF o.at = "clear" THEN @ - 1 ELSE 0]

(* _fx_phase, slot by slot.                                                *)
EffectTics ==
  /\ Part = "effects" /\ StepOn
  /\ IF cells.fx[PoolSlot].act
     THEN cells' = FxTic(cells, PoolSlot) /\ emitted' = EmittedFxTic(emitted, PoolSlot)
     ELSE UNCHANGED <<cells, emitted>>
  /\ UNCHANGED <<status, drop, dead, range>>

(* The frame tail's self-reset: the window is scratch, not persisted.      *)
FrameTail ==
  /\ Part = "tail" /\ StepOn
  /\ emitted' = [emitted EXCEPT !.win = Scratch, !.ptss = 0]
  /\ UNCHANGED <<status, drop, dead, cells, range>>

(* NEW GAME, or the use press of a dead player: the restart block at the   *)
(* frame's start.                                                          *)
MobilesRestart ==
  /\ step = 1
  /\ status' = [m \in Monster |-> "live"] /\ drop' = [m \in Monster |-> 0] /\ dead' = FALSE
  /\ cells' = StartCells /\ emitted' = StartEmitted
  /\ range' = [s \in Missile |-> 0]
  /\ UNCHANGED <<step, stage>>

MobilesFrame == PlayerMoves \/ PlayerFires \/ MonsterActs \/ MissileThinks \/ EffectTics \/ FrameTail

MobilesNext == MobilesFrame \/ MobilesRestart

(* World.tic runs its phases to the end on every tic.                      *)
MobilesSpec == MobilesInit /\ [][MobilesNext]_mobiles /\ WF_step(StepOn)

(***************************************************************************)
(* Properties                                                              *)
(***************************************************************************)

CellsTypeOK ==
  /\ cells.mon \in [Monster -> Leaf]
  /\ status \in [Monster -> {"live", "dying", "fallen"}] /\ drop \in [Monster -> 0 .. 2]
  /\ \A s \in Missile : LET p == cells.proj[s] IN
       IF p.act THEN /\ p.st[1] \in MissileKind /\ p.st[2] \in 0 .. Run[p.st[1]]
                     /\ p.tics \in 1 .. Tics(p.st) /\ p.leaf \in Leaf
                     /\ p.src \in (IF p.st[1] = "ball" THEN Shooter ELSE {0})
                     /\ p.mom \in BOOLEAN
       ELSE p = FreeMissile
  /\ \A s \in Fx : LET f == cells.fx[s] IN
       IF f.act THEN /\ f.st[1] \in FxKind /\ f.st[2] \in 1 .. Run[f.st[1]]
                     /\ f.tics \in 1 .. BurstTics[f.st[1]] /\ f.leaf \in Leaf
       ELSE f = FreeFx

(* The leaf each thing of the model stands in, 0 if it stands nowhere.     *)
Stands ==
  [t \in Thing |->
     IF t <= Walkers THEN cells.mon[t]
     ELSE IF t <= Walkers + MissilePool THEN cells.proj[t - Walkers].leaf
     ELSE IF t <= PassLen THEN cells.fx[t - Walkers - MissilePool].leaf ELSE 0]

(* world.leaf_lists_from_scratch, "the invariant the incremental lists     *)
(* keep": each leaf's list is what a rebuild from the positions gives, so  *)
(* nothing is drawn twice, left behind, or out of order.                   *)
ListsFromScratch ==
  \A leaf \in Leaf :
    /\ IsListOf(cells.list, leaf, {t \in Thing : Stands[t] = leaf})
    /\ IsListOf(emitted.list, leaf, {t \in Thing : emitted.row[t] = leaf})

(* The emitted pools, worked through the one window, hold what the model's *)
(* do; and an item lies where its monster fell (a corpse's slide is not    *)
(* modelled) exactly while it is not taken, and dr_live counts them.       *)
EmittedIsModel ==
  /\ \A s \in Missile :
       \A c \in {"act", "st", "tics", "src", "mom"} : emitted.pj[s][c] = cells.proj[s][c]
  /\ \A s \in Fx : \A c \in {"act", "st", "tics"} : emitted.fx[s][c] = cells.fx[s][c]
  /\ \A t \in 1 .. PassLen : emitted.row[t] = Stands[t]
  /\ \A m \in Monster : emitted.row[DropThing(m)] = IF drop[m] = 1 THEN cells.mon[m] ELSE 0
  /\ emitted.live = Cardinality({m \in Monster : drop[m] = 1})

(* The model's cells and the emitted ones tell of the same level: one type, *)
(* one place for each thing, and lists that a rebuild would give.          *)
CellsAreModel == CellsTypeOK /\ ListsFromScratch /\ EmittedIsModel

(* A missile that has exploded only goes on dying: it does not move or     *)
(* blast again, and its slot is not taken before it is gone.               *)
DiesOnce ==
  \A s \in Missile :
    cells.proj[s].act /\ cells.proj[s].st[2] > 0 =>
      \/ cells'.proj[s] = FreeMissile
      \/ /\ cells'.proj[s].st[1] = cells.proj[s].st[1]
         /\ \/ cells'.proj[s].st[2] = cells.proj[s].st[2] /\ cells'.proj[s].tics <= cells.proj[s].tics
            \/ cells'.proj[s].st[2] = cells.proj[s].st[2] + 1 /\ cells.proj[s].tics = 1
         /\ cells'.proj[s].leaf = cells.proj[s].leaf

(* "A FOG YIELDS": only a fog is ever put out of its slot; blood and puffs *)
(* stay until their last state is over, whatever is spawned.               *)
BloodStays ==
  \A s \in Fx :
    cells.fx[s].act /\ ~IsFog(cells.fx[s]) =>
      \/ cells'.fx[s] = cells.fx[s]
      \/ Part = "effects" /\ PoolSlot = s
      \/ step = 1 /\ step' = 1
=============================================================================
