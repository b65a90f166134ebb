------------------------------ MODULE Barrels ------------------------------
(***************************************************************************)
(* The explosive barrels: combat's damage_barrel, _barrel_set_state,       *)
(* _barrels_phase, _radius_attack (its barrels) and the barrels of         *)
(* _rocket_blast; and the emitted cells of barrelcode, worked through the  *)
(* window bw_*.  Who shoots at what is a choice; which barrel a blast      *)
(* reaches, and with what damage, is the map's (chain_pairs).              *)
(***************************************************************************)
EXTENDS Integers, Sequences

CONSTANTS
  Levels,        (* the levels to choose from, records of                  *)
                 (*   barrels      how many the map has                    *)
                 (*   standing     those that stand on this skill          *)
                 (*   reach        reach[b][c]: b's blast takes so much of *)
                 (*                c; 0 no reach                           *)
                 (*   monsters     those whose hits can reach a barrel     *)
                 (*   damages      what a hit takes                        *)
                 (*   monsterTics  tics of the monsters' world a frame     *)
  TicsOf,        (* tics of S_BAR1, S_BAR2, S_BEXP .. S_BEXP5: 1 .. 7      *)
  Fxrnd,         (* P_Random() & 3 by the index rng_world, a cycle         *)
  SpawnHealth    (* 20                                                     *)

BARREL_HEALTH_MIN == -128
S_BAR1    == 1
S_BEXP    == 3
A_Explode == 6         (* S_BEXP4 *)
S_BEXP5   == 7
Burning   == S_BEXP .. S_BEXP5

ASSUME BarrelsAssumption ==
  \A lv \in Levels :
    LET items == 1 .. lv.barrels
    IN  /\ lv.barrels \in Nat /\ lv.standing \subseteq items /\ lv.monsters \subseteq Nat
        /\ lv.reach \in [items -> [items -> 0 .. 128]] /\ \A b \in items : lv.reach[b][b] = 0
        /\ lv.damages \subseteq 1 .. 255
        /\ lv.monsterTics \in Nat \ {0}

(* barrelcode.check_model_rules *)
ASSUME ModelRules ==
  /\ Fxrnd \in Seq(0 .. 3) /\ Len(Fxrnd) > 0
  /\ TicsOf \in [S_BAR1 .. S_BEXP5 -> 1 .. 14]
  /\ \A i \in 1 .. Len(Fxrnd) : TicsOf[S_BEXP] > Fxrnd[i]
  /\ SpawnHealth \in 1 .. 127

VARIABLES
  level,    (* the level played                                            *)
  ws,       (* the model's cells: st, ti, hp, solid, src and rng           *)
  fj,       (* the emitted cells: the same, vis (thvis, the leaf list) and *)
            (* the window                                                  *)
  turn      (* the part of the frame that runs next                        *)

vars == <<level, ws, fj, turn>>

Barrels     == level.barrels
Standing    == level.standing
Reach       == level.reach
Monsters    == level.monsters
Damages     == level.damages
MonsterTics == level.monsterTics
Item        == 1 .. Barrels

(* mon_target's and bar_src's code: 0 none, 1 the player, 2 + a slot.      *)
NoSource  == 0
OfPlayer  == 1
Source(m) == 2 + m
Sources   == {NoSource, OfPlayer} \union {Source(m) : m \in Monsters}

BarrelCells ==
  [st : [Item -> 0 .. S_BEXP5], ti : [Item -> 0 .. 14], hp : [Item -> BARREL_HEALTH_MIN .. SpawnHealth],
   solid : [Item -> {0, 1}], src : [Item -> Sources], rng : 1 .. Len(Fxrnd)]

(* A nibble for the tics, two for the health; bw_* is a barrel's cells.    *)
Window == [st : 0 .. S_BEXP5, ti : 0 .. 15, hp : 0 .. 255, sr : Sources]

EmittedCells ==
  [st : [Item -> 0 .. S_BEXP5], ti : [Item -> 0 .. 15], hp : [Item -> 0 .. 255],
   solid : [Item -> {0, 1}], src : [Item -> Sources], rng : 1 .. Len(Fxrnd),
   vis : [Item -> {0, 1}], bdsrc : Sources, bw : Window]

Larger(a, b) == IF a > b THEN a ELSE b
Drawn(rng)   == (rng % Len(Fxrnd)) + 1

(* Slip: the death loops as the idle states do.                            *)
NextStateLoops(st) ==
  CASE st = S_BAR1 -> 2 [] st = 2 -> S_BAR1 [] st = S_BEXP5 -> S_BEXP [] OTHER -> st + 1

NextState(st) ==
  CASE st = S_BAR1 -> 2 [] st = 2 -> S_BAR1 [] st = S_BEXP5 -> 0 [] OTHER -> st + 1

(***************************************************************************)
(* The model (CombatMixin)                                                 *)
(***************************************************************************)

(* damage_barrel: one draw of the world's stream either way.               *)
DamageBarrel(w, b, dmg, src) ==
  IF w.st[b] = 0 \/ w.hp[b] <= 0 THEN w
  ELSE LET hurt == [w EXCEPT !.hp[b] = Larger(@ - dmg, BARREL_HEALTH_MIN), !.rng = Drawn(@)]
       IN  IF hurt.hp[b] <= 0
           THEN [hurt EXCEPT !.st[b] = S_BEXP, !.ti[b] = Larger(1, TicsOf[S_BEXP] - Fxrnd[hurt.rng])]
           ELSE [hurt EXCEPT !.src[b] = IF @ = NoSource THEN src ELSE @]

(* The barrels by index, each that `taken` names a damage for.             *)
DamageEach(w, taken, src) ==
  LET after[c \in 0 .. Barrels] ==
        IF c = 0 THEN w
        ELSE IF taken[c] = 0 THEN after[c - 1] ELSE DamageBarrel(after[c - 1], c, taken[c], src)
  IN  after[Barrels]

(* _radius_attack: the exploding barrel's own source is the blast's.       *)
RadiusAttack(w, b) == DamageEach(w, Reach[b], w.src[b])

(* _barrel_set_state *)
SetState(w, b, st) ==
  IF st = 0 THEN [w EXCEPT !.st[b] = 0, !.ti[b] = 0, !.solid[b] = 0]
  ELSE LET set == [w EXCEPT !.st[b] = st, !.ti[b] = TicsOf[st]]
       IN  IF st = A_Explode THEN RadiusAttack(set, b) ELSE set

(* One barrel of _barrels_phase.                                           *)
BarrelTic(w, b) ==
  IF w.st[b] = 0 THEN w
  ELSE LET on == [w EXCEPT !.ti[b] = @ - 1]
       IN  IF on.ti[b] = 0 THEN SetState(on, b, NextState(w.st[b])) ELSE on

(***************************************************************************)
(* The emitted code (barrelcode)                                           *)
(***************************************************************************)

(* An 8-bit cell's value, and its cell.                                    *)
Signed(cell) == IF cell >= 128 THEN cell - 256 ELSE cell

(* Slip: the difference is taken in the 8-bit cell.                        *)
BdLeafWraps(f, dmg) ==
  IF f.bw.st = 0 \/ Signed(f.bw.hp) <= 0 THEN f
  ELSE LET t    == (f.bw.hp - dmg) % 256
           hurt == [f EXCEPT !.bw.hp = t, !.rng = Drawn(@)]
       IN  IF Signed(t) > 0 THEN [hurt EXCEPT !.bw.sr = IF @ = NoSource THEN f.bdsrc ELSE @]
           ELSE [hurt EXCEPT !.bw.st = S_BEXP, !.bw.ti = (TicsOf[S_BEXP] - Fxrnd[hurt.rng]) % 16]

(* bd_leaf: 12 bits for the difference, the cell saturating.               *)
BdLeaf(f, dmg) ==
  IF f.bw.st = 0 \/ Signed(f.bw.hp) <= 0 THEN f
  ELSE LET t    == Larger(f.bw.hp - dmg, BARREL_HEALTH_MIN)
           hurt == [f EXCEPT !.bw.hp = t % 256, !.rng = Drawn(@)]
       IN  IF t > 0 THEN [hurt EXCEPT !.bw.sr = IF @ = NoSource THEN f.bdsrc ELSE @]
           ELSE [hurt EXCEPT !.bw.st = S_BEXP, !.bw.ti = (TicsOf[S_BEXP] - Fxrnd[hurt.rng]) % 16]

(* bdm<c>: barrel c's cells in and out.                                    *)
Bdm(f, c, dmg) ==
  LET g == BdLeaf([f EXCEPT !.bw = [st |-> f.st[c], ti |-> f.ti[c], hp |-> f.hp[c], sr |-> f.src[c]]], dmg)
  IN  [g EXCEPT !.st[c] = g.bw.st, !.ti[c] = g.bw.ti, !.hp[c] = g.bw.hp, !.src[c] = g.bw.sr]

(* dmb_src: a shot's source, or the monster's; then bdm<b>.                *)
EmittedHit(f, b, dmg, src) == Bdm([f EXCEPT !.bdsrc = src], b, dmg)

(* Barrel b's static chain: bd_src is read again at each.                  *)
Chain(f, b) ==
  LET after[c \in 0 .. Barrels] ==
        IF c = 0 THEN f
        ELSE IF Reach[b][c] = 0 THEN after[c - 1]
        ELSE Bdm([after[c - 1] EXCEPT !.bdsrc = after[c - 1].src[b]], c, Reach[b][c])
  IN  after[Barrels]

(* rk_blast: a standing barrel only.                                       *)
EmittedRocket(f, taken) ==
  LET Hits(g, c) == taken[c] # 0 /\ g.st[c] # 0 /\ Signed(g.hp[c]) > 0
      after[c \in 0 .. Barrels] ==
        IF c = 0 THEN f
        ELSE IF ~Hits(after[c - 1], c) THEN after[c - 1]
        ELSE Bdm([after[c - 1] EXCEPT !.bdsrc = OfPlayer], c, taken[c])
  IN  after[Barrels]

(* bar_next, and what its flag asks for.                                   *)
Step(f, b) ==
  LET st  == NextState(f.st[b])
      win == [f EXCEPT !.bw.st = st, !.bw.ti = IF st = 0 THEN 0 ELSE TicsOf[st]]
      set == [win EXCEPT !.st[b] = win.bw.st, !.ti[b] = win.bw.ti]
  IN  IF st = A_Explode THEN Chain(set, b)
      ELSE IF st = 0 THEN [set EXCEPT !.solid[b] = 0, !.vis[b] = 0] ELSE set

(* Barrel b's stub of bar_phase.                                           *)
EmittedTic(f, b) ==
  IF f.st[b] = 0 THEN f
  ELSE LET on == [f EXCEPT !.ti[b] = (@ - 1) % 16]
       IN  IF on.ti[b] # 0 THEN on ELSE Step(on, b)

(***************************************************************************)
(* The frame                                                               *)
(***************************************************************************)

(* The player's shots, then MonsterTics times the monsters, the missiles   *)
(* and the barrels by index.                                               *)
WorldLen == 2 + Barrels
Turns    == 1 + MonsterTics * WorldLen
InWorld  == (turn - 2) % WorldLen

Phase ==
  CASE turn = 1 -> "player" [] turn > 1 /\ InWorld = 0 -> "monsters"
    [] turn > 1 /\ InWorld = 1 -> "missiles" [] OTHER -> "barrels"

Slot == InWorld - 1
GoOn == turn' = (turn % Turns) + 1

OnStanding(x) == [b \in Item |-> IF b \in Standing THEN x ELSE 0]

(* The level start: each barrel's phase roll.                              *)
StartWs(phase) ==
  [st |-> OnStanding(S_BAR1), ti |-> [b \in Item |-> IF b \in Standing THEN phase[b] ELSE 0],
   hp |-> OnStanding(SpawnHealth), solid |-> OnStanding(1), src |-> [b \in Item |-> NoSource],
   rng |-> 1]

StartFj(phase) ==
  [st |-> OnStanding(S_BAR1), ti |-> [b \in Item |-> IF b \in Standing THEN phase[b] ELSE 0],
   hp |-> OnStanding(SpawnHealth), solid |-> OnStanding(1), src |-> [b \in Item |-> NoSource],
   rng |-> 1, vis |-> OnStanding(1), bdsrc |-> NoSource, bw |-> [st |-> 0, ti |-> 0, hp |-> 0, sr |-> 0]]

Phases == [Item -> 1 .. TicsOf[S_BAR1]]

Init == level \in Levels /\ turn = 1 /\ \E p \in Phases : ws = StartWs(p) /\ fj = StartFj(p)

HitBy(src) ==
  \/ UNCHANGED <<ws, fj>>
  \/ \E b \in Item, dmg \in Damages :
       ws' = DamageBarrel(ws, b, dmg, src) /\ fj' = EmittedHit(fj, b, dmg, src)

(* _line_attack on a barrel.                                               *)
PlayerShoots == Phase = "player" /\ GoOn /\ HitBy(OfPlayer)

(* A monster's stray bullet.                                               *)
MonsterShoots == Phase = "monsters" /\ GoOn /\ \E m \in Monsters : HitBy(Source(m))

(* A fireball meets a barrel, or a rocket blasts near some.                *)
MissileHits ==
  /\ Phase = "missiles" /\ GoOn
  /\ \/ \E m \in Monsters : HitBy(Source(m))
     \/ \E near \in SUBSET Item, dmg \in Damages :
          LET taken == [b \in Item |-> IF b \in near THEN dmg ELSE 0] IN
          ws' = DamageEach(ws, taken, OfPlayer) /\ fj' = EmittedRocket(fj, taken)

BarrelsPhase ==
  /\ Phase = "barrels" /\ GoOn
  /\ ws' = BarrelTic(ws, Slot) /\ fj' = EmittedTic(fj, Slot)

(* NEW GAME, and a dead player's restart, before the player's phase.       *)
Restart ==
  /\ turn = 1 /\ UNCHANGED turn
  /\ \E p \in Phases : ws' = StartWs(p) /\ fj' = StartFj(p)

Frame == PlayerShoots \/ MonsterShoots \/ MissileHits \/ BarrelsPhase

Next == (Frame \/ Restart) /\ UNCHANGED level

(* World.tic runs its phases to the end on every tic.                      *)
Spec == Init /\ [][Next]_vars /\ WF_turn(GoOn)

(***************************************************************************)
(* Properties                                                              *)
(***************************************************************************)

TypeOK ==
  /\ level \in Levels /\ turn \in 1 .. Turns
  /\ ws \in BarrelCells /\ fj \in EmittedCells

(* A barrel burns exactly when its health is out, whatever order the hits  *)
(* and blasts of a frame came in; it counts the tics of its state, and it  *)
(* blocks as long as it is there.                                          *)
HealthTellsState ==
  \A b \in Item : /\ ws.st[b] # 0 => (ws.st[b] \in Burning <=> ws.hp[b] <= 0)
                  /\ ws.ti[b] \in (IF ws.st[b] = 0 THEN {0} ELSE 1 .. TicsOf[ws.st[b]])
                  /\ (ws.st[b] # 0 <=> ws.solid[b] = 1)
                  /\ ws.st[b] = 0 => (ws.hp[b] <= 0 \/ b \notin Standing)

(* The emitted cells, one window for all barrels, are the model's, and a   *)
(* barrel is drawn as long as it is there.                                 *)
BinaryIsModel ==
  /\ fj.rng = ws.rng
  /\ \A b \in Item : /\ fj.st[b] = ws.st[b] /\ fj.ti[b] = ws.ti[b] /\ Signed(fj.hp[b]) = ws.hp[b]
                     /\ fj.solid[b] = ws.solid[b] /\ fj.src[b] = ws.src[b]
                     /\ (fj.vis[b] = 1 <=> ws.st[b] # 0)

(* Through every chain of blasts the emitted barrels, worked through one   *)
(* window, hold what the model's do, each cell in its width, and a barrel  *)
(* burns exactly when its health is out (combat, barrelcode).              *)
BarrelsInStep == TypeOK /\ HealthTellsState /\ BinaryIsModel

(* "the source of the first damage that did NOT kill it": nobody is blamed *)
(* for a barrel he only finished, nor in place of the first.               *)
BlameIsFirst ==
  \A b \in Item :
    ws'.src[b] # ws.src[b] =>
      \/ turn' = turn
      \/ ws.src[b] = NoSource /\ ws'.hp[b] < ws.hp[b] /\ ws'.hp[b] > 0

FateOf(b) ==
  CASE ws.st[b] = 0 -> "gone" [] ws.st[b] \in 1 .. 2 -> "stands"
    [] ws.st[b] \in S_BEXP .. A_Explode - 1 -> "burns" [] OTHER -> "spent"

BarrelAt(b) == INSTANCE Barrel WITH
  fate <- FateOf(b), atStart <- IF b \in Standing THEN "stands" ELSE "gone"

BarrelsStart == \A b \in Item : BarrelAt(b)!Placed
BarrelsStep  ==
  \/ \A b \in Item : BarrelAt(b)!Ends \/ UNCHANGED BarrelAt(b)!barrel
  \/ turn' = turn /\ \A b \in Item : BarrelAt(b)!Reborn

(* Every barrel is the one Barrel describes, through volleys, stray shots, *)
(* rockets and the blasts of the others: however it is hit, it blasts once *)
(* and is gone (combat._barrels_phase).                                    *)
ImplementsBarrel == BarrelsStart /\ [][BarrelsStep]_vars
=============================================================================
