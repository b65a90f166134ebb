------------------------------ MODULE Teleports ------------------------------
(***************************************************************************)
(* The teleport lines of one tag: combat's _teleport_player and            *)
(* reactiontime, World._teleport_monster, teleport.stomp_victims, and      *)
(* their emitted counterparts in teleportcode.  The lines are collinear    *)
(* and end to end, so that a move can touch two of them (E1M7's are); who  *)
(* moves where is a choice, and so is what hurts or thrusts whom.          *)
(*                                                                         *)
(* Both programs test the lines in linedef order, and the first one to     *)
(* decide ends the tests, so the lines tested are those up to the least    *)
(* that decides.                                                           *)
(***************************************************************************)
EXTENDS Integers

CONSTANTS
  Levels,         (* the levels to choose from, records of                    *)
                  (*   lines        line l spans 2l - 2 .. 2l, linedef order  *)
                  (*   frontLow     those whose front is the side c <= 0      *)
                  (*   monsterOnly  specials 125 and 126                      *)
                  (*   once         special 125, with a latch each            *)
                  (*   hardOnly     a destination on the hard skill alone     *)
                  (*   along        the places along the lines told apart     *)
                  (*   slots        the monsters                              *)
                  (*   playerActs   FALSE: the player stands far away         *)
  REACTION_TICS   (* 18                                                       *)

ASSUME TeleportsAssumption ==
  /\ REACTION_TICS \in Nat \ {0}
  /\ \A lv \in Levels :
       /\ lv.lines \in Nat
       /\ lv.frontLow \union lv.monsterOnly \union lv.hardOnly \subseteq 1 .. lv.lines
       /\ lv.once \subseteq lv.monsterOnly
       /\ lv.along \subseteq Int /\ lv.slots \subseteq Nat \ {0}
       /\ lv.playerActs \in BOOLEAN

VARIABLES
  level,   (* the level played                                               *)
  ws,      (* the model: place, dead, rct and mom of the player, and whether *)
           (* he holds the chainsaw; at, live, momentum of each slot; the    *)
           (* latches tp_fired; the skill                                    *)
  fj,      (* the emitted cells, the same by other names                     *)
  seen     (* once lines crossed, crossed with no earlier line in the move,  *)
           (* and how often each teleported                                  *)

vars == <<level, ws, fj, seen>>

Line        == 1 .. level.lines
FrontLow    == level.frontLow
MonsterOnly == level.monsterOnly
Once        == level.once
HardOnly    == level.hardOnly
Slots       == level.slots

Player == 0
Mover  == {Player} \union Slots
Radius == 1

(* Places: <<c, o>> by the lines (c 0 is on them); the destination, either *)
(* side of it near enough to be stomped, and anywhere else.                *)
ByLine == {-1, 0, 1} \X level.along
Dest   == <<10, 0>>
AtDest == {<<9, 0>>, Dest, <<11, 0>>}
Away   == <<99, 0>>
Place  == ByLine \union AtDest \union {Away}

GameState ==
  [at : [Mover -> Place], dead : BOOLEAN, rct : 0 .. REACTION_TICS, mom : [Mover -> {0, 1}],
   live : [Slots -> BOOLEAN], spent : [Line -> BOOLEAN], hard : BOOLEAN, saw : BOOLEAN]

Overlap(p, q) == p \in AtDest /\ q \in AtDest /\ (p = q \/ Dest \in {p, q})

Shootable(s) == {m \in Slots : s.live[m]} \union (IF s.dead THEN {} ELSE {Player})

(* what a P_TryMove lets through: no one, a sliding corpse neither, goes   *)
(* where something solid is in the way                                     *)
Free(s, who, to) == ~\E t \in Shootable(s) \ {who} : Overlap(s.at[t], to)

Accepted(s, who, to) == to # s.at[who] /\ Free(s, who, to)

(* the first of some lines                                                 *)
First(lines) == CHOOSE l \in lines : \A k \in lines : l <= k

(* the outcome of a try: the state, and the line that teleported the mover *)
Untold(s) == [s |-> s, by |-> 0]

(***************************************************************************)
(* The model.                                                              *)
(***************************************************************************)
Near(old, new) == old \in ByLine /\ new \in ByLine

(* crossed_side: "none", "front" or "back"                                 *)
CrossedSide(l, old, new) ==
  IF ~Near(old, new) \/ (old[1] <= 0) = (new[1] <= 0)
     \/ ~(2 * l - 2 - Radius < new[2] /\ new[2] < 2 * l + Radius)
  THEN "none"
  ELSE IF (old[1] <= 0) = (l \in FrontLow) THEN "front" ELSE "back"

OnSkill(s, l) == l \in HardOnly => s.hard

(* stomp_victims, mover excepted                                           *)
Victims(s, mover) == {t \in Shootable(s) \ {mover} : s.at[t] \in AtDest}

(* Slip: a once line has no latch                                          *)
DecidingAgain(s, old, new) ==
  {l \in Line : CrossedSide(l, old, new) = "front" /\ OnSkill(s, l)}

(* the lines that would end _teleport_monster's loop                       *)
Deciding(s, old, new) ==
  {l \in Line : ~(l \in Once /\ s.spent[l]) /\ CrossedSide(l, old, new) = "front" /\ OnSkill(s, l)}

(* The once lines tested are spent by a crossing either way; a victim at   *)
(* the destination refuses the teleport, and the tests are over all the    *)
(* same.                                                                   *)
TeleportMonster(s, m, to) ==
  LET old      == s.at[m]
      deciding == Deciding(s, old, to)
      goes     == deciding # {} /\ Victims(s, m) = {}
      Latched(l) == l \in Once /\ CrossedSide(l, old, to) # "none" /\ \A k \in deciding : l <= k
  IN [s  |-> [s EXCEPT !.spent  = [l \in Line |-> @[l] \/ Latched(l)],
                       !.mom[m] = IF goes THEN 0 ELSE @,
                       !.at[m]  = IF goes THEN Dest ELSE to],
      by |-> IF goes THEN First(deciding) ELSE 0]

HisLines(s, to) ==
  {l \in Line : l \notin MonsterOnly /\ OnSkill(s, l) /\ CrossedSide(l, s.at[Player], to) = "front"}

(* Slip: the player's teleport spares what stands there                    *)
TeleportPlayerSpares(s, to) ==
  LET lines == HisLines(s, to)
  IN IF lines = {} THEN Untold([s EXCEPT !.at[Player] = to])
     ELSE [s  |-> [s EXCEPT !.rct = REACTION_TICS, !.mom[Player] = 0, !.at[Player] = Dest],
           by |-> First(lines)]

(* the player kills who stands there, and thrusts them but with the saw    *)
(* (_thrust: "kick away unless using the chainsaw")                        *)
TeleportPlayer(s, to) ==
  LET lines == HisLines(s, to)
      dead  == Victims(s, Player)
  IN IF lines = {} THEN Untold([s EXCEPT !.at[Player] = to])
     ELSE [s  |-> [s EXCEPT !.rct  = REACTION_TICS,
                            !.mom  = [m \in Mover |-> IF m = Player THEN 0
                                                      ELSE IF m \in dead /\ ~s.saw THEN 1 ELSE @[m]],
                            !.live = [m \in Slots |-> @[m] /\ m \notin dead],
                            !.at[Player] = Dest],
           by |-> First(lines)]

(* One accepted or refused P_TryMove: a refused one leaves the mover.      *)
TryMove(s, who, to) ==
  IF ~Accepted(s, who, to) THEN Untold(s)
  ELSE IF who = Player THEN TeleportPlayer(s, to) ELSE TeleportMonster(s, who, to)

(* _xy_move: one step or two on the momentum; a teleport stops it, and the *)
(* rest of the move goes on from the destination.                          *)
KnockMove(s, who, to, rest, on) ==
  LET one  == TryMove(s, who, to)
      slid == one.s.mom[who] = 1 /\ on /\ (to = s.at[who] \/ Free(s, who, to))
      on2  == one.by # 0 /\ rest # Dest /\ Free(one.s, who, rest)
  IN [s  |-> [one.s EXCEPT !.at[who]  = IF on2 THEN rest ELSE @,
                           !.mom[who] = IF slid THEN 1 ELSE 0],
      by |-> one.by]

(* _player_move                                                            *)
PlayerWalk(s, to) ==
  IF s.rct > 0 THEN [s EXCEPT !.rct = @ - 1] ELSE TryMove(s, Player, to).s

(***************************************************************************)
(* The emitted lines.                                                      *)
(***************************************************************************)

(* cross_front_lines: the comparisons, in the order they are made          *)
CrossFrontLines(l, old, new) ==
  /\ Near(old, new)
  /\ IF l \in FrontLow THEN old[1] <= 0 /\ new[1] > 0 ELSE old[1] > 0 /\ new[1] <= 0
  /\ new[2] > 2 * l - 2 - Radius
  /\ new[2] < 2 * l + Radius

(* cross_once_lines' crossing, either way                                  *)
CrossOnceLines(l, old, new) ==
  /\ Near(old, new)
  /\ IF old[1] <= 0 THEN new[1] > 0 ELSE new[1] <= 0
  /\ new[2] > 2 * l - 2 - Radius
  /\ new[2] < 2 * l + Radius

SkillLines(s, l) == l \notin HardOnly \/ s.hard

(* Slip: the player's corpse is in the way of a monster's teleport         *)
TpStompCorpse(s) == \E t \in Mover : (t = Player \/ s.live[t]) /\ s.at[t] \in AtDest

(* tp_stomp for a monster: the slots in order, the mover's own with them,  *)
(* then the player                                                         *)
TpStomp(s) ==
  \/ \E m \in Slots : s.live[m] /\ s.at[m] \in AtDest
  \/ ~s.dead /\ s.at[Player] \in AtDest

(* the lines whose tests go on to their fire branch; the least has it      *)
MonsterFires(s, old, new) ==
  {l \in Line \ Once : CrossFrontLines(l, old, new) /\ SkillLines(s, l)} \union
  {l \in Once : /\ ~s.spent[l] /\ CrossOnceLines(l, old, new)
                /\ (old[1] <= 0) = (l \in FrontLow) /\ SkillLines(s, l)}

(* tp_hit is 1 when that branch moved the monster                          *)
MonsterLines(s, m, to) ==
  LET old   == s.at[m]
      fires == MonsterFires(s, old, to)
      hit   == fires # {} /\ ~TpStomp(s)
      Latch(l) == l \in Once /\ CrossOnceLines(l, old, to) /\ ~\E k \in fires : k < l
  IN [s  |-> [s EXCEPT !.spent = [l \in Line |-> @[l] \/ Latch(l)],
                       !.at[m] = IF hit THEN Dest ELSE to],
      by |-> IF hit THEN First(fires) ELSE 0]

(* player_lines: the first front crossing; tp_frag on each slot stomped    *)
PlayerLines(s, to) ==
  LET fires == {l \in Line \ MonsterOnly : /\ CrossFrontLines(l, s.at[Player], to)
                                           /\ SkillLines(s, l)}
      TpFrag(m) == s.live[m] /\ s.at[m] \in AtDest
  IN IF fires = {} THEN Untold([s EXCEPT !.at[Player] = to])
     ELSE [s  |-> [s EXCEPT !.rct  = REACTION_TICS,
                            !.mom  = [m \in Mover |-> IF m = Player THEN 0
                                                      ELSE IF TpFrag(m) /\ ~s.saw THEN 1 ELSE @[m]],
                            !.live = [m \in Slots |-> @[m] /\ ~TpFrag(m)],
                            !.at[Player] = Dest],
           by |-> First(fires)]

FjTry(s, who, to) ==
  IF ~Accepted(s, who, to) THEN Untold(s)
  ELSE IF who = Player THEN PlayerLines(s, to) ELSE MonsterLines(s, who, to)

(* slot_back_lines: tp_hit zeroes the momentum on the walk                 *)
SlotBack(t, m) == IF t.by = 0 THEN t.s ELSE [t.s EXCEPT !.mom[m] = 0]

FjWalk(s, m, to) == SlotBack(FjTry(s, m, to), m)

(* reaction_lines, then the walk                                           *)
FjPlayerWalk(s, to) ==
  IF s.rct # 0 THEN [s EXCEPT !.rct = @ - 1] ELSE FjTry(s, Player, to).s

(* the knock loop: kb_px and kb_py restart at the destination, kb_vx and   *)
(* kb_vy are 0, the move left is not touched                               *)
FjKnock(s, who, to, rest, on) ==
  LET one  == FjTry(s, who, to)
      ok   == to = s.at[who] \/ Free(s, who, to)
      kb_v == IF one.by = 0 /\ ok THEN s.mom[who] ELSE 0
      at   == IF one.by # 0 /\ rest # Dest /\ Free(one.s, who, rest) THEN rest ELSE one.s.at[who]
  IN [one.s EXCEPT !.at[who] = at, !.mom[who] = IF kb_v = 1 /\ on THEN 1 ELSE 0]

(***************************************************************************)
(* The steps.                                                              *)
(***************************************************************************)
LevelStart(hard) ==
  [at |-> [t \in Mover |-> Away], dead |-> FALSE, rct |-> 0, mom |-> [t \in Mover |-> 0],
   live |-> [m \in Slots |-> TRUE], spent |-> [l \in Line |-> FALSE], hard |-> hard, saw |-> FALSE]

NothingSeen == [crossed |-> {}, alone |-> {}, moved |-> [l \in Once |-> 0]]

Watched(m, old, new, by) ==
  LET now == {l \in Line : Free(ws, m, new) /\ CrossedSide(l, old, new) # "none"}
  IN [crossed |-> seen.crossed \union (now \intersect Once),
      alone   |-> seen.alone \union {l \in now \intersect Once : \A k \in now : l <= k},
      moved   |-> [l \in Once |-> IF l # by THEN seen.moved[l]
                                  ELSE IF seen.moved[l] = 0 THEN 1 ELSE 2]]

Walk(m) ==
  \E to \in Place :
    LET t == TryMove(ws, m, to)
    IN /\ ws.live[m]
       /\ ws' = t.s
       /\ fj' = FjWalk(fj, m, to)
       /\ seen' = Watched(m, ws.at[m], to, t.by)

Knocked(m) ==
  \E to \in Place, rest \in {Dest, Away}, on \in BOOLEAN :
    LET t == KnockMove(ws, m, to, rest, on)
    IN /\ ws.mom[m] = 1
       /\ ws' = t.s
       /\ fj' = FjKnock(fj, m, to, rest, on)
       /\ seen' = Watched(m, ws.at[m], to, t.by)

(* the player's tic: the weapon, the walk, unless he is dead, then the     *)
(* knock move                                                              *)
PlayerTic ==
  /\ level.playerActs
  /\ \E saw \in BOOLEAN, walk \in Place, to \in Place, rest \in {Dest, Away}, on \in BOOLEAN :
       LET a == [ws EXCEPT !.saw = saw]
           g == [fj EXCEPT !.saw = saw]
           w == IF a.dead THEN a ELSE PlayerWalk(a, walk)
           f == IF g.dead THEN g ELSE FjPlayerWalk(g, walk)
       IN /\ ws.dead => walk = Away /\ saw = ws.saw
          /\ w.mom[Player] = 0 => to = Away /\ rest = Dest /\ ~on
          /\ ws' = IF w.mom[Player] = 0 THEN w ELSE KnockMove(w, Player, to, rest, on).s
          /\ fj' = IF f.mom[Player] = 0 THEN f ELSE FjKnock(f, Player, to, rest, on)
  /\ UNCHANGED seen

(* a hit may kill someone, and thrusts him but for the saw's and nukage's  *)
Hit ==
  /\ \E t \in Mover, kills \in BOOLEAN, thrusts \in BOOLEAN :
       LET Hurt(s) == IF t = Player
                      THEN [s EXCEPT !.mom[t] = IF thrusts THEN 1 ELSE @, !.dead = kills]
                      ELSE [s EXCEPT !.mom[t] = IF thrusts THEN 1 ELSE @, !.live[t] = ~kills]
       IN /\ t \in Shootable(ws) /\ (t = Player => level.playerActs)
          /\ ws' = Hurt(ws) /\ fj' = Hurt(fj)
  /\ UNCHANGED seen

(* NEW GAME or the restart, on a skill: level_start_lines                  *)
Restart ==
  /\ \E hard \in BOOLEAN : ws' = LevelStart(hard) /\ fj' = LevelStart(hard)
  /\ seen' = NothingSeen

Init ==
  /\ level \in Levels
  /\ \E hard \in BOOLEAN : ws = LevelStart(hard) /\ fj = LevelStart(hard)
  /\ seen = NothingSeen

Next ==
  /\ (\E m \in Slots : Walk(m) \/ Knocked(m)) \/ PlayerTic \/ Hit \/ Restart
  /\ UNCHANGED level

Spec == Init /\ [][Next]_vars

(***************************************************************************)
(* Properties.                                                             *)
(***************************************************************************)
TypeOK ==
  /\ level \in Levels
  /\ ws \in GameState
  /\ seen.crossed \subseteq Once /\ seen.alone \subseteq Once /\ seen.moved \in [Once -> 0 .. 2]

(* The emitted tests, branches and write-backs leave every cell as the     *)
(* model's loops do, over any history of moves, thrusts and deaths.        *)
TeleportsInStep == TypeOK /\ fj = ws

(* Two live things never stand in each other at the destination: a         *)
(* monster's teleport is refused and the player's kills whatever its box   *)
(* would meet, whoever came there on foot, by a thrust or by another line. *)
NoneInAnother ==
  \A s, t \in Shootable(ws) : s # t => ~Overlap(ws.at[s], ws.at[t])

(* A once-only line moves one monster a level at most, and is spent then.  *)
OnceMovesOnce ==
  \A l \in Once : seen.moved[l] <= 1 /\ (seen.moved[l] = 1 => ws.spent[l])

(* A once-only line is spent by a monster crossing it, from either side    *)
(* and even where its teleport is refused (teleport's 125: "ANY monster    *)
(* crossing"), and by nothing else; only where an earlier line is crossed  *)
(* by the same move may it be left unspent.                                *)
LatchTellsCrossing ==
  LET spent == {l \in Once : ws.spent[l]}
  IN seen.alone \subseteq spent /\ spent \subseteq seen.crossed

(* Once is once a level, and for the crossing that spent it                *)
(* (World._teleport_monster's tp_fired, and tp_w1).                        *)
OnceMeansOnce == OnceMovesOnce /\ LatchTellsCrossing

(* While the reactiontime counts, only a thrust or a restart moves him.    *)
HeldAfterTeleport ==
  ws.rct > 0 /\ ws.mom[Player] = 0 /\ ws'.at[Player] # ws.at[Player] => ws' = LevelStart(ws'.hard)
=============================================================================
