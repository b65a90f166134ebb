------------------------------ MODULE MCThings ------------------------------
(***************************************************************************)
(* Small levels for the things the monsters' world moves: the barrels of   *)
(* two maps, and three levels of mobiles, one of two missiles, one of two  *)
(* effects, and one of an effect and a missile that share the emitted      *)
(* window.  A behaviour plays one part; the other module's cells stay.     *)
(***************************************************************************)
EXTENDS Barrels, Mobiles

VARIABLE part          (* what this behaviour plays                        *)

things == <<vars, mobiles, part>>

(* Three barrels in a row: the first reaches both others, the middle one   *)
(* its neighbours, the last the middle one only.                           *)
Row ==
  [barrels |-> 3, standing |-> {1, 2, 3},
   reach |-> <<<<0, 100, 10>>, <<100, 0, 100>>, <<0, 10, 0>>>>,
   monsters |-> {0}, damages |-> {10}, monsterTics |-> 1]

Pair ==
  [barrels |-> 2, standing |-> {1, 2}, reach |-> <<<<0, 100>>, <<10, 0>>>>,
   monsters |-> {0}, damages |-> {10, 150}, monsterTics |-> 2]

RowAndPair == {Row, Pair}
BarrelTics == <<1, 1, 2, 1, 1, 1, 1>>
Bits       == <<0, 1>>

Kinds(ball, rocket, other, fog, burst) ==
  [k \in {"ball", "rocket", "plasma", "fog", "blood", "puff"} |->
     CASE k = "ball" -> ball [] k = "rocket" -> rocket [] k = "fog" -> fog
       [] k \in {"blood", "puff"} -> burst [] OTHER -> other]

(* Two missiles; two effects; one of each, which share the window.         *)
Missiles ==
  [leaf |-> {1, 2}, monsters |-> 2, shooter |-> {1}, dropper |-> {2}, start |-> <<1, 1>>,
   missilePool |-> 2, fxPool |-> 0, playerMissile |-> {"rocket"}, run |-> Kinds(1, 1, 1, 1, 3),
   flightTics |-> Kinds(2, 1, 2, 2, 2), ticsOf |-> Kinds(2, 2, 2, 1, 2), maxRoll |-> 0,
   monsterTics |-> 1, maxFlight |-> 1]

Effects ==
  [Missiles EXCEPT !.monsters = 1, !.shooter = {}, !.dropper = {1}, !.start = <<1>>,
                   !.missilePool = 0, !.fxPool = 2, !.playerMissile = {},
                   !.run = Kinds(1, 1, 1, 2, 3), !.maxRoll = 1, !.monsterTics = 2, !.maxFlight = 0]

Shared ==
  [Effects EXCEPT !.shooter = {1}, !.missilePool = 1, !.fxPool = 1, !.playerMissile = {"rocket"},
                  !.run = Kinds(1, 1, 1, 1, 3), !.maxFlight = 1]

ThreeStages == {Missiles, Effects, Shared}

(* The part without the mobiles, and the one without the barrels.          *)
Quiet     == level = Pair /\ Init /\ ws = StartWs([b \in Item |-> 1])
NoMobiles == stage = Effects /\ MobilesInit

MCInit ==
  \/ part = "barrels" /\ Init /\ NoMobiles
  \/ part = "mobiles" /\ MobilesInit /\ Quiet

MCNext ==
  /\ \/ part = "barrels" /\ Next /\ UNCHANGED mobiles
     \/ part = "mobiles" /\ MobilesNext /\ UNCHANGED vars
  /\ UNCHANGED part

MCSpec ==
  /\ MCInit /\ [][MCNext]_things
  /\ WF_turn(part = "barrels" /\ GoOn) /\ WF_step(part = "mobiles" /\ StepOn)

(* What has blown up only dies (_explode, _projectiles_phase), only a fog  *)
(* yields its slot (_spawn_fx), and a barrel blames the first who hurt it  *)
(* (damage_barrel): nothing that follows takes any of it back.             *)
NothingTakenBack == [][DiesOnce /\ BloodStays /\ BlameIsFirst]_things

(* What will be gone: a missile's or an effect's slot in use, a barrel     *)
(* that burns.                                                             *)
Passing ==
  IF part = "barrels" THEN {b \in Item : ws.st[b] \in Burning}
  ELSE {s \in Missile : cells.proj[s].act} \union {MissilePool + s : s \in {x \in Fx : cells.fx[x].act}}

(* Nothing that flies or burns is there for ever: each gives its place     *)
(* back, whatever the frames bring (combat._projectiles_phase, _fx_phase,  *)
(* _barrels_phase).                                                        *)
EachIsGone == \A t \in 1 .. 3 : t \in Passing ~> t \notin Passing
=============================================================================
