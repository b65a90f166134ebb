-------------------------- MODULE MCSoundTeleports --------------------------
(***************************************************************************)
(* Small levels for the two things a step looks up in the map's lines:     *)
(* where a teleport line leads, for a player and a monster beside a line   *)
(* each, and for two monsters beside three lines, two of them once-only;   *)
(* and how far a shot is heard, on every map of three rooms and a door and *)
(* of two rooms, a lift and a pit.                                         *)
(***************************************************************************)
EXTENDS Teleports, FiniteSets

Trips ==
  [lines |-> 2, frontLow |-> {1}, monsterOnly |-> {2}, once |-> {}, hardOnly |-> {},
   along |-> {2}, slots |-> {1}, playerActs |-> TRUE]

Latches ==
  [lines |-> 3, frontLow |-> {1, 3}, monsterOnly |-> {1, 2, 3}, once |-> {1, 2}, hardOnly |-> {3},
   along |-> {2, 4}, slots |-> {1, 2}, playerActs |-> FALSE]

MCLevels == {Trips, Latches}

VARIABLES part, map, cell, snd_alert, flood, pc, passes

floodVars == <<map, cell, snd_alert, flood, pc, passes>>

Marked == INSTANCE SoundFlood WITH
  Still <- {1, 2, 3}, Doors <- {4}, Lifts <- {}, Pits <- {}, States <- 2,
  Rooms <- {"tall"}, Kinds <- {"wall", "plain", "marked"}, fj <- flood

Movers == INSTANCE SoundFlood WITH
  Still <- {1, 2}, Doors <- {}, Lifts <- {3}, Pits <- {4}, States <- 2,
  Rooms <- {"low", "high", "tall"}, Kinds <- {"wall", "plain"}, fj <- flood

ASSUME MarkedAssumption == Marked!SoundFloodAssumption
ASSUME MoversAssumption == Movers!SoundFloodAssumption

(* In each part the others stand still.                                    *)
MCInit ==
  /\ Init
  /\ \/ /\ part = "teleports"
        /\ map = <<>> /\ cell = <<>> /\ snd_alert = {} /\ flood = <<>> /\ pc = "idle" /\ passes = 0
     \/ /\ level = Trips /\ ~ws.hard
        /\ \/ part = "marked" /\ Marked!Init
           \/ part = "movers" /\ Movers!Init

MCNext ==
  /\ \/ part = "teleports" /\ Next /\ UNCHANGED floodVars
     \/ part = "marked" /\ Marked!Next /\ UNCHANGED vars
     \/ part = "movers" /\ Movers!Next /\ UNCHANGED vars
  /\ UNCHANGED part

MCSpec == MCInit /\ [][MCNext]_<<vars, part, floodVars>>

(* Once its flood is over the emitted program has alerted the nodes the    *)
(* model has (noisecode against World.noise_alert), and every flood is     *)
(* over within twice as many passes as there are nodes.                    *)
FloodInStep ==
  CASE part = "marked" -> Marked!TypeOK /\ Marked!BinaryIsModel /\ Marked!PassesBounded
    [] part = "movers" -> Movers!TypeOK /\ Movers!BinaryIsModel /\ Movers!PassesBounded
    [] OTHER           -> TRUE

(* A shot is heard in exactly the sectors P_RecursiveSound would reach     *)
(* through the openings of this tic (World.noise_alert), the emitted flood *)
(* in step with it; and while the reactiontime counts, only a thrust or a  *)
(* restart moves the player (combat._player_move).                         *)
HeardAndHeld ==
  /\ []FloodInStep
  /\ [][ CASE part = "marked" -> Marked!HeardIsEarshot
           [] part = "movers" -> Movers!HeardIsEarshot
           [] OTHER           -> HeldAfterTeleport ]_<<vars, part, floodVars>>
=============================================================================
