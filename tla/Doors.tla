-------------------------------- MODULE Doors --------------------------------
(***************************************************************************)
(* The doors of a level, and everything that presses, blocks or walks      *)
(* through them in one tic of World.tic: the doors phase (held use key,    *)
(* key cards, switches with their latches, pending requests, reversal on   *)
(* the things in a doorway), the player's phase (his moves, the walk-over  *)
(* lines, the cards, his shots at a door line), and the monsters' (their   *)
(* moves through doorways, their presses).                                 *)
(*                                                                         *)
(* Geometry is abstracted to a set of PLACES: what the code asks of a      *)
(* position is only which use boxes it is in, which doors it touches and   *)
(* which lines a step between two positions crosses.                       *)
(***************************************************************************)
EXTENDS DoorMachine

CONSTANTS
  Door,          (* the door sectors                                       *)
  Monster,       (* the monster slots                                      *)
  Player,        (* the player                                             *)
  Card,          (* the key cards                                          *)
  NoCard,        (* the card of a lock that needs none                     *)
  Place,         (* the positions things stand at                          *)
  Adjacent,      (* the steps a thing can try: a set of pairs of places    *)
  Start,         (* [Thing -> Place], the level start                      *)
  Kind,          (* [Door -> kind], see KindOK                             *)
  TouchedFrom,   (* [Door -> SUBSET Place]: standing there touches it      *)
  Fronts,        (* [Door -> set of [at, card]]: its own lines' use boxes  *)
  Switches,      (* [Door -> sequence of [at, card, latch, stay]]          *)
  NoLatch,       (* the latch of a repeatable switch                       *)
  MonsterBox,    (* [Door -> SUBSET Place]: where a monster may press it   *)
  WalkOnce,      (* the W1 trigger lines                                   *)
  WalkRepeat,    (* the WR trigger lines                                   *)
  LineDoor,      (* [trigger -> Door]                                      *)
  LineAct,       (* [WR trigger -> {"open", "close"}]                      *)
  Crosses,       (* [Adjacent -> SUBSET trigger]: lines a step crosses     *)
  ShotDoors,     (* the doors a shot at their line opens                   *)
  CardAt         (* [Card -> SUBSET Place]: standing there takes it        *)

Thing   == Monster \union {Player}
Latch   == UNION {{Switches[d][i].latch : i \in DOMAIN Switches[d]} : d \in Door}
           \ {NoLatch}
Trigger == WalkOnce \union WalkRepeat

ASSUME KindAssumption  == \A d \in Door : KindOK(Kind[d])
ASSUME PlaceAssumption ==
  /\ Player \notin Monster
  /\ Start \in [Thing -> Place]
  /\ Adjacent \subseteq Place \X Place
  /\ \A c \in Card : CardAt[c] \subseteq Place
ASSUME LineAssumption ==
  /\ \A e \in Adjacent : Crosses[e] \subseteq Trigger
  /\ LineDoor \in [Trigger -> Door]
  /\ LineAct \in [WalkRepeat -> {"open", "close"}]
  /\ ShotDoors \subseteq Door
ASSUME SwitchAssumption ==
  \A d \in Door : \A i \in DOMAIN Switches[d] : Switches[d][i].stay \in BOOLEAN
(* No thing starts in the doorway of a door it could not stand in.         *)
ASSUME StartAssumption ==
  \A t \in Thing : \A d \in Door :
    Start[t] \in TouchedFrom[d] => Kind[d].pass = 0
(* close_strides: a close line moves only an open-stay door, and the door  *)
(* it moves holds on a thing.                                              *)
ASSUME CloseLineAssumption ==
  \A l \in WalkRepeat : LineAct[l] = "close" =>
    Kind[LineDoor[l]].stay /\ Kind[LineDoor[l]].hold

VARIABLES
  door,     (* d_state, d_dir, d_sub, d_wait of every door                 *)
  fired,    (* w_fired: the W1 lines and switch latches spent              *)
  req,      (* d_monreq: the doors pressed at the next doors phase         *)
  at,       (* where every thing stands                                    *)
  alive,    (* the things that are alive (shootable)                       *)
  cards,    (* p_cards                                                     *)
  use,      (* the use key as this tic reads it                            *)
  restart,  (* g_restart                                                   *)
  phase     (* which phase of the tic runs next                            *)

vars == <<door, fired, req, at, alive, cards, use, restart, phase>>

(***************************************************************************)
(* What is asked of a door                                                 *)
(***************************************************************************)

Holds(c) == c = NoCard \/ c \in cards

(* door_touched: a live thing's box is on the door.                        *)
Touched(d) == \E t \in alive : at[t] \in TouchedFrom[d]

Passable(d) == door[d].state >= Kind[d].pass

(* Slip: the key card is not asked for.                                    *)
FrontPressAnyCard(d) ==
  use /\ Player \in alive /\ \E f \in Fronts[d] : at[Player] \in f.at

(* The door's own lines, held use: the boxes with the card each needs.     *)
FrontPress(d) ==
  /\ use /\ Player \in alive
  /\ \E f \in Fronts[d] : at[Player] \in f.at /\ Holds(f.card)

(* The door switches, first match in list order: a door at rest only, the  *)
(* card held, the latch not spent.                                         *)
Hits(d) ==
  IF use /\ Player \in alive /\ ~FrontPress(d) /\ SwitchReady(door[d])
  THEN {i \in DOMAIN Switches[d] :
          /\ at[Player] \in Switches[d][i].at
          /\ Holds(Switches[d][i].card)
          /\ Switches[d][i].latch \notin fired}
  ELSE {}

FirstHits(d) == {i \in Hits(d) : \A j \in Hits(d) : i <= j}

StayPress(d) == \E i \in FirstHits(d) : Switches[d][i].stay

(* Slip: a pending request is cleared without pressing.                    *)
PressedByKey(d) == FrontPress(d) \/ FirstHits(d) # {}

Pressed(d) == FrontPress(d) \/ FirstHits(d) # {} \/ d \in req

(* Slip: only the player holds a door open.                                *)
BlockedByPlayer(d) ==
  door[d].dir = CLOSING /\ Passable(d) /\ Player \in alive /\ at[Player] \in TouchedFrom[d]

(* Asked only of a closing door that is still passable.                    *)
Blocked(d) == door[d].dir = CLOSING /\ Passable(d) /\ Touched(d)

LatchesPressed ==
  {l \in Latch : \E d \in Door : \E i \in FirstHits(d) : Switches[d][i].latch = l}

(* A thing fits at p: no door it would touch there is still impassable.    *)
Fits(p) == \A d \in Door : p \in TouchedFrom[d] => Passable(d)

(***************************************************************************)
(* The tic                                                                 *)
(***************************************************************************)

Init ==
  /\ door = [d \in Door |-> InitialDoor]
  /\ fired = {} /\ req = {}
  /\ at = Start /\ alive = Thing /\ cards = {}
  /\ use \in BOOLEAN
  /\ restart = FALSE /\ phase = "doors"

(* The restart block: every field but the held keys back to level start.   *)
Restart ==
  /\ phase = "doors" /\ restart
  /\ door' = [d \in Door |-> InitialDoor]
  /\ fired' = {} /\ req' = {}
  /\ at' = Start /\ alive' = Thing /\ cards' = {}
  /\ restart' = FALSE
  /\ UNCHANGED <<use, phase>>

DoorsPhase ==
  /\ phase = "doors" /\ ~restart
  /\ door' = [d \in Door |->
                DoorTic(Kind[d], door[d], Pressed(d), Blocked(d), StayPress(d))]
  /\ fired' = fired \union LatchesPressed
  /\ req' = {}
  /\ phase' = IF Player \in alive THEN "player" ELSE "dead"
  /\ UNCHANGED <<at, alive, cards, use, restart>>

(* P_CrossSpecialLine for the doors, on an accepted step e: the W1 lines   *)
(* not fired yet request their door, the WR open lines request a door at   *)
(* rest, the WR close lines start a door at rest open on its way down.     *)
OnceCrossed(e) == (Crosses[e] \intersect WalkOnce) \ fired
Acting(e, act) == {l \in Crosses[e] \intersect WalkRepeat :
                     RepeatAct(LineAct[l], door[LineDoor[l]]) = act}
DoorsOf(lines) == {LineDoor[l] : l \in lines}

Walkover(e) ==
  /\ fired' = fired \union OnceCrossed(e)
  /\ req' = req \union DoorsOf(OnceCrossed(e)) \union DoorsOf(Acting(e, "press"))
  /\ door' = [d \in Door |-> IF d \in DoorsOf(Acting(e, "close"))
                             THEN CloseState(door[d]) ELSE door[d]]

(* One candidate of his step: its cards are touched whether or not it is   *)
(* accepted; a dead player's body only slides, and takes nothing.          *)
PlayerStep(e) ==
  /\ phase \in {"player", "slide"}
  /\ e[1] = at[Player]
  /\ cards' = IF Player \in alive THEN cards \union {c \in Card : e[2] \in CardAt[c]}
              ELSE cards
  /\ IF Fits(e[2])
     THEN at' = [at EXCEPT ![Player] = e[2]] /\ Walkover(e)
     ELSE UNCHANGED <<at, fired, req, door>>
  /\ phase' = "monsters"
  /\ UNCHANGED <<alive, use, restart>>

PlayerStays ==
  /\ phase \in {"player", "slide"}
  /\ phase' = "monsters"
  /\ UNCHANGED <<door, fired, req, at, alive, cards, use, restart>>

(* shot_press: a bullet at a door's line requests the door if it rests.    *)
PlayerShoots(d) ==
  /\ phase = "player" /\ Player \in alive
  /\ d \in ShotDoors /\ SwitchReady(door[d])
  /\ req' = req \union {d}
  /\ UNCHANGED <<door, fired, at, alive, cards, use, restart, phase>>

(* P_DeathThink, for a player dead when the tic began: use, held, asks for *)
(* the restart; then his body may slide.                                   *)
DeathThink ==
  /\ phase = "dead"
  /\ restart' = (restart \/ use)
  /\ phase' = "slide"
  /\ UNCHANGED <<door, fired, req, at, alive, cards, use>>

(* P_Move of a live monster, or a corpse's slide: one step.                *)
MonsterStep(m, e) ==
  /\ phase = "monsters"
  /\ e[1] = at[m] /\ Fits(e[2])
  /\ at' = [at EXCEPT ![m] = e[2]]
  /\ UNCHANGED <<door, fired, req, alive, cards, use, restart, phase>>

(* The door a refused step presses: shut and idle, or closing.             *)
MonsterMayPress(m, d) ==
  /\ at[m] \in MonsterBox[d]
  /\ \/ door[d].dir = CLOSING
     \/ door[d].dir = IDLE /\ door[d].state = 0

MonsterPress(m, d) ==
  /\ phase = "monsters" /\ m \in alive
  /\ MonsterMayPress(m, d)
  /\ req' = req \union {d}
  /\ UNCHANGED <<door, fired, at, alive, cards, use, restart, phase>>

(* A thing killed, in the player's phase or in the monsters'.              *)
Dies(t) ==
  /\ phase \in {"player", "monsters"} /\ t \in alive
  /\ alive' = alive \ {t}
  /\ UNCHANGED <<door, fired, req, at, cards, use, restart, phase>>

(* The end of the tic: the keys the next one reads.                        *)
EndTic ==
  /\ phase = "monsters"
  /\ phase' = "doors"
  /\ use' \in BOOLEAN
  /\ UNCHANGED <<door, fired, req, at, alive, cards, restart>>

Next ==
  \/ Restart
  \/ DoorsPhase
  \/ \E e \in Adjacent : PlayerStep(e)
  \/ PlayerStays
  \/ \E d \in Door : PlayerShoots(d)
  \/ DeathThink
  \/ \E m \in Monster, e \in Adjacent : MonsterStep(m, e)
  \/ \E m \in Monster, d \in Door : MonsterPress(m, d)
  \/ \E t \in Thing : Dies(t)
  \/ EndTic

(* The frame loop never stops: every phase that can run does.              *)
Fairness ==
  /\ WF_vars(Restart)
  /\ WF_vars(DoorsPhase)
  /\ WF_vars(DeathThink)
  /\ WF_vars(PlayerStays)
  /\ WF_vars(EndTic)

Spec == Init /\ [][Next]_vars /\ Fairness

(***************************************************************************)
(* Properties                                                              *)
(***************************************************************************)

(* Every cell keeps its range.                                             *)
TypeOK ==
  /\ \A d \in Door : door[d] \in DoorCells(Kind[d])
  /\ DOMAIN door = Door
  /\ fired \subseteq WalkOnce \union Latch
  /\ req \subseteq Door
  /\ at \in [Thing -> Place]
  /\ alive \subseteq Thing
  /\ cards \subseteq Card
  /\ use \in BOOLEAN /\ restart \in BOOLEAN
  /\ phase \in {"doors", "player", "dead", "slide", "monsters"}

(* door_tic's machine keeps the shape it relies on (STAY_MARK shares the   *)
(* `wait` cell with the real wait, `sub` is decremented before its zero    *)
(* test): it rests only shut or open, and its cells mean one thing each.   *)
DoorsShaped == \A d \in Door : DoorShape(Kind[d], door[d])

(* door_touched's reversal, the blocked lines of _door_phase_scene and the *)
(* order of the phases together keep every live thing out of a doorway     *)
(* that nothing fits through: no door ever shuts on anyone.                *)
NobodyCaught == \A d \in Door : Touched(d) => Passable(d)

(* A locked door -- every way to press it needs one of its cards, and no   *)
(* request reaches it -- is not off its shut state without the card.       *)
LockedBy(d) ==
  {f.card : f \in Fronts[d]}
    \union {Switches[d][i].card : i \in DOMAIN Switches[d]}
Requestable(d) ==
  \/ d \in ShotDoors \/ MonsterBox[d] # {}
  \/ \E l \in Trigger : LineDoor[l] = d
LockedStaysShut ==
  \A d \in Door :
    NoCard \notin LockedBy(d) /\ ~Requestable(d) /\ door[d].state > 0
      => LockedBy(d) \intersect cards # {}

(* A door that opens for good (no close line moves it) never comes down    *)
(* once it moves, except at the restart: neither other presses nor a thing *)
(* in it turn it round (switch_door_triggers relies on it to keep no latch *)
(* for the S1 switches of such doors).                                     *)
StayDoorsStay ==
  [][\A d \in Door :
       Kind[d].stay /\ ~Kind[d].hold /\ door'[d].state < door[d].state
         => restart]_vars

(* A request is never lost: the doors phase it reaches leaves its door on  *)
(* its way up or at its top.                                               *)
RequestsPress ==
  [][\A d \in req : phase = "doors" /\ ~restart =>
       \/ door'[d].dir = OPENING
       \/ door'[d].state = Top(Kind[d])]_vars

(* Nobody presses d or stands in it.                                       *)
Quiet(d)   == ~use /\ d \notin req /\ ~Touched(d)
MayStay(d) ==
  Kind[d].stay \/ \E i \in DOMAIN Switches[d] :
                     Switches[d][i].stay /\ Switches[d][i].latch \in fired \union {NoLatch}
AtRest(d)  == SwitchReady(door[d]) /\ (door[d].state = 0 \/ MayStay(d))

(* A door left alone comes to rest, shut unless it opens for good (of its  *)
(* kind, or by a stay switch that was pressed): a reversal does not repeat,*)
(* the wait runs out, and no phase starves the doors'.                     *)
LeftAloneComesToRest == \A d \in Door : <>[]Quiet(d) => <>[]AtRest(d)

(***************************************************************************)
(* Every door implements a Doorway: the detailed machine, with its wait,   *)
(* its strides, its reversals and its holds, shows the things of the level *)
(* only a doorway that never shuts on them.                                *)
(***************************************************************************)
Inside(d) == {t \in alive : at[t] \in TouchedFrom[d]}

Way(d) == INSTANCE Doorway WITH
  StartOpen   <- Kind[d].pass = 0,
  StartInside <- {t \in Thing : Start[t] \in TouchedFrom[d]},
  passable    <- Passable(d),
  inside      <- Inside(d)

DoorwaysStart == \A d \in Door : Way(d)!Init
DoorwaysStep  == \A d \in Door : Way(d)!Next \/ UNCHANGED Way(d)!way

(* door_tic's reversal with _door_phase_scene's blocked lines keeps the    *)
(* promise of a doorway, Way(d)!Spec, for every door d of the level.       *)
ImplementsDoorway == DoorwaysStart /\ [][DoorwaysStep]_vars
=============================================================================
