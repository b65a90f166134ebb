----------------------------- MODULE MCMachines -----------------------------
(***************************************************************************)
(* The machines that share door_tic and their emitted cells: every small   *)
(* door (module MCDoorMirrors), and a small level of movers.  The movers:  *)
(* a lift passed two stops at a time, on an SR switch and on a line that   *)
(* monsters cross too; a perpetual lift that one line starts; an instant   *)
(* floor group, and a moving one that a switch, a line and a boss's death  *)
(* fire; and a switch of each other kind.                                  *)
(***************************************************************************)
EXTENDS MCDoorMirrors, Movers

VARIABLE part

Value(x) == [d \in {x[i][1] : i \in DOMAIN x} |->
               x[CHOOSE i \in DOMAIN x : x[i][1] = d][2]]

LiftSizes  == Value(<<<<"fast", 4>>, <<"perp", 3>>>>)
Strides    == Value(<<<<"fast", 2>>, <<"perp", 1>>>>)
GroupSizes == Value(<<<<"inst", 2>>, <<"moving", 3>>>>)
GroupSubs  == Value(<<<<"inst", 0>>, <<"moving", 2>>>>)
LiftsOf    ==
  Value(<<<<"sr", {"fast"}>>, <<"wr", {"fast"}>>, <<"w53", {"perp"}>>,
          <<"s1", {}>>, <<"s2", {}>>, <<"w1", {}>>>>)
GroupsOf   ==
  Value(<<<<"sr", {}>>, <<"wr", {}>>, <<"w53", {}>>,
          <<"s1", {"inst"}>>, <<"s2", {"moving"}>>, <<"w1", {"moving"}>>>>)
Worn       ==
  Value(<<<<"sr", "lift">>, <<"s1", "floor">>, <<"s2", "floor">>, <<"light", "light">>, <<"door", "door">>>>)

WornSwitches == DOMAIN Worn

OneDoor == CHOOSE c \in Configs : TRUE

(* In either part the other one stands still.                              *)
MCInit ==
  /\ MoversInit
  /\ \/ part = "doors" /\ Init
     \/ part = "movers" /\ Init /\ cfg = OneDoor

MCNext ==
  /\ \/ part = "doors" /\ Next /\ UNCHANGED moverVars
     \/ part = "movers" /\ MoversNext /\ UNCHANGED vars
  /\ UNCHANGED part

(* The frames of the movers' level go on: World.tic runs its phases to the *)
(* end on every tic.                                                       *)
MCSpec == MCInit /\ [][MCNext]_<<vars, part, moverVars>> /\ WF_phase(part = "movers" /\ GoOn)
=============================================================================
