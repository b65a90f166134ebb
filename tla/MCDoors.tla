------------------------------- MODULE MCDoors -------------------------------
(***************************************************************************)
(* A small level for Doors: three rooms A, B, C with a doorway between     *)
(* each two, and a vault beside A.  dr (DR, closes by itself; a stay       *)
(* switch with a latch as E1M9's door 135, and a W1 line) joins A and B    *)
(* through doorway D; st (open-stay, moved by a WR close line and opened   *)
(* by a latched switch or a shot, as E1M6's door 56) joins B and C through *)
(* doorway S; lk opens for good with the blue card, which lies in D.       *)
(***************************************************************************)
EXTENDS Doors, Sequences

MCStart == [t \in Thing |-> IF t = Player THEN "A" ELSE "C"]

(* The corridor, walked both ways.                                         *)
Corridor == {<<"A", "D">>, <<"D", "B">>, <<"B", "S">>, <<"S", "C">>, <<"A", "V">>}
MCAdjacent == Corridor \union {<<e[2], e[1]>> : e \in Corridor}

MCPlace == {"A", "D", "B", "S", "C", "V"}

MCKind ==
  [d \in Door |->
    CASE d = "dr" -> [n |-> 3, stride |-> 1, stay |-> FALSE, wait |-> 2, pass |-> 2,
                      down |-> 1, hold |-> FALSE]
      [] d = "st" -> [n |-> 3, stride |-> 1, stay |-> TRUE, wait |-> 2, pass |-> 1,
                      down |-> 4, hold |-> TRUE]
      [] d = "lk" -> [n |-> 4, stride |-> 2, stay |-> TRUE, wait |-> 1, pass |-> 2,
                      down |-> 1, hold |-> FALSE]]

MCTouchedFrom ==
  [d \in Door |-> CASE d = "dr" -> {"D"} [] d = "st" -> {"S"} [] d = "lk" -> {"V"}]

MCFronts ==
  [d \in Door |->
    CASE d = "dr" -> {[at |-> {"A", "D", "B"}, card |-> NoCard]}
      [] d = "st" -> {}
      [] d = "lk" -> {[at |-> {"A", "V"}, card |-> "blue"]}]

MCSwitches ==
  [d \in Door |->
    CASE d = "dr" -> <<[at |-> {"C"}, card |-> NoCard, latch |-> "l1", stay |-> TRUE]>>
      [] d = "st" -> <<[at |-> {"A"}, card |-> NoCard, latch |-> "l2", stay |-> FALSE],
                       [at |-> {"B", "C"}, card |-> "blue", latch |-> NoLatch, stay |-> FALSE]>>
      [] d = "lk" -> << >>]

MCMonsterBox == [d \in Door |-> IF d = "dr" THEN {"D", "B"} ELSE {}]

(* The WR close line lies in room B's mouth of doorway S, the W1 line in   *)
(* room A's of doorway D.                                                  *)
MCLineDoor == [l \in Trigger |-> IF l = "w75" THEN "st" ELSE "dr"]
MCLineAct  == [l \in WalkRepeat |-> "close"]
MCCrosses  ==
  [e \in Adjacent |->
    CASE e \in {<<"B", "S">>, <<"S", "B">>} -> {"w75"}
      [] e = <<"D", "A">> -> {"w2"}
      [] OTHER -> {}]
MCCardAt   == [c \in Card |-> {"D"}]
=============================================================================
