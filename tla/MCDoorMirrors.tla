---------------------------- MODULE MCDoorMirrors ----------------------------
(***************************************************************************)
(* Every small door of the kinds the tables build (slow and blazing, DR    *)
(* and open-stay, any pass state), with up to two switches.                *)
(***************************************************************************)
EXTENDS DoorMirrors

Kinds ==
  {[n |-> n, stride |-> s, stay |-> b, wait |-> 3, pass |-> p, down |-> s, hold |-> FALSE] :
     n \in {2, 4, 6}, s \in {1, 4}, b \in BOOLEAN, p \in 0 .. 5}

SwitchOf(latch, stay) == [latch |-> latch, stay |-> stay]
SwitchLists ==
  {<< >>, <<SwitchOf(NoLatch, FALSE)>>, <<SwitchOf("l1", FALSE), SwitchOf(NoLatch, FALSE)>>,
   <<SwitchOf("l1", TRUE), SwitchOf("l2", FALSE)>>, <<SwitchOf("l1", TRUE), SwitchOf("l2", TRUE)>>,
   <<SwitchOf(NoLatch, TRUE)>>}

Opened ==
  {[kind |-> kd, switches |-> sw, front |-> f, requestable |-> r, closeable |-> FALSE] :
     kd \in {x \in Kinds : x.pass < x.n}, sw \in SwitchLists, f \in BOOLEAN, r \in BOOLEAN}
Closeable ==
  {[c EXCEPT !.closeable = TRUE, !.kind.hold = TRUE, !.kind.down = d] :
     c \in {x \in Opened : x.kind.stay}, d \in {1, 4}}

AgreeingConfigs == {c \in Opened \union Closeable : ConfigOK(c) /\ Compatible(c)}

(* E1M9's door 135: a DR door monsters press, with a latched S1 103 (open  *)
(* to stay) switch.                                                        *)
E1M9Configs ==
  {[kind |-> [n |-> 6, stride |-> 1, stay |-> FALSE, wait |-> 3, pass |-> 4,
              down |-> 1, hold |-> FALSE],
    switches |-> <<SwitchOf("l1", TRUE)>>, front |-> TRUE, requestable |-> TRUE,
    closeable |-> FALSE]}
=============================================================================
