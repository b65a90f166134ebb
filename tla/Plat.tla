-------------------------------- MODULE Plat --------------------------------
(***************************************************************************)
(* What a lift promises whoever stands on it or calls it: it leaves its    *)
(* rest only when called, goes all the way down, waits there its full      *)
(* time, and comes all the way back; a call while it rides is forgotten.   *)
(* A perpetual lift waits at the top too and then goes down again, uncalled *)
(* and for ever.  Movers implements it for every lift.                     *)
(***************************************************************************)
EXTENDS Naturals

CONSTANTS
  Depth,      (* how far down its lowest stop is                           *)
  Wait,       (* frames it waits at an end                                 *)
  Perpetual   (* never rests again once started                            *)

VARIABLES
  ride,       (* "rest", "down", "low", "up", or (perpetual) "high"        *)
  depth,      (* how far below its rest it is                              *)
  left,       (* frames left of its wait                                   *)
  called      (* a call nobody has looked at yet                           *)

plat == <<ride, depth, left, called>>

Init == ride = "rest" /\ depth = 0 /\ left = 0 /\ called = FALSE

Call == called' = TRUE /\ UNCHANGED <<ride, depth, left>>

(* A call on a riding lift.                                                *)
Forget == ride # "rest" /\ called' = FALSE /\ UNCHANGED <<ride, depth, left>>

Arrive(end) == ride' = end /\ left' = Wait
Depart(way) == left = 1 /\ ride' = way /\ left' = 0 /\ UNCHANGED depth

Start ==
  /\ ride = "rest" /\ called /\ ~called'
  /\ \/ ride' = "down" /\ depth' < Depth /\ UNCHANGED left
     \/ Arrive("low") /\ depth' = Depth

Sink ==
  /\ ride = "down" /\ depth' > depth /\ ~called'
  /\ \/ depth' < Depth /\ UNCHANGED <<ride, left>>
     \/ depth' = Depth /\ Arrive("low")

Rise ==
  /\ ride = "up" /\ depth' < depth /\ ~called'
  /\ \/ depth' > 0 /\ UNCHANGED <<ride, left>>
     \/ depth' = 0 /\ ~Perpetual /\ ride' = "rest" /\ UNCHANGED left
     \/ depth' = 0 /\ Perpetual /\ Arrive("high")

Stay ==
  /\ ride \in {"low", "high"} /\ ~called'
  /\ \/ left > 1 /\ left' = left - 1 /\ UNCHANGED <<ride, depth>>
     \/ ride = "low" /\ Depart("up")
     \/ ride = "high" /\ Depart("down")

(* The level starts again.                                                 *)
Reset == ride' = "rest" /\ depth' = 0 /\ left' = 0 /\ called' = FALSE

Next == Call \/ Forget \/ Start \/ Sink \/ Rise \/ Stay \/ Reset

Spec == Init /\ [][Next]_plat
=============================================================================
