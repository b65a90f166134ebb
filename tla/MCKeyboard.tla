------------------------------ MODULE MCKeyboard ------------------------------
(***************************************************************************)
(* Keyboard for TLC: forward (w, also the menu's up), the map key (M, read *)
(* beside the poll) and key 6 (a held key read beside it), each its flag;  *)
(* and the bindings as they are, where w and the up arrow share a flag.    *)
(* Two polls a frame, so that a burst spills into the next frame.          *)
(***************************************************************************)
EXTENDS Keyboard

CONSTANTS w, up, m, six, esc

MCFlag  == {"f", "w6"}
MCEvent == {"up", "map", "esc"}

PlainKeys == {w, m, six}
PlainHeld == [k \in {w, six} |-> IF k = w THEN "f" ELSE "w6"]
PlainEv   == [k \in {w, m} |-> IF k = w THEN "up" ELSE "map"]
MCBeside  == {m, six}

SharedKeys == {w, up, esc}
SharedHeld == [k \in {w, up} |-> "f"]
SharedEv   == [k \in {w, up, esc} |-> IF k = esc THEN "esc" ELSE "up"]
SharedNone == {}
=============================================================================
