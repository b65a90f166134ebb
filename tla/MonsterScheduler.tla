--------------------------- MODULE MonsterScheduler ---------------------------
(***************************************************************************)
(* The K-slot scheduler of world._monsters_phase and the state machine it  *)
(* drives (_set_state, A_Look, A_Chase, the attacks, damage and death).    *)
(* One PASS visits every monster slot once, in circular order from the     *)
(* rotating cursor; a monster whose next state's action is heavy needs one *)
(* of K slots of the pass, or waits with its tics at 0.  A slot's visit is *)
(* one step; the damage its attack does to others follows it, before the   *)
(* next slot's visit.  A frame is MONSTER_TICS_PER_FRAME passes, and what  *)
(* runs between two passes reaches a monster only as damage (or a restart).*)
(***************************************************************************)
EXTENDS Integers

CONSTANTS
  N,            (* the number of monster slots                             *)
  K,            (* k_heavy: the heavy slots of one pass                    *)
  Spawned,      (* the slots this skill spawns                             *)
  Souls,        (* the lost souls' slots: they charge, and vanish on death *)
  Tics,         (* the tics of every state                                 *)
  FirstTics     (* the tics each slot starts the level with (phase roll)   *)

Slot == 0 .. N - 1
NONE == N                         (* first_deferred: None                  *)

(* The states a monster goes through, one per role the code tells apart.   *)
State == {"stand", "run", "face", "attack", "charge", "pain", "die", "corpse"}
Dying == {"die", "corpse"}
TICS_FOREVER == 15

ASSUME SlotAssumption == N \in Nat \ {0} /\ K \in Nat
ASSUME SpawnAssumption == Spawned \subseteq Slot /\ Souls \subseteq Slot
ASSUME TicsAssumption ==
  /\ Tics \in [State -> 1 .. TICS_FOREVER]
  /\ \A s \in State : Tics[s] = TICS_FOREVER <=> s = "corpse"
  /\ FirstTics \in [Slot -> 1 .. Tics["stand"]]

Monster == [active : BOOLEAN, alive : BOOLEAN, fly : BOOLEAN,
            state : State, tics : 0 .. TICS_FOREVER]

Heavy == {"run", "face", "attack"}      (* A_Chase, A_FaceTarget, attacks  *)

VARIABLES
  mon,        (* every slot's active, state, tics, alive, fly (sk_fly)     *)
  cursor,     (* sched_cursor                                              *)
  visited,    (* how many slots this pass has visited                      *)
  used,       (* the heavy slots it has given                              *)
  deferred,   (* first_deferred                                            *)
  striker,    (* the slot whose attack is landing, or NONE                 *)
  acts,       (* the heavy actions run in this pass                        *)
  waits       (* the passes in a row each slot has been deferred (history) *)

vars == <<mon, cursor, visited, used, deferred, striker, acts, waits>>

(* The position of slot m in this pass's order.                            *)
Pos(m) == IF m >= cursor THEN m - cursor ELSE m - cursor + N

(***************************************************************************)
(* What happens to one monster: its cells after, or the set of them.       *)
(***************************************************************************)

Cells(active, alive, fly, state, tics) ==
  [active |-> active, alive |-> alive, fly |-> fly, state |-> state, tics |-> tics]

(* P_SetMobjState without the action.                                      *)
Enter(r, s) == Cells(r.active, r.alive, r.fly, s, Tics[s])

(* A_Look: nothing, or the see state without its A_Chase (D-WAKE).         *)
Looks(r) == {r, Enter(r, "run")}

(* A_Chase: a move; an attack begun, A_FaceTarget run at once in the same  *)
(* slot; or the target lost, the spawn state and its A_Look.               *)
Chases(r) == {r, Enter(r, "face")} \union Looks(Enter(r, "stand"))

NextOf(m, s) ==
  CASE s = "face"   -> "attack"
    [] s = "attack" -> IF m \in Souls THEN "charge" ELSE "run"
    [] s = "pain"   -> "run"
    [] s = "die"    -> "corpse"
    [] OTHER        -> s

(* The action of the state just entered: the set of cells it can leave.    *)
Acts(m, r) ==
  CASE r.state = "stand"                  -> Looks(r)
    [] r.state = "run"                    -> Chases(r)
    [] r.state = "attack" /\ m \in Souls -> {r, [r EXCEPT !.fly = TRUE]}
    [] OTHER                              -> {r}

(* Slips: a killed soul keeps its charge; the death roll may leave 0 tics. *)
KilledFlying(r) == {Cells(r.active, FALSE, r.fly, "die", t) : t \in 1 .. Tics["die"]}
KilledAtZero(r) == {Cells(r.active, FALSE, FALSE, "die", t) : t \in 0 .. Tics["die"]}

(* _kill_monster: the death state, its tics less a roll but at least 1.    *)
Killed(r) == {Cells(r.active, FALSE, FALSE, "die", t) : t \in 1 .. Tics["die"]}

(* damage_monster on a living one: nothing visible, death, the pain state  *)
(* (a charging soul feels none), or the waking of one that stood.          *)
Damaged(r) ==
  {r} \union Killed(r)
      \union (IF r.fly THEN {} ELSE {Enter(r, "pain")})
      \union (IF r.state = "stand" THEN {Enter(r, "run")} ELSE {})

(* P_MobjThinker's movement, before the tics: a charging soul flies on, or *)
(* stops or slams -- its spawn state, whose A_Look runs now.               *)
Thinks(m, r) ==
  IF m \in Souls /\ r.active /\ r.fly
  THEN {r} \union Looks(Enter([r EXCEPT !.fly = FALSE], "stand"))
  ELSE {r}

(* A tic's decrement; ready when nothing is left of the state.             *)
Ticked(r) == IF r.tics \in {0, TICS_FOREVER} THEN r ELSE [r EXCEPT !.tics = @ - 1]
Ready(r)  == r.active /\ Ticked(r).tics = 0

(* S_NULL, where a soul's death ends: P_RemoveMobj.                        *)
Vanishes(m, r) == m \in Souls /\ r.state = "die"

(***************************************************************************)
(* The pass                                                                *)
(***************************************************************************)

InitMonster(m) ==
  Cells(m \in Spawned, m \in Spawned, FALSE, "stand",
        IF m \in Spawned THEN FirstTics[m] ELSE TICS_FOREVER)

Init ==
  /\ mon = [m \in Slot |-> InitMonster(m)]
  /\ cursor = 0 /\ visited = 0
  /\ used = 0 /\ deferred = NONE /\ striker = NONE /\ acts = 0
  /\ waits = [m \in Slot |-> 0]

SlotFree(s) == s \in Heavy => used < K

(* The heavy actions a visit ran: the one its slot was given for, and the  *)
(* A_FaceTarget of an attack that A_Chase began.                           *)
HeavyRun(s, r) ==
  IF s \notin Heavy THEN 0 ELSE IF s = "run" /\ r.state = "face" THEN 2 ELSE 1

(* The visit leaves slot m with cells r; strike: its attack or slam lands. *)
Leaves(m, r, strike) ==
  /\ mon' = [mon EXCEPT ![m] = r]
  /\ striker' = IF strike THEN m ELSE NONE
  /\ visited' = visited + 1
  /\ UNCHANGED cursor

Unwaited(m) == waits' = [waits EXCEPT ![m] = 0] /\ UNCHANGED deferred

(* Inactive, a corpse, or tics to run still.                               *)
Counts(m, t, slam) ==
  /\ ~Ready(t)
  /\ Leaves(m, IF t.active THEN Ticked(t) ELSE t, slam)
  /\ Unwaited(m) /\ UNCHANGED <<used, acts>>

Removed(m, t, slam) ==
  /\ Ready(t) /\ Vanishes(m, t)
  /\ Leaves(m, Cells(FALSE, t.alive, t.fly, t.state, 0), slam)
  /\ Unwaited(m) /\ UNCHANGED <<used, acts>>

(* The next state is entered and its action run.                           *)
Enters(m, t, slam) ==
  LET s == NextOf(m, t.state) IN
  /\ Ready(t) /\ ~Vanishes(m, t) /\ SlotFree(s)
  /\ \E r \in Acts(m, Enter(t, s)) :
       /\ Leaves(m, r, slam \/ (s = "attack" /\ m \notin Souls))
       /\ acts' = acts + HeavyRun(s, r)
  /\ used' = IF s \in Heavy THEN used + 1 ELSE used
  /\ Unwaited(m)

(* Heavy, and no slot: its tics stay 0 until the next pass.                *)
Defers(m, t, slam) ==
  /\ Ready(t) /\ ~Vanishes(m, t) /\ ~SlotFree(NextOf(m, t.state))
  /\ Leaves(m, Ticked(t), slam)
  /\ deferred' = IF deferred = NONE THEN m ELSE deferred
  /\ waits' = [waits EXCEPT ![m] = @ + 1]
  /\ UNCHANGED <<used, acts>>

Visit(m) ==
  /\ visited < N /\ Pos(m) = visited
  /\ \E t \in Thinks(m, mon[m]) :
       LET slam == mon[m].fly /\ ~t.fly IN
       Counts(m, t, slam) \/ Removed(m, t, slam) \/ Enters(m, t, slam) \/ Defers(m, t, slam)

(* The damage of an attack landing, or of anything that runs between two   *)
(* passes (the player's phase, the projectiles, the barrels).              *)
Hurt(v) ==
  /\ visited = 0 \/ striker \notin {NONE, v}
  /\ mon[v].alive
  /\ \E r \in Damaged(mon[v]) : mon' = [mon EXCEPT ![v] = r]
  /\ UNCHANGED <<cursor, visited, used, deferred, striker, acts, waits>>

(* Slip: the cursor never moves.                                           *)
NextCursorStays == cursor

(* next_cursor: the first deferred is served first.                        *)
NextCursor == IF deferred = NONE THEN cursor ELSE deferred

EndPass ==
  /\ visited = N
  /\ cursor' = NextCursor
  /\ visited' = 0 /\ used' = 0 /\ deferred' = NONE /\ striker' = NONE /\ acts' = 0
  /\ UNCHANGED <<mon, waits>>

(* The restart block, at the head of a frame: everything to level start.   *)
Restart ==
  /\ visited = 0
  /\ mon' = [m \in Slot |-> InitMonster(m)]
  /\ cursor' = 0
  /\ waits' = [m \in Slot |-> 0]
  /\ UNCHANGED <<visited, used, deferred, striker, acts>>

Next ==
  \/ \E m \in Slot : Visit(m)
  \/ \E v \in Slot : Hurt(v)
  \/ EndPass
  \/ Restart

Spec == Init /\ [][Next]_vars

(***************************************************************************)
(* Properties                                                              *)
(***************************************************************************)

(* Every cell keeps its range, and a pass never gives more than K slots.   *)
TypeOK ==
  /\ mon \in [Slot -> Monster]
  /\ cursor \in Slot /\ visited \in 0 .. N
  /\ used \in 0 .. K /\ deferred \in Slot \union {NONE}
  /\ striker \in Slot \union {NONE} /\ acts \in Nat
  /\ waits \in [Slot -> Nat]

(* "The deferred are served first (round robin, starvation-free)": however *)
(* the monsters wake, fight and die, none is deferred in more than         *)
(* (N - 1) \div K passes in a row.                                         *)
WaitBound == \A m \in Slot : K * waits[m] < N

(* A monster's tics are 0 only while the scheduler owes it a slot: no path *)
(* (pain, waking, a slam, the death roll) strands one at 0, where the next *)
(* visit would skip a state's time.                                        *)
ZeroIsWaiting == \A m \in Slot : mon[m].active /\ mon[m].tics = 0 => waits[m] > 0

(* What the slots bound is slots, not actions: A_Chase may run A_FaceTarget*)
(* in its own, so a pass runs at most 2 K heavy actions.                   *)
HeavyActionsBounded == acts <= 2 * K

(* The killed stay dead until the restart: no slam that was due, pain, or  *)
(* waking puts one back among the living states, and it never charges.     *)
DeadStayDead ==
  \A m \in Spawned : ~mon[m].alive => mon[m].state \in Dying /\ ~mon[m].fly

(* The test of the scheduler says of a pass: "never more than K heavy      *)
(* monster actions in a tic".                                              *)
AtMostKHeavyActions == acts <= K
=============================================================================
