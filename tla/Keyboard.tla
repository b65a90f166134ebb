------------------------------- MODULE Keyboard -------------------------------
(***************************************************************************)
(* The standalone program's input: the keyboard device, which answers a    *)
(* poll with at most one event; kb.poll (fj/input.fj), which turns an      *)
(* event into held flags, the press latch and the menu's events; the keys  *)
(* read beside each poll on maps that have them (M, 6); and the frame that *)
(* acts on what its polls left (wall_renderer.standalone_key_lines).       *)
(***************************************************************************)
EXTENDS Integers, Sequences

CONSTANTS
  Key,        (* the keys of the keyboard                                  *)
  Flag,       (* the held keys (HELD_KEYS)                                 *)
  Event,      (* the menu's events; "any" comes with every down edge       *)
  HeldBy,     (* the flag of each key that has one (BINDING)               *)
  EventOf,    (* the event of each key that has one (MENU_KEYS)            *)
  Beside,     (* the keys kb.poll does not know, read after it             *)
  P,          (* polls a frame (STANDALONE_POLLS)                          *)
  MaxQueue    (* a bound: events due and not yet polled                    *)

ASSUME KeyAssumption ==
  /\ DOMAIN HeldBy \subseteq Key /\ \A k \in DOMAIN HeldBy : HeldBy[k] \in Flag
  /\ DOMAIN EventOf \subseteq Key /\ \A k \in DOMAIN EventOf : EventOf[k] \in Event
  /\ Beside \subseteq Key /\ "any" \notin Event
  /\ P \in Nat \ {0} /\ MaxQueue \in Nat

VARIABLES
  down,     (* the keys held down, really                                  *)
  queue,    (* the device's events, oldest first                           *)
  kbstat,   (* what the last poll answered: 0 none, 8 up, 9 down           *)
  kbcode,   (* the keycode of the last event                               *)
  held,     (* the held flags that are 1: they survive the frame           *)
  now,      (* the press latch (kb_now)                                    *)
  ev,       (* the menu's events of this frame                             *)
  left,     (* polls left in this frame                                    *)
  acts,     (* what the last frame acted on: pkeys and the number keys     *)
  heard,    (* what its menu heard                                         *)
  told,     (* history: the keys down, as far as the polls have been told  *)
  edges     (* history: the keys told to go down in this frame             *)

device  == <<down, queue>>
cells   == <<kbstat, kbcode, held, now, ev>>
frame   == <<left, acts, heard>>
history == <<told, edges>>
vars    == <<device, cells, frame, history>>

(***************************************************************************)
(* The device                                                              *)
(***************************************************************************)

KeyEvents == [key : Key, dn : BOOLEAN]

Press(k) ==
  /\ k \notin down /\ Len(queue) < MaxQueue
  /\ down' = down \union {k}
  /\ queue' = Append(queue, [key |-> k, dn |-> TRUE])
  /\ UNCHANGED <<cells, frame, history>>

Release(k) ==
  /\ k \in down /\ Len(queue) < MaxQueue
  /\ down' = down \ {k}
  /\ queue' = Append(queue, [key |-> k, dn |-> FALSE])
  /\ UNCHANGED <<cells, frame, history>>

(***************************************************************************)
(* One poll                                                                *)
(***************************************************************************)

NoCode == "no key yet"

FlagOf(k) == IF k \in DOMAIN HeldBy THEN {HeldBy[k]} ELSE {}
MenuOf(k) == IF k \in DOMAIN EventOf THEN {EventOf[k]} ELSE {}

(* Slip: a down edge latches the press and leaves the flag.                *)
AfterDownKept(k) == held

AfterDown(k) == held \union FlagOf(k)

(* Slip: an up edge is read and discarded.                                 *)
AfterUpKept(k) == held

(* A key's up edge clears its flag; the latch keeps the press.             *)
AfterUp(k) == held \ FlagOf(k)

(* Slip: the frame sees only what is held after its polls.                 *)
LatchNone(k) == {}

(* A key's down edge latches its flag for this frame.                      *)
Latch(k) == FlagOf(k)

(* Slip: a key read beside the poll is read again from the keycode an idle *)
(* poll leaves behind.                                                     *)
DownReadStale(stat, code) == stat = 9 \/ (stat = 0 /\ code \in Beside)

(* The table and the lines beside it test the status before the keycode.   *)
DownRead(stat, code) == stat = 9

(* kb.poll and the lines beside it, on what the device answered.           *)
Read(stat, code) ==
  /\ kbstat' = stat /\ kbcode' = code
  /\ IF DownRead(stat, code)
     THEN /\ held' = AfterDown(code)
          /\ now' = now \union Latch(code)
          /\ ev' = ev \union MenuOf(code) \union (IF stat = 9 THEN {"any"} ELSE {})
     ELSE /\ held' = IF stat = 8 THEN AfterUp(code) ELSE held
          /\ UNCHANGED <<now, ev>>

(* The polls are unrolled, P of them.                                      *)
MorePolls == left > 0

PollIdle ==
  /\ MorePolls /\ queue = << >>
  /\ left' = left - 1
  /\ Read(0, kbcode)
  /\ UNCHANGED <<device, acts, heard, history>>

PollEvent ==
  /\ MorePolls /\ queue # << >>
  /\ left' = left - 1 /\ queue' = Tail(queue)
  /\ LET e == Head(queue) IN
     /\ Read(IF e.dn THEN 9 ELSE 8, e.key)
     /\ told' = IF e.dn THEN told \union {e.key} ELSE told \ {e.key}
     /\ edges' = IF e.dn THEN edges \union {e.key} ELSE edges
  /\ UNCHANGED <<down, acts, heard>>

(***************************************************************************)
(* The frame                                                               *)
(***************************************************************************)

(* Slip: the latch is not zeroed before the polls.                         *)
FreshNowKept == now

(* The latch and the events start every frame at zero.                     *)
FreshNow == {}
FreshEv  == {}

(* now_lines, then the frame on the latch; and the next frame's start.     *)
Tic ==
  /\ left = 0 /\ left' = P
  /\ acts' = now \union held /\ heard' = ev
  /\ now' = FreshNow /\ ev' = FreshEv
  /\ kbstat' = 0 /\ kbcode' = NoCode
  /\ edges' = {}
  /\ UNCHANGED <<device, held, told>>

Init ==
  /\ down = {} /\ queue = << >>
  /\ kbstat = 0 /\ kbcode = NoCode /\ held = {} /\ now = {} /\ ev = {}
  /\ left = P /\ acts = {} /\ heard = {}
  /\ told = {} /\ edges = {}

Next ==
  \/ \E k \in Key : Press(k) \/ Release(k)
  \/ PollIdle \/ PollEvent \/ Tic

(* The frame loop never stops; nobody has to press anything.               *)
Spec == Init /\ [][Next]_vars /\ WF_vars(PollIdle \/ PollEvent \/ Tic)

(***************************************************************************)
(* Properties                                                              *)
(***************************************************************************)

TypeOK ==
  /\ down \subseteq Key /\ queue \in Seq(KeyEvents) /\ Len(queue) <= MaxQueue
  /\ kbstat \in {0, 8, 9} /\ kbcode \in Key \union {NoCode}
  /\ held \subseteq Flag /\ now \subseteq Flag /\ acts \subseteq Flag
  /\ ev \subseteq Event \union {"any"} /\ heard \subseteq Event \union {"any"}
  /\ left \in 0 .. P
  /\ told \subseteq Key /\ edges \subseteq Key

FlagsOf(keys) == {HeldBy[k] : k \in keys \intersect DOMAIN HeldBy}

(* No key sticks: once the device has nothing more to say, a flag is held  *)
(* only while a key of it is really down, however presses, releases and    *)
(* frames fell together.                                                   *)
NoStuckKey == queue = << >> => held \subseteq FlagsOf(down)

(* "This key is currently held" (fj/input.fj): the flag of every key that  *)
(* is down is held.  It is so when no two keys share a flag.               *)
DownIsHeld == queue = << >> => FlagsOf(down) \subseteq held

(* The frame acts on the keys that are down after its polls, or went down  *)
(* during them: a tap inside one frame counts, a release takes effect, and *)
(* the press of an earlier frame is not acted on again.                    *)
ActsOnKeys == [][Tic => acts' = FlagsOf(told \union edges)]_vars

(* The menu hears the down edges of this frame, and no other.              *)
HearsThisFrame ==
  [][Tic => heard' = {EventOf[k] : k \in edges \intersect DOMAIN EventOf}
                       \union (IF edges = {} THEN {} ELSE {"any"})]_vars

(* Every press counts: a key's down edge, once due, makes a frame act.     *)
Due(k) == \E i \in 1 .. Len(queue) : queue[i] = [key |-> k, dn |-> TRUE]
EveryPressActs == \A k \in DOMAIN HeldBy : Due(k) ~> HeldBy[k] \in acts
=============================================================================
