--------------------------- MODULE Keyboard_proofs ---------------------------
(***************************************************************************)
(* Proofs about Keyboard, for every keyboard, every table of bindings and  *)
(* every number of polls a frame.  What the frame acts on is tied to the   *)
(* keys in two steps: the cells follow what the polls have been told       *)
(* (CellsFollow), and what they have been told, followed by what is still  *)
(* queued, is what the keys are (QueueInv).                                *)
(***************************************************************************)
EXTENDS Keyboard, TLAPS

EventsOf(k) == {i \in 1 .. Len(queue) : queue[i].key = k}
LastOf(k, i) == i \in EventsOf(k) /\ \A j \in EventsOf(k) : j <= i

(* Key k is down if and only if its last event in the queue says so, or,   *)
(* when it has none there, the polls have been told so.                    *)
KeyInv(k) ==
  /\ EventsOf(k) = {} => (k \in told <=> k \in down)
  /\ \A i \in EventsOf(k) : LastOf(k, i) => (queue[i].dn = TRUE <=> k \in down)
QueueInv == \A k \in Key : KeyInv(k)

EventsOfKeys(keys) ==
  {EventOf[k] : k \in keys \intersect DOMAIN EventOf} \union (IF keys = {} THEN {} ELSE {"any"})

(* The cells, by what the polls of this frame were told.                   *)
CellsFollow ==
  /\ held \subseteq FlagsOf(told)
  /\ now = FlagsOf(edges)
  /\ ev = EventsOfKeys(edges)

IInv == TypeOK /\ QueueInv /\ CellsFollow

(* No flag has two keys.                                                   *)
OneKeyAFlag == \A k, l \in DOMAIN HeldBy : HeldBy[k] = HeldBy[l] => k = l
HeldInv == FlagsOf(told) \subseteq held

(***************************************************************************)
(* Type correctness                                                        *)
(***************************************************************************)

(* A key's flag is a flag.                                                 *)
LEMMA FlagOfType == \A k : FlagOf(k) \subseteq Flag
  BY KeyAssumption DEF FlagOf

(* A key's menu event is an event.                                         *)
LEMMA MenuOfType == \A k : MenuOf(k) \subseteq Event
  BY KeyAssumption DEF MenuOf

(* What one poll does to the cells.                                        *)
LEMMA ReadCells ==
  ASSUME NEW stat \in {0, 8, 9}, NEW code, Read(stat, code)
  PROVE  /\ kbstat' = stat /\ kbcode' = code
         /\ stat = 9 => /\ held' = held \union FlagOf(code)
                        /\ now' = now \union FlagOf(code)
                        /\ ev' = ev \union MenuOf(code) \union {"any"}
         /\ stat = 8 => held' = held \ FlagOf(code) /\ now' = now /\ ev' = ev
         /\ stat = 0 => held' = held /\ now' = now /\ ev' = ev
  BY DEF Read, DownRead, AfterDown, AfterUp, Latch

(* Taking the oldest event off the device's queue.                         *)
LEMMA HeadEvent ==
  ASSUME queue \in Seq(KeyEvents), queue # << >>
  PROVE  /\ Head(queue) = queue[1] /\ Head(queue) \in KeyEvents
         /\ Tail(queue) \in Seq(KeyEvents) /\ Len(Tail(queue)) = Len(queue) - 1
         /\ Len(queue) \in Nat \ {0}
         /\ \A i \in 1 .. Len(queue) - 1 : Tail(queue)[i] = queue[i + 1]
  OBVIOUS

(* When the program starts, no key is down and every cell is zero.         *)
THEOREM InitIInv == Init => IInv
<1> SUFFICES ASSUME Init PROVE IInv
  OBVIOUS
<1>1. TypeOK
  BY KeyAssumption DEF Init, TypeOK
<1>2. QueueInv
  BY DEF Init, QueueInv, KeyInv, EventsOf, LastOf
<1>3. CellsFollow
  BY DEF Init, CellsFollow, FlagsOf, EventsOfKeys
<1> QED BY <1>1, <1>2, <1>3 DEF IInv

(* A press, a release, a poll and the frame keep every cell in its range.  *)
LEMMA StepTypeOK == TypeOK /\ [Next]_vars => TypeOK'
<1> SUFFICES ASSUME TypeOK, [Next]_vars PROVE TypeOK'
  OBVIOUS
<1>1. ASSUME NEW k \in Key, Press(k) PROVE TypeOK'
  <2>1. [key |-> k, dn |-> TRUE] \in KeyEvents
    BY DEF KeyEvents
  <2>2. queue' \in Seq(KeyEvents) /\ Len(queue') <= MaxQueue
    BY <1>1, <2>1, KeyAssumption DEF TypeOK, Press
  <2> QED BY <1>1, <2>2 DEF TypeOK, Press, cells, frame, history
<1>2. ASSUME NEW k \in Key, Release(k) PROVE TypeOK'
  <2>1. [key |-> k, dn |-> FALSE] \in KeyEvents
    BY DEF KeyEvents
  <2>2. queue' \in Seq(KeyEvents) /\ Len(queue') <= MaxQueue
    BY <1>2, <2>1, KeyAssumption DEF TypeOK, Release
  <2> QED BY <1>2, <2>2 DEF TypeOK, Release, cells, frame, history
<1>3. CASE PollIdle
  BY <1>3, ReadCells, KeyAssumption DEF TypeOK, PollIdle, MorePolls, device, history
<1>4. CASE PollEvent
  <2> DEFINE e == Head(queue)
  <2>1. e \in KeyEvents /\ Tail(queue) \in Seq(KeyEvents) /\ Len(Tail(queue)) <= MaxQueue
    BY <1>4, HeadEvent, KeyAssumption DEF TypeOK, PollEvent
  <2>2. e.key \in Key
    BY <2>1 DEF KeyEvents
  <2>3. Read(IF e.dn THEN 9 ELSE 8, e.key)
    BY <1>4 DEF PollEvent
  <2>4. /\ kbstat' \in {0, 8, 9} /\ kbcode' = e.key
        /\ held' \subseteq Flag /\ now' \subseteq Flag /\ ev' \subseteq Event \union {"any"}
    <3>1. CASE e.dn
      BY <2>3, <3>1, ReadCells, FlagOfType, MenuOfType DEF TypeOK
    <3>2. CASE ~e.dn
      BY <2>3, <3>2, ReadCells, FlagOfType, MenuOfType DEF TypeOK
    <3> QED BY <3>1, <3>2
  <2>5. told' \subseteq Key /\ edges' \subseteq Key
    BY <1>4, <2>2 DEF PollEvent, TypeOK
  <2>6. left' \in 0 .. P
    BY <1>4, KeyAssumption DEF PollEvent, MorePolls, TypeOK
  <2>7. queue' = Tail(queue) /\ UNCHANGED <<down, acts, heard>>
    BY <1>4 DEF PollEvent
  <2> HIDE DEF e
  <2> QED BY <2>1, <2>2, <2>4, <2>5, <2>6, <2>7 DEF TypeOK
<1>5. CASE Tic
  BY <1>5, KeyAssumption DEF TypeOK, Tic, FreshNow, FreshEv, device
<1>6. CASE UNCHANGED vars
  BY <1>6 DEF TypeOK, vars, device, cells, frame, history
<1> QED BY <1>1, <1>2, <1>3, <1>4, <1>5, <1>6 DEF Next

(***************************************************************************)
(* The cells follow what the polls are told                                *)
(***************************************************************************)

(* A key told to go down adds its flag, and its menu event, to those of    *)
(* the keys told before.                                                   *)
LEMMA FlagsOfMore ==
  ASSUME NEW keys, NEW k
  PROVE  /\ FlagsOf(keys \union {k}) = FlagsOf(keys) \union FlagOf(k)
         /\ EventsOfKeys(keys \union {k}) = EventsOfKeys(keys) \union MenuOf(k) \union {"any"}
<1>1. FlagsOf(keys \union {k}) = FlagsOf(keys) \union FlagOf(k)
  BY DEF FlagsOf, FlagOf
<1>2. keys \union {k} # {}
  OBVIOUS
<1>3. {EventOf[l] : l \in (keys \union {k}) \intersect DOMAIN EventOf}
        = {EventOf[l] : l \in keys \intersect DOMAIN EventOf} \union MenuOf(k)
  BY DEF MenuOf
<1>4. EventsOfKeys(keys \union {k}) = EventsOfKeys(keys) \union MenuOf(k) \union {"any"}
  BY <1>2, <1>3 DEF EventsOfKeys
<1> QED BY <1>1, <1>4

(* A key told to go up leaves every other key's flag.                      *)
LEMMA FlagsOfFewer ==
  ASSUME NEW keys, NEW k
  PROVE  FlagsOf(keys) \ FlagOf(k) \subseteq FlagsOf(keys \ {k})
  BY DEF FlagsOf, FlagOf

(* What a poll that finds an event does, by the event's direction.         *)
LEMMA PollEventEffect ==
  ASSUME TypeOK, PollEvent
  PROVE  \E k \in Key :
           /\ queue[1].key = k
           /\ \/ /\ queue[1].dn = TRUE
                 /\ told' = told \union {k} /\ edges' = edges \union {k}
                 /\ held' = held \union FlagOf(k) /\ now' = now \union FlagOf(k)
                 /\ ev' = ev \union MenuOf(k) \union {"any"}
              \/ /\ queue[1].dn = FALSE
                 /\ told' = told \ {k} /\ edges' = edges
                 /\ held' = held \ FlagOf(k) /\ now' = now /\ ev' = ev
<1> DEFINE e == Head(queue)
<1>1. e = queue[1] /\ e \in KeyEvents
  BY HeadEvent DEF TypeOK, PollEvent
<1>2. e.key \in Key /\ e.dn \in BOOLEAN
  BY <1>1 DEF KeyEvents
<1>3. /\ Read(IF e.dn THEN 9 ELSE 8, e.key)
      /\ told' = IF e.dn THEN told \union {e.key} ELSE told \ {e.key}
      /\ edges' = IF e.dn THEN edges \union {e.key} ELSE edges
  BY DEF PollEvent
<1> HIDE DEF e
<1>4. CASE e.dn = TRUE
  <2>1. Read(9, e.key) /\ told' = told \union {e.key} /\ edges' = edges \union {e.key}
    BY <1>3, <1>4
  <2>2. /\ held' = held \union FlagOf(e.key) /\ now' = now \union FlagOf(e.key)
        /\ ev' = ev \union MenuOf(e.key) \union {"any"}
    BY <2>1, ReadCells
  <2> QED BY <1>1, <1>2, <1>4, <2>1, <2>2
<1>5. CASE e.dn = FALSE
  <2>1. Read(8, e.key) /\ told' = told \ {e.key} /\ edges' = edges
    BY <1>3, <1>5
  <2>2. held' = held \ FlagOf(e.key) /\ now' = now /\ ev' = ev
    BY <2>1, ReadCells
  <2> QED BY <1>1, <1>2, <1>5, <2>1, <2>2
<1> QED BY <1>2, <1>4, <1>5

(* The cells follow through every step; the frame starts them afresh.      *)
LEMMA StepCellsFollow == TypeOK /\ CellsFollow /\ [Next]_vars => CellsFollow'
<1> SUFFICES ASSUME TypeOK, CellsFollow, [Next]_vars PROVE CellsFollow'
  OBVIOUS
<1>1. ASSUME UNCHANGED <<held, now, ev, told, edges>> PROVE CellsFollow'
  BY <1>1 DEF CellsFollow, FlagsOf, EventsOfKeys
<1>2. ASSUME NEW k \in Key, Press(k) \/ Release(k) PROVE CellsFollow'
  BY <1>1, <1>2 DEF Press, Release, cells, history
<1>3. CASE PollIdle
  BY <1>1, <1>3, ReadCells DEF PollIdle, history
<1>4. CASE PollEvent
  <2>1. PICK k \in Key :
          \/ /\ told' = told \union {k} /\ edges' = edges \union {k}
             /\ held' = held \union FlagOf(k) /\ now' = now \union FlagOf(k)
             /\ ev' = ev \union MenuOf(k) \union {"any"}
          \/ /\ told' = told \ {k} /\ edges' = edges
             /\ held' = held \ FlagOf(k) /\ now' = now /\ ev' = ev
    BY <1>4, PollEventEffect
  <2>2. held' \subseteq FlagsOf(told')
    BY <2>1, FlagsOfMore, FlagsOfFewer DEF CellsFollow
  <2>3. now' = FlagsOf(edges') /\ ev' = EventsOfKeys(edges')
    BY <2>1, FlagsOfMore DEF CellsFollow
  <2> QED BY <2>2, <2>3 DEF CellsFollow, FlagsOf, EventsOfKeys
<1>5. CASE Tic
  BY <1>5 DEF Tic, FreshNow, FreshEv, CellsFollow, FlagsOf, EventsOfKeys
<1>6. CASE UNCHANGED vars
  BY <1>1, <1>6 DEF vars, cells, history
<1> QED BY <1>2, <1>3, <1>4, <1>5, <1>6 DEF Next

(***************************************************************************)
(* What the polls were told, followed by the queue, is what the keys are   *)
(***************************************************************************)

(* KeyInv without its sets: k is down exactly if the last event of k in    *)
(* the queue is its down edge, and it has one, or it has none and was told *)
(* to be down.                                                             *)
LEMMA KeyInvExpand ==
  ASSUME NEW k
  PROVE  KeyInv(k) <=>
           /\ (\A i \in 1 .. Len(queue) : queue[i].key # k) => (k \in told <=> k \in down)
           /\ \A i \in 1 .. Len(queue) :
                /\ queue[i].key = k
                /\ \A j \in 1 .. Len(queue) : queue[j].key = k => j <= i
                => (queue[i].dn = TRUE <=> k \in down)
  BY DEF KeyInv, EventsOf, LastOf

(* A press and a release append the event of the change they make.         *)
LEMMA AppendQueueInv ==
  ASSUME TypeOK, QueueInv, NEW k \in Key, NEW d \in BOOLEAN,
         queue' = Append(queue, [key |-> k, dn |-> d]), told' = told,
         down' = IF d THEN down \union {k} ELSE down \ {k}
  PROVE  QueueInv'
<1> DEFINE n == Len(queue)
<1>1. n \in Nat /\ Len(queue') = n + 1
  BY DEF TypeOK
<1>2. \A i \in 1 .. n : queue'[i] = queue[i]
  BY DEF TypeOK
<1>3. queue'[n + 1] = [key |-> k, dn |-> d]
  BY DEF TypeOK
<1>4. queue'[n + 1].key = k /\ queue'[n + 1].dn = d
  BY <1>3
<1> HIDE DEF n
<1>5. ASSUME NEW l \in Key PROVE KeyInv(l)'
  <2>1. CASE l = k
    <3>1. l \in down' <=> d = TRUE
      BY <2>1
    <3>2. ~ \A i \in 1 .. Len(queue') : queue'[i].key # l
      BY <1>1, <1>4, <2>1
    <3>3. ASSUME NEW i \in 1 .. Len(queue'),
                 \A j \in 1 .. Len(queue') : queue'[j].key = l => j <= i
          PROVE  i = n + 1
      BY <1>1, <1>4, <2>1, <3>3
    <3>4. \A i \in 1 .. Len(queue') :
            (\A j \in 1 .. Len(queue') : queue'[j].key = l => j <= i)
              => (queue'[i].dn = TRUE <=> l \in down')
      BY <1>4, <3>1, <3>3
    <3> QED BY <3>2, <3>4 DEF KeyInv, EventsOf, LastOf
  <2>2. CASE l # k
    <3>1. l \in down' <=> l \in down
      BY <2>2
    <3>2. /\ (\A i \in 1 .. n : queue[i].key # l) => (l \in told <=> l \in down)
          /\ \A i \in 1 .. n :
               /\ queue[i].key = l
               /\ \A j \in 1 .. n : queue[j].key = l => j <= i
               => (queue[i].dn = TRUE <=> l \in down)
      BY KeyInvExpand DEF QueueInv, n
    <3>3. \A i \in 1 .. Len(queue') : queue'[i].key = l => i \in 1 .. n
      BY <1>1, <1>4, <2>2
    <3>4. \A i \in 1 .. n : i \in 1 .. Len(queue')
      BY <1>1
    <3>5. (\A i \in 1 .. Len(queue') : queue'[i].key # l) => (l \in told' <=> l \in down')
      BY <1>2, <3>1, <3>2, <3>4
    <3>6. ASSUME NEW i \in 1 .. Len(queue'), queue'[i].key = l,
                 \A j \in 1 .. Len(queue') : queue'[j].key = l => j <= i
          PROVE  queue'[i].dn = TRUE <=> l \in down'
      <4>1. i \in 1 .. n /\ queue'[i] = queue[i]
        BY <1>2, <3>3, <3>6
      <4>2. \A j \in 1 .. n : queue[j].key = l => j <= i
        BY <1>2, <3>4, <3>6
      <4> QED BY <3>1, <3>2, <3>6, <4>1, <4>2
    <3> QED BY <3>5, <3>6 DEF KeyInv, EventsOf, LastOf
  <2> QED BY <2>1, <2>2
<1> QED BY <1>5 DEF QueueInv

(* A poll takes the oldest event and tells it: whoever has no later event  *)
(* is now told what it is.                                                 *)
LEMMA PollQueueInv == TypeOK /\ QueueInv /\ PollEvent => QueueInv'
<1> SUFFICES ASSUME TypeOK, QueueInv, PollEvent PROVE QueueInv'
  OBVIOUS
<1> DEFINE n == Len(queue)
<1>1. n \in Nat \ {0} /\ Len(queue') = n - 1 /\ \A i \in 1 .. n - 1 : queue'[i] = queue[i + 1]
  BY HeadEvent DEF TypeOK, PollEvent
<1>2. down' = down
  BY DEF PollEvent
<1>3. PICK k \in Key :
        /\ queue[1].key = k
        /\ \/ queue[1].dn = TRUE /\ told' = told \union {k}
           \/ queue[1].dn = FALSE /\ told' = told \ {k}
  BY PollEventEffect
<1> HIDE DEF n
<1>4. ASSUME NEW l \in Key PROVE KeyInv(l)'
  <2>1. /\ (\A i \in 1 .. n : queue[i].key # l) => (l \in told <=> l \in down)
        /\ \A i \in 1 .. n :
             /\ queue[i].key = l
             /\ \A j \in 1 .. n : queue[j].key = l => j <= i
             => (queue[i].dn = TRUE <=> l \in down)
    BY KeyInvExpand DEF QueueInv, n
  <2>2. \A i \in 1 .. n : i = 1 \/ (i - 1 \in 1 .. Len(queue') /\ queue'[i - 1] = queue[i])
    BY <1>1
  <2>3. (\A i \in 1 .. Len(queue') : queue'[i].key # l) => (l \in told' <=> l \in down')
    <3> SUFFICES ASSUME \A i \in 1 .. Len(queue') : queue'[i].key # l
                 PROVE  l \in told' <=> l \in down'
      OBVIOUS
    <3>1. \A i \in 1 .. n : queue[i].key = l => i = 1
      BY <2>2
    <3>2. CASE l = k
      <4>1. 1 \in 1 .. n /\ \A j \in 1 .. n : queue[j].key = l => j <= 1
        BY <1>1, <3>1
      <4>2. queue[1].dn = TRUE <=> l \in down
        BY <1>3, <2>1, <3>2, <4>1
      <4> QED BY <1>2, <1>3, <3>2, <4>2
    <3>3. CASE l # k
      <4>1. \A i \in 1 .. n : queue[i].key # l
        BY <1>3, <3>1, <3>3
      <4> QED BY <1>2, <1>3, <2>1, <3>3, <4>1
    <3> QED BY <3>2, <3>3
  <2>4. ASSUME NEW i \in 1 .. Len(queue'), queue'[i].key = l,
               \A j \in 1 .. Len(queue') : queue'[j].key = l => j <= i
        PROVE  queue'[i].dn = TRUE <=> l \in down'
    <3>1. i + 1 \in 1 .. n /\ queue'[i] = queue[i + 1]
      BY <1>1
    <3>2. ASSUME NEW j \in 1 .. n, queue[j].key = l PROVE j <= i + 1
      <4>1. CASE j = 1
        BY <1>1, <4>1
      <4>2. CASE j # 1
        <5>1. j - 1 \in 1 .. Len(queue') /\ queue'[j - 1].key = l
          BY <2>2, <3>2, <4>2
        <5>2. j - 1 <= i
          BY <2>4, <5>1
        <5> QED BY <1>1, <5>2
      <4> QED BY <4>1, <4>2
    <3> QED BY <1>2, <2>1, <2>4, <3>1, <3>2
  <2> QED BY <2>3, <2>4 DEF KeyInv, EventsOf, LastOf
<1> QED BY <1>4 DEF QueueInv

(* The keys are what the polls were told and the queue says, after every   *)
(* step.                                                                   *)
LEMMA StepQueueInv == TypeOK /\ QueueInv /\ [Next]_vars => QueueInv'
<1> SUFFICES ASSUME TypeOK, QueueInv, [Next]_vars PROVE QueueInv'
  OBVIOUS
<1>1. ASSUME UNCHANGED <<down, queue, told>> PROVE QueueInv'
  BY <1>1 DEF QueueInv, KeyInv, EventsOf, LastOf
<1>2. ASSUME NEW k \in Key, Press(k) PROVE QueueInv'
  <2>1. /\ queue' = Append(queue, [key |-> k, dn |-> TRUE])
        /\ told' = told /\ down' = down \union {k}
    BY <1>2 DEF Press, history
  <2> QED BY <2>1, AppendQueueInv
<1>3. ASSUME NEW k \in Key, Release(k) PROVE QueueInv'
  <2>1. /\ queue' = Append(queue, [key |-> k, dn |-> FALSE])
        /\ told' = told /\ down' = down \ {k}
    BY <1>3 DEF Release, history
  <2> QED BY <2>1, AppendQueueInv
<1>4. CASE PollIdle
  BY <1>1, <1>4 DEF PollIdle, device, history
<1>5. CASE PollEvent
  BY <1>5, PollQueueInv
<1>6. CASE Tic
  BY <1>1, <1>6 DEF Tic, device
<1>7. CASE UNCHANGED vars
  BY <1>1, <1>7 DEF vars, device, history
<1> QED BY <1>2, <1>3, <1>4, <1>5, <1>6, <1>7 DEF Next

(***************************************************************************)
(* The theorems                                                            *)
(***************************************************************************)

(* The inductive invariant holds in every state.                           *)
THEOREM SpecIInv == Spec => []IInv
<1>1. IInv /\ [Next]_vars => IInv'
  BY StepTypeOK, StepQueueInv, StepCellsFollow DEF IInv
<1> QED BY <1>1, InitIInv, PTL DEF Spec

(* Every cell of the keyboard's state keeps its range.                     *)
THEOREM SpecTypeOK == Spec => []TypeOK
<1>1. IInv => TypeOK
  BY DEF IInv
<1> QED BY <1>1, SpecIInv, PTL

(* With nothing queued, the polls were told exactly the keys that are      *)
(* down.                                                                   *)
LEMMA QuietKnows ==
  ASSUME IInv, queue = << >>
  PROVE  told = down
<1>1. ASSUME NEW k \in Key PROVE k \in told <=> k \in down
  BY DEF IInv, QueueInv, KeyInv, EventsOf
<1> QED BY <1>1 DEF IInv, TypeOK

(* No flag stays held once the device has said all it has to say and no    *)
(* key of the flag is down, whichever keys share it.                       *)
THEOREM SpecNoStuckKey == Spec => []NoStuckKey
<1>1. IInv => NoStuckKey
  BY QuietKnows DEF IInv, CellsFollow, NoStuckKey
<1> QED BY <1>1, SpecIInv, PTL

(* The menu hears the down edges its frame's polls were told, every one    *)
(* and no other.                                                           *)
THEOREM SpecHearsThisFrame == Spec => HearsThisFrame
<1>1. IInv /\ [Next]_vars
        => [Tic => heard' = {EventOf[k] : k \in edges \intersect DOMAIN EventOf}
                              \union (IF edges = {} THEN {} ELSE {"any"})]_vars
  BY DEF IInv, CellsFollow, EventsOfKeys, Tic
<1> QED BY <1>1, SpecIInv, PTL DEF Spec, HearsThisFrame

(***************************************************************************)
(* Keys that share no flag                                                 *)
(***************************************************************************)

(* When no two keys share a flag, a key told to go up takes away no other  *)
(* key's flag.                                                             *)
LEMMA FlagsOfFewerOne ==
  ASSUME OneKeyAFlag, NEW keys, NEW k
  PROVE  FlagsOf(keys \ {k}) \subseteq FlagsOf(keys) \ FlagOf(k)
  BY DEF OneKeyAFlag, FlagsOf, FlagOf

(* Then the flag of every key told to be down is held.                     *)
LEMMA StepHeldInv ==
  ASSUME OneKeyAFlag
  PROVE  TypeOK /\ HeldInv /\ [Next]_vars => HeldInv'
<1> SUFFICES ASSUME TypeOK, HeldInv, [Next]_vars PROVE HeldInv'
  OBVIOUS
<1>1. ASSUME UNCHANGED <<held, told>> PROVE HeldInv'
  BY <1>1 DEF HeldInv, FlagsOf
<1>2. ASSUME NEW k \in Key, Press(k) \/ Release(k) PROVE HeldInv'
  BY <1>1, <1>2 DEF Press, Release, cells, history
<1>3. CASE PollIdle
  BY <1>1, <1>3, ReadCells DEF PollIdle, history
<1>4. CASE PollEvent
  <2>1. PICK k \in Key :
          \/ told' = told \union {k} /\ held' = held \union FlagOf(k)
          \/ told' = told \ {k} /\ held' = held \ FlagOf(k)
    BY <1>4, PollEventEffect
  <2>2. /\ FlagsOf(told \union {k}) = FlagsOf(told) \union FlagOf(k)
        /\ FlagsOf(told \ {k}) \subseteq FlagsOf(told) \ FlagOf(k)
    BY FlagsOfMore, FlagsOfFewerOne
  <2>3. FlagsOf(told) \subseteq held
    BY DEF HeldInv
  <2>4. FlagsOf(told') \subseteq held'
    BY <2>1, <2>2, <2>3
  <2> QED BY <2>4 DEF HeldInv, FlagsOf
<1>5. CASE Tic
  BY <1>1, <1>5 DEF Tic
<1>6. CASE UNCHANGED vars
  BY <1>1, <1>6 DEF vars, cells, history
<1> QED BY <1>2, <1>3, <1>4, <1>5, <1>6 DEF Next

(* And in every state.                                                     *)
LEMMA SpecHeldInv ==
  ASSUME OneKeyAFlag
  PROVE  Spec => [](IInv /\ HeldInv)
<1>1. Init => HeldInv
  BY DEF Init, HeldInv, FlagsOf
<1>2. TypeOK /\ HeldInv /\ [Next]_vars => HeldInv'
  BY StepHeldInv
<1>3. IInv => TypeOK
  BY DEF IInv
<1> QED BY <1>1, <1>2, <1>3, SpecIInv, PTL DEF Spec

(* When no two keys share a flag, a key that is down is held once its      *)
(* press has been polled; keys that share one (the finding) break this.    *)
THEOREM SpecDownIsHeld ==
  ASSUME OneKeyAFlag
  PROVE  Spec => []DownIsHeld
<1>1. IInv /\ HeldInv => DownIsHeld
  BY QuietKnows DEF HeldInv, DownIsHeld
<1> QED BY <1>1, SpecHeldInv, PTL

(* When no two keys share a flag, a frame acts on exactly the keys its     *)
(* polls were told are down or were told to go down in it.                 *)
THEOREM SpecActsOnKeys ==
  ASSUME OneKeyAFlag
  PROVE  Spec => ActsOnKeys
<1>1. FlagsOf(told \union edges) = FlagsOf(told) \union FlagsOf(edges)
  BY DEF FlagsOf
<1>2. IInv /\ HeldInv /\ [Next]_vars => [Tic => acts' = FlagsOf(told \union edges)]_vars
  BY <1>1 DEF IInv, CellsFollow, HeldInv, Tic
<1> QED BY <1>2, SpecHeldInv, PTL DEF Spec, ActsOnKeys
=============================================================================
