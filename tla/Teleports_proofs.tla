-------------------------- MODULE Teleports_proofs --------------------------
(***************************************************************************)
(* The teleport lines on every level: however many lines, monsters and     *)
(* places, and whatever lines they are.                                    *)
(***************************************************************************)
EXTENDS Teleports, WellFoundedInduction, TLAPS

(***************************************************************************)
(* Levels, states and the first of some lines.                             *)
(***************************************************************************)
LEMMA LevelFacts ==
  ASSUME level \in Levels
  PROVE  /\ level.lines \in Nat /\ Line \subseteq Nat \ {0}
         /\ FrontLow \subseteq Line /\ MonsterOnly \subseteq Line /\ HardOnly \subseteq Line
         /\ Once \subseteq MonsterOnly /\ Once \subseteq Line
         /\ level.along \subseteq Int
         /\ Slots \subseteq Nat \ {0} /\ Player \notin Slots /\ Player \in Mover /\ Slots \subseteq Mover
         /\ REACTION_TICS \in Nat \ {0}
         /\ Dest \in Place /\ Away \in Place
BY TeleportsAssumption
DEF Line, FrontLow, MonsterOnly, HardOnly, Once, Slots, Player, Mover, Place, AtDest

(* Two states with the same cells are one.                                 *)
LEMMA SameState ==
  ASSUME NEW s \in GameState, NEW t \in GameState,
         s.at = t.at, s.dead = t.dead, s.rct = t.rct, s.mom = t.mom, s.live = t.live,
         s.spent = t.spent, s.hard = t.hard, s.saw = t.saw
  PROVE  s = t
BY DEF GameState

(* Any lines at all have a first.                                          *)
LEMMA FirstIs ==
  ASSUME level \in Levels, NEW lines, lines \subseteq Line, lines # {}
  PROVE  /\ First(lines) \in lines /\ First(lines) # 0
         /\ \A k \in lines : First(lines) <= k
<1>1. lines \subseteq Nat \ {0}
  BY LevelFacts
<1>2. \E l \in lines : \A k \in lines : ~(<<k, l>> \in OpToRel(<, Nat))
  BY <1>1, NatLessThanWellFounded, WFMin, lines \subseteq Nat, lines # {}
<1>3. \E l \in lines : \A k \in lines : l <= k
  <2>1. PICK l \in lines : \A k \in lines : ~(<<k, l>> \in OpToRel(<, Nat))
    BY <1>2
  <2>2. ASSUME NEW k \in lines PROVE l <= k
    <3>1. k \in Nat /\ l \in Nat
      BY <1>1
    <3>2. k < l => <<k, l>> \in {ss \in Nat \X Nat : ss[1] < ss[2]}
      BY <3>1
    <3>3. ~(k < l)
      BY <2>1, <3>2 DEF OpToRel
    <3> QED
      BY <3>1, <3>3
  <2> QED
    BY <2>2
<1> QED
  BY <1>1, <1>3 DEF First

(***************************************************************************)
(* The tests.                                                              *)
(***************************************************************************)
LEMMA ByLineFacts ==
  ASSUME level \in Levels, NEW p \in ByLine
  PROVE  p[1] \in Int /\ p[2] \in Int /\ p \notin AtDest /\ p # Away
BY LevelFacts DEF ByLine, AtDest, Dest, Away

(* teleportcode's comparisons are crossed_side's.                          *)
LEMMA CrossingsAlike ==
  ASSUME level \in Levels, NEW l \in Line, NEW old, NEW new
  PROVE  /\ CrossFrontLines(l, old, new) <=> CrossedSide(l, old, new) = "front"
         /\ CrossOnceLines(l, old, new) <=> CrossedSide(l, old, new) # "none"
         /\ CrossOnceLines(l, old, new) /\ (old[1] <= 0) = (l \in FrontLow)
              <=> CrossedSide(l, old, new) = "front"
         /\ CrossedSide(l, old, new) # "none" => old \in ByLine
<1>1. CASE ~Near(old, new)
  BY <1>1 DEF CrossFrontLines, CrossOnceLines, CrossedSide
<1>2. CASE Near(old, new)
  <2>1. old[1] \in Int /\ new[1] \in Int /\ old[2] \in Int /\ new[2] \in Int /\ l \in Nat /\ old \in ByLine
    BY <1>2, ByLineFacts, LevelFacts DEF Near
  <2> QED
    BY <1>2, <2>1 DEF CrossFrontLines, CrossOnceLines, CrossedSide, Radius
<1> QED
  BY <1>1, <1>2

LEMMA DecidingAlike ==
  ASSUME level \in Levels, NEW s \in GameState, NEW old, NEW new
  PROVE  MonsterFires(s, old, new) = Deciding(s, old, new) /\ Deciding(s, old, new) \subseteq Line
<1>1. Once \subseteq Line
  BY LevelFacts
<1>2. ASSUME NEW l \in Line
      PROVE  l \in MonsterFires(s, old, new) <=> l \in Deciding(s, old, new)
  <2>1. SkillLines(s, l) <=> OnSkill(s, l)
    BY DEF SkillLines, OnSkill
  <2> QED
    BY <1>2, <2>1, CrossingsAlike DEF MonsterFires, Deciding
<1> QED
  BY <1>1, <1>2 DEF MonsterFires, Deciding

LEMMA HisLinesAlike ==
  ASSUME level \in Levels, NEW s \in GameState, NEW to
  PROVE  /\ HisLines(s, to) = {l \in Line \ MonsterOnly : /\ CrossFrontLines(l, s.at[Player], to)
                                                       /\ SkillLines(s, l)}
         /\ HisLines(s, to) \subseteq Line
<1>1. ASSUME NEW l \in Line
      PROVE  SkillLines(s, l) <=> OnSkill(s, l)
  BY DEF SkillLines, OnSkill
<1> QED
  BY <1>1, CrossingsAlike DEF HisLines

(* The slot that moves is not skipped by tp_stomp: beside a line it is not *)
(* at the destination.                                                     *)
LEMMA StompAlike ==
  ASSUME level \in Levels, NEW s \in GameState, NEW m \in Slots, s.at[m] \in ByLine
  PROVE  TpStomp(s) <=> Victims(s, m) # {}
<1>1. s.at[m] \notin AtDest /\ m # Player /\ Player \notin Slots
  BY ByLineFacts, LevelFacts
<1>2. s.dead \in BOOLEAN
  BY DEF GameState
<1> QED
  BY <1>1, <1>2 DEF TpStomp, Victims, Shootable

(***************************************************************************)
(* A monster's lines.                                                      *)
(***************************************************************************)
Latched(s, m, to, l) ==
  /\ l \in Once /\ CrossedSide(l, s.at[m], to) # "none"
  /\ \A k \in Deciding(s, s.at[m], to) : l <= k

Goes(s, m, to) == Deciding(s, s.at[m], to) # {} /\ Victims(s, m) = {}

(* What the lines make of each cell but the momentum.                      *)
MonsterTold(t, s, m, to) ==
  /\ t.s \in GameState
  /\ t.s.at = [s.at EXCEPT ![m] = IF Goes(s, m, to) THEN Dest ELSE to]
  /\ t.s.spent = [l \in Line |-> s.spent[l] \/ Latched(s, m, to, l)]
  /\ t.s.dead = s.dead /\ t.s.rct = s.rct /\ t.s.live = s.live /\ t.s.hard = s.hard /\ t.s.saw = s.saw
  /\ t.by = IF Goes(s, m, to) THEN First(Deciding(s, s.at[m], to)) ELSE 0

(* The model's loop stops a monster that it teleports.                     *)
LEMMA TeleportMonsterCells ==
  ASSUME level \in Levels, NEW s \in GameState, NEW m \in Slots, NEW to \in Place
  PROVE  LET t == TeleportMonster(s, m, to)
         IN /\ MonsterTold(t, s, m, to)
            /\ t.s.mom = [s.mom EXCEPT ![m] = IF Goes(s, m, to) THEN 0 ELSE s.mom[m]]
<1> DEFINE t == TeleportMonster(s, m, to)
           p == IF Goes(s, m, to) THEN Dest ELSE to
           v == IF Goes(s, m, to) THEN 0 ELSE s.mom[m]
           f == [l \in Line |-> s.spent[l] \/ Latched(s, m, to, l)]
<1>1. t = [s |-> [s EXCEPT !.spent = f, !.mom[m] = v, !.at[m] = p],
           by |-> IF Goes(s, m, to) THEN First(Deciding(s, s.at[m], to)) ELSE 0]
  BY DEF TeleportMonster, Goes, Latched
<1>2. p \in Place /\ v \in {0, 1} /\ f \in [Line -> BOOLEAN] /\ m \in Mover
  <2>1. ASSUME NEW l \in Line PROVE (s.spent[l] \/ Latched(s, m, to, l)) \in BOOLEAN
    OBVIOUS
  <2> QED
    BY <2>1, LevelFacts DEF GameState
<1>3. t.s = [s EXCEPT !.spent = f, !.mom[m] = v, !.at[m] = p] /\ t.by = IF Goes(s, m, to) THEN First(Deciding(s, s.at[m], to)) ELSE 0
  BY <1>1
<1> HIDE DEF t, p, v, f
<1> DEFINE u == [s EXCEPT !.spent = f, !.mom[m] = v, !.at[m] = p]
<1>4. /\ u \in GameState
      /\ u.at = [s.at EXCEPT ![m] = p] /\ u.mom = [s.mom EXCEPT ![m] = v] /\ u.spent = f
      /\ u.dead = s.dead /\ u.rct = s.rct /\ u.live = s.live /\ u.hard = s.hard /\ u.saw = s.saw
  BY <1>2 DEF GameState
<1>5. t.s = u
  BY <1>3
<1> HIDE DEF u
<1> QED
  BY <1>3, <1>4, <1>5 DEF t, p, v, f, MonsterTold

(* The emitted tests make the same of each, but leave the momentum to the  *)
(* write-back.                                                             *)
LEMMA MonsterLinesCells ==
  ASSUME level \in Levels, NEW s \in GameState, NEW m \in Slots, NEW to \in Place
  PROVE  LET t == MonsterLines(s, m, to)
         IN MonsterTold(t, s, m, to) /\ t.s.mom = s.mom
<1> DEFINE t     == MonsterLines(s, m, to)
           p     == IF Goes(s, m, to) THEN Dest ELSE to
           f     == [l \in Line |-> s.spent[l] \/ Latched(s, m, to, l)]
           fires == MonsterFires(s, s.at[m], to)
           hit   == fires # {} /\ ~TpStomp(s)
           latch(l) == l \in Once /\ CrossOnceLines(l, s.at[m], to) /\ ~\E k \in fires : k < l
<1>1. t = [s  |-> [s EXCEPT !.spent = [l \in Line |-> s.spent[l] \/ latch(l)],
                            !.at[m] = IF hit THEN Dest ELSE to],
           by |-> IF hit THEN First(fires) ELSE 0]
  BY DEF MonsterLines
<1>2. fires = Deciding(s, s.at[m], to) /\ fires \subseteq Line
  BY DecidingAlike
<1>3. hit <=> Goes(s, m, to)
  <2>1. CASE fires = {}
    BY <1>2, <2>1 DEF Goes
  <2>2. CASE fires # {}
    <3>1. PICK l \in Line : CrossedSide(l, s.at[m], to) = "front"
      BY <1>2, <2>2 DEF Deciding
    <3>2. s.at[m] \in ByLine
      BY <3>1, CrossingsAlike
    <3> QED
      BY <1>2, <3>2, StompAlike DEF Goes
  <2> QED
    BY <2>1, <2>2
<1>4. ASSUME NEW l \in Line PROVE latch(l) <=> Latched(s, m, to, l)
  <2>1. \A k \in fires : k \in Nat /\ l \in Nat
    BY <1>2, LevelFacts
  <2>2. (~\E k \in fires : k < l) <=> \A k \in fires : l <= k
    BY <2>1
  <2> QED
    BY <1>2, <2>2, CrossingsAlike DEF Latched
<1>5. [l \in Line |-> s.spent[l] \/ latch(l)] = f
  BY <1>4
<1>6. p \in Place /\ f \in [Line -> BOOLEAN] /\ m \in Mover
  <2>1. ASSUME NEW l \in Line PROVE (s.spent[l] \/ Latched(s, m, to, l)) \in BOOLEAN
    OBVIOUS
  <2> QED
    BY <2>1, LevelFacts DEF GameState
<1>7. (IF hit THEN Dest ELSE to) = p /\ (IF hit THEN First(fires) ELSE 0) = IF Goes(s, m, to) THEN First(Deciding(s, s.at[m], to)) ELSE 0
  BY <1>2, <1>3
<1> DEFINE g  == [l \in Line |-> s.spent[l] \/ latch(l)]
           p1 == IF hit THEN Dest ELSE to
           by == IF hit THEN First(fires) ELSE 0
           u  == [s EXCEPT !.spent = g, !.at[m] = p1]
<1>8. t = [s |-> u, by |-> by]
  BY <1>1
<1>9. g = f /\ p1 = p /\ by = IF Goes(s, m, to) THEN First(Deciding(s, s.at[m], to)) ELSE 0
  BY <1>5, <1>7
<1> HIDE DEF t, p, f, fires, hit, latch, g, p1, by
<1>10. /\ u \in GameState
       /\ u.at = [s.at EXCEPT ![m] = p] /\ u.mom = s.mom /\ u.spent = f
       /\ u.dead = s.dead /\ u.rct = s.rct /\ u.live = s.live /\ u.hard = s.hard /\ u.saw = s.saw
  BY <1>6, <1>9 DEF GameState
<1> HIDE DEF u
<1>11. t.s = u /\ t.by = by
  BY <1>8
<1> QED
  BY <1>9, <1>10, <1>11 DEF t, p, f, MonsterTold

(***************************************************************************)
(* The player's lines.                                                     *)
(***************************************************************************)
LEMMA PlayerLinesAlike ==
  ASSUME level \in Levels, NEW s \in GameState, NEW to \in Place
  PROVE  PlayerLines(s, to) = TeleportPlayer(s, to)
<1> DEFINE dead      == Victims(s, Player)
           TpFrag(m) == s.live[m] /\ s.at[m] \in AtDest
<1>1. ASSUME NEW m \in Slots PROVE TpFrag(m) <=> m \in dead
  BY LevelFacts DEF Victims, Shootable
<1>2. [m \in Slots |-> s.live[m] /\ ~TpFrag(m)] = [m \in Slots |-> s.live[m] /\ m \notin dead]
  BY <1>1
<1>3. ASSUME NEW m \in Mover
      PROVE  (IF m = Player THEN 0 ELSE IF TpFrag(m) /\ ~s.saw THEN 1 ELSE s.mom[m])
               = (IF m = Player THEN 0 ELSE IF m \in dead /\ ~s.saw THEN 1 ELSE s.mom[m])
  BY <1>1 DEF Mover
<1>4. [m \in Mover |-> IF m = Player THEN 0 ELSE IF TpFrag(m) /\ ~s.saw THEN 1 ELSE s.mom[m]]
        = [m \in Mover |-> IF m = Player THEN 0 ELSE IF m \in dead /\ ~s.saw THEN 1 ELSE s.mom[m]]
  BY <1>3
<1> QED
  BY <1>2, <1>4, HisLinesAlike DEF PlayerLines, TeleportPlayer

LEMMA TeleportPlayerCells ==
  ASSUME level \in Levels, NEW s \in GameState, NEW to \in Place
  PROVE  LET t    == TeleportPlayer(s, to)
             goes == HisLines(s, to) # {}
             dead == Victims(s, Player)
         IN /\ t.s \in GameState
            /\ t.s.at = [s.at EXCEPT ![Player] = IF goes THEN Dest ELSE to]
            /\ t.s.mom = IF goes
                         THEN [m \in Mover |-> IF m = Player THEN 0
                                             ELSE IF m \in dead /\ ~s.saw THEN 1 ELSE s.mom[m]]
                         ELSE s.mom
            /\ t.s.live = IF goes THEN [m \in Slots |-> s.live[m] /\ m \notin dead] ELSE s.live
            /\ t.s.spent = s.spent /\ t.s.dead = s.dead /\ t.s.hard = s.hard /\ t.s.saw = s.saw
            /\ t.by = IF goes THEN First(HisLines(s, to)) ELSE 0
<1> DEFINE t    == TeleportPlayer(s, to)
           dead == Victims(s, Player)
           v    == [m \in Mover |-> IF m = Player THEN 0 ELSE IF m \in dead /\ ~s.saw THEN 1 ELSE s.mom[m]]
           f    == [m \in Slots |-> s.live[m] /\ m \notin dead]
<1>1. v \in [Mover -> {0, 1}] /\ f \in [Slots -> BOOLEAN]
  BY DEF GameState
<1>2. Player \in Mover /\ REACTION_TICS \in 0 .. REACTION_TICS /\ Dest \in Place
  BY LevelFacts
<1>3. CASE HisLines(s, to) = {}
  <2>1. t.s = [s EXCEPT !.at[Player] = to] /\ t.by = 0
    BY <1>3 DEF TeleportPlayer, Untold
  <2> HIDE DEF t
  <2> QED
    BY <1>2, <1>3, <2>1 DEF GameState, t
<1>4. CASE HisLines(s, to) # {}
  <2>1. /\ t.s = [s EXCEPT !.rct = REACTION_TICS, !.mom = v, !.live = f, !.at[Player] = Dest]
        /\ t.by = First(HisLines(s, to))
    BY <1>4 DEF TeleportPlayer
  <2> HIDE DEF t, v, f
  <2> DEFINE u == [s EXCEPT !.rct = REACTION_TICS, !.mom = v, !.live = f, !.at[Player] = Dest]
  <2>2. /\ u \in GameState
        /\ u.at = [s.at EXCEPT ![Player] = Dest] /\ u.mom = v /\ u.live = f
        /\ u.spent = s.spent /\ u.dead = s.dead /\ u.hard = s.hard /\ u.saw = s.saw
    BY <1>1, <1>2 DEF GameState
  <2>3. t.s = u
    BY <2>1
  <2> HIDE DEF u
  <2> QED
    BY <1>4, <2>1, <2>2, <2>3 DEF t, v, f
<1> QED
  BY <1>3, <1>4

(***************************************************************************)
(* Tries, knock moves and walks.                                           *)
(***************************************************************************)
(* The two programs agree on every cell of a try but the momentum of a     *)
(* monster that teleported, which the emitted one still holds.             *)
LEMMA TriesAlike ==
  ASSUME level \in Levels, NEW s \in GameState, NEW who \in Mover, NEW to \in Place
  PROVE  LET t == TryMove(s, who, to)
             u == FjTry(s, who, to)
         IN /\ t.s \in GameState /\ u.s \in GameState /\ t.by = u.by
            /\ t.s.at = u.s.at /\ t.s.dead = u.s.dead /\ t.s.rct = u.s.rct
            /\ t.s.live = u.s.live /\ t.s.spent = u.s.spent /\ t.s.hard = u.s.hard /\ t.s.saw = u.s.saw
            /\ t.by = 0 => t.s.mom = s.mom /\ u.s.mom = s.mom
            /\ t.by # 0 => t.s.mom[who] = 0 /\ t.s.mom = [u.s.mom EXCEPT ![who] = 0]
            /\ who = Player => u = t
<1> DEFINE t == TryMove(s, who, to)
           u == FjTry(s, who, to)
<1>1. CASE ~Accepted(s, who, to)
  <2>1. t.s = s /\ t.by = 0 /\ u = t
    BY <1>1 DEF TryMove, FjTry, Untold
  <2> QED
    BY <2>1
<1>2. CASE Accepted(s, who, to) /\ who = Player
  <2>1. t = TeleportPlayer(s, to) /\ u = t
    BY <1>2, PlayerLinesAlike DEF TryMove, FjTry
  <2> HIDE DEF t, u
  <2>2. t.s \in GameState /\ Player \in Mover
    BY <2>1, TeleportPlayerCells, LevelFacts
  <2>3. CASE HisLines(s, to) = {}
    <3>1. t.by = 0 /\ t.s.mom = s.mom
      BY <2>1, <2>3, TeleportPlayerCells
    <3> QED
      BY <1>2, <2>1, <2>2, <3>1 DEF t, u
  <2>4. CASE HisLines(s, to) # {}
    <3>1. t.by # 0
      BY <2>1, <2>4, TeleportPlayerCells, HisLinesAlike, FirstIs
    <3>2. t.s.mom[Player] = 0
      BY <2>1, <2>2, <2>4, TeleportPlayerCells
    <3>3. t.s.mom = [t.s.mom EXCEPT ![Player] = 0]
      BY <2>2, <3>2 DEF GameState
    <3> QED
      BY <1>2, <2>1, <2>2, <3>1, <3>2, <3>3 DEF t, u
  <2> QED
    BY <2>3, <2>4
<1>3. CASE Accepted(s, who, to) /\ who # Player
  <2>1. t = TeleportMonster(s, who, to) /\ u = MonsterLines(s, who, to) /\ who \in Slots
    BY <1>3 DEF TryMove, FjTry, Mover
  <2> HIDE DEF t, u
  <2>2. /\ t.s \in GameState /\ u.s \in GameState /\ t.by = u.by
        /\ t.s.at = u.s.at /\ t.s.dead = u.s.dead /\ t.s.rct = u.s.rct
        /\ t.s.live = u.s.live /\ t.s.spent = u.s.spent /\ t.s.hard = u.s.hard /\ t.s.saw = u.s.saw
        /\ u.s.mom = s.mom
        /\ t.s.mom = [s.mom EXCEPT ![who] = IF Goes(s, who, to) THEN 0 ELSE s.mom[who]]
        /\ t.by = IF Goes(s, who, to) THEN First(Deciding(s, s.at[who], to)) ELSE 0
    <3>1. MonsterTold(t, s, who, to) /\ t.s.mom = [s.mom EXCEPT ![who] = IF Goes(s, who, to) THEN 0 ELSE s.mom[who]]
      BY <2>1, TeleportMonsterCells
    <3>2. MonsterTold(u, s, who, to) /\ u.s.mom = s.mom
      BY <2>1, MonsterLinesCells
    <3> QED
      BY <3>1, <3>2 DEF MonsterTold
  <2>3. s.mom \in [Mover -> {0, 1}]
    BY DEF GameState
  <2>4. CASE Goes(s, who, to)
    <3>1. t.by # 0
      BY <2>2, <2>4, DecidingAlike, FirstIs DEF Goes
    <3>2. t.s.mom = [u.s.mom EXCEPT ![who] = 0] /\ t.s.mom[who] = 0
      BY <2>2, <2>3, <2>4
    <3> QED
      BY <1>3, <2>2, <3>1, <3>2 DEF t, u
  <2>5. CASE ~Goes(s, who, to)
    <3>1. t.by = 0 /\ t.s.mom = s.mom
      BY <2>2, <2>3, <2>5
    <3> QED
      BY <1>3, <2>2, <3>1 DEF t, u
  <2> QED
    BY <2>4, <2>5
<1> QED
  BY <1>1, <1>2, <1>3

LEMMA WalksAlike ==
  ASSUME level \in Levels, NEW s \in GameState, NEW m \in Slots, NEW to \in Place
  PROVE  FjWalk(s, m, to) = TryMove(s, m, to).s
<1> DEFINE t == TryMove(s, m, to)
           u == FjTry(s, m, to)
<1>1. m \in Mover
  BY LevelFacts
<1>2. /\ t.s \in GameState /\ u.s \in GameState /\ t.by = u.by
      /\ t.s.at = u.s.at /\ t.s.dead = u.s.dead /\ t.s.rct = u.s.rct
      /\ t.s.live = u.s.live /\ t.s.spent = u.s.spent /\ t.s.hard = u.s.hard /\ t.s.saw = u.s.saw
      /\ t.by = 0 => t.s.mom = s.mom /\ u.s.mom = s.mom
      /\ t.by # 0 => t.s.mom = [u.s.mom EXCEPT ![m] = 0]
  BY <1>1, TriesAlike
<1>3. FjWalk(s, m, to) = IF u.by = 0 THEN u.s ELSE [u.s EXCEPT !.mom[m] = 0]
  BY DEF FjWalk, SlotBack
<1> HIDE DEF t, u
<1>4. CASE u.by = 0
  BY <1>2, <1>3, <1>4, SameState DEF t
<1>5. CASE u.by # 0
  <2> DEFINE v == [u.s EXCEPT !.mom[m] = 0]
  <2>1. /\ v \in GameState /\ v.mom = [u.s.mom EXCEPT ![m] = 0]
        /\ v.at = u.s.at /\ v.dead = u.s.dead /\ v.rct = u.s.rct
        /\ v.live = u.s.live /\ v.spent = u.s.spent /\ v.hard = u.s.hard /\ v.saw = u.s.saw
    BY <1>1, <1>2 DEF GameState
  <2>2. FjWalk(s, m, to) = v
    BY <1>3, <1>5
  <2> HIDE DEF v
  <2>3. v = t.s
    BY <1>2, <1>5, <2>1, SameState
  <2> QED
    BY <2>2, <2>3 DEF t
<1> QED
  BY <1>4, <1>5

(* A knock move is a try and then, after a teleport, the rest of the move; *)
(* the programs agree on all of it.                                        *)
KnockTold(s, who, to, rest, on) ==
  LET t   == KnockMove(s, who, to, rest, on)
      one == TryMove(s, who, to)
  IN /\ FjKnock(s, who, to, rest, on) = t.s /\ t.s \in GameState /\ t.by = one.by
     /\ \/ t.s.at = one.s.at
        \/ t.s.at = [one.s.at EXCEPT ![who] = rest] /\ Free(one.s, who, rest)
     /\ t.s.dead = one.s.dead /\ t.s.rct = one.s.rct /\ t.s.live = one.s.live
     /\ t.s.spent = one.s.spent /\ t.s.hard = one.s.hard /\ t.s.saw = one.s.saw

LEMMA KnocksAlike ==
  ASSUME level \in Levels, NEW s \in GameState, NEW who \in Mover, NEW to \in Place,
         NEW rest \in Place, NEW on
  PROVE  KnockTold(s, who, to, rest, on)
<1> DEFINE one  == TryMove(s, who, to)
           fone == FjTry(s, who, to)
           ok   == to = s.at[who] \/ Free(s, who, to)
           slid == one.s.mom[who] = 1 /\ on /\ ok
           goes == one.by # 0 /\ rest # Dest /\ Free(one.s, who, rest)
           p    == IF goes THEN rest ELSE one.s.at[who]
           v    == IF slid THEN 1 ELSE 0
           kb_v == IF fone.by = 0 /\ ok THEN s.mom[who] ELSE 0
           fp   == IF fone.by # 0 /\ rest # Dest /\ Free(fone.s, who, rest) THEN rest ELSE fone.s.at[who]
           fv   == IF kb_v = 1 /\ on THEN 1 ELSE 0
           t    == [one.s EXCEPT !.at[who] = p, !.mom[who] = v]
           u    == [fone.s EXCEPT !.at[who] = fp, !.mom[who] = fv]
<1>1. KnockMove(s, who, to, rest, on).s = t /\ KnockMove(s, who, to, rest, on).by = one.by
  BY DEF KnockMove
<1>2. FjKnock(s, who, to, rest, on) = u
  BY DEF FjKnock
<1>3. /\ one.s \in GameState /\ fone.s \in GameState /\ one.by = fone.by
      /\ one.s.at = fone.s.at /\ one.s.dead = fone.s.dead /\ one.s.rct = fone.s.rct
      /\ one.s.live = fone.s.live /\ one.s.spent = fone.s.spent /\ one.s.hard = fone.s.hard /\ one.s.saw = fone.s.saw
      /\ one.by = 0 => one.s.mom = s.mom /\ fone.s.mom = s.mom
      /\ one.by # 0 => one.s.mom[who] = 0 /\ one.s.mom = [fone.s.mom EXCEPT ![who] = 0]
  BY TriesAlike
<1> HIDE DEF one, fone
<1>4. Free(one.s, who, rest) <=> Free(fone.s, who, rest)
  BY <1>3 DEF Free, Shootable
<1>5. fp = p
  BY <1>3, <1>4
<1>6. fv = v
  BY <1>3
<1> HIDE DEF ok
<1>7. p \in Place /\ v \in {0, 1}
  BY <1>3 DEF GameState
<1>8. \/ p = one.s.at[who]
      \/ p = rest /\ Free(one.s, who, rest)
  OBVIOUS
<1> HIDE DEF slid, goes, p, v, kb_v, fp, fv
<1>9. /\ t \in GameState /\ t.at = [one.s.at EXCEPT ![who] = p] /\ t.mom = [one.s.mom EXCEPT ![who] = v]
      /\ t.dead = one.s.dead /\ t.rct = one.s.rct /\ t.live = one.s.live
      /\ t.spent = one.s.spent /\ t.hard = one.s.hard /\ t.saw = one.s.saw
  BY <1>3, <1>7 DEF GameState
<1>10. /\ u \in GameState /\ u.at = [fone.s.at EXCEPT ![who] = p] /\ u.mom = [fone.s.mom EXCEPT ![who] = v]
       /\ u.dead = fone.s.dead /\ u.rct = fone.s.rct /\ u.live = fone.s.live
       /\ u.spent = fone.s.spent /\ u.hard = fone.s.hard /\ u.saw = fone.s.saw
  BY <1>3, <1>5, <1>6, <1>7 DEF GameState
<1> HIDE DEF t, u
<1>11. [one.s.mom EXCEPT ![who] = v] = [fone.s.mom EXCEPT ![who] = v]
  <2>1. one.s.mom \in [Mover -> {0, 1}] /\ fone.s.mom \in [Mover -> {0, 1}]
    BY <1>3 DEF GameState
  <2> QED
    BY <1>3, <2>1
<1>12. u = t
  BY <1>3, <1>9, <1>10, <1>11, SameState
<1>13. \/ t.at = one.s.at
       \/ t.at = [one.s.at EXCEPT ![who] = rest] /\ Free(one.s, who, rest)
  <2>1. one.s.at \in [Mover -> Place]
    BY <1>3 DEF GameState
  <2> QED
    BY <1>8, <1>9, <2>1
<1> QED
  BY <1>1, <1>2, <1>9, <1>12, <1>13 DEF one, KnockTold

LEMMA PlayerWalksAlike ==
  ASSUME level \in Levels, NEW s \in GameState, NEW to \in Place
  PROVE  FjPlayerWalk(s, to) = PlayerWalk(s, to) /\ PlayerWalk(s, to) \in GameState
<1>1. s.rct \in Nat /\ Player \in Mover
  BY LevelFacts DEF GameState
<1>2. CASE s.rct > 0
  <2>1. [s EXCEPT !.rct = s.rct - 1] \in GameState
    BY <1>2, LevelFacts DEF GameState
  <2> QED
    BY <1>1, <1>2, <2>1 DEF FjPlayerWalk, PlayerWalk
<1>3. CASE s.rct = 0
  <2>1. FjTry(s, Player, to) = TryMove(s, Player, to) /\ TryMove(s, Player, to).s \in GameState
    BY <1>1, TriesAlike
  <2> QED
    BY <1>1, <1>3, <2>1 DEF FjPlayerWalk, PlayerWalk
<1> QED
  BY <1>1, <1>2, <1>3

(***************************************************************************)
(* The steps.                                                              *)
(***************************************************************************)
LEMMA LevelStays ==
  ASSUME UNCHANGED level
  PROVE  /\ GameState' = GameState /\ Line' = Line /\ Once' = Once /\ Slots' = Slots
         /\ Mover' = Mover /\ Place' = Place
BY DEF GameState, Line, Once, Slots, Mover, Place, ByLine

LEMMA SeenShaped ==
  ASSUME TeleportsInStep, NEW m \in Slots, NEW to \in Place, NEW by
  PROVE  LET w == Watched(m, ws.at[m], to, by)
         IN w.crossed \subseteq Once /\ w.alone \subseteq Once /\ w.moved \in [Once -> 0 .. 2]
BY DEF TeleportsInStep, TypeOK, Watched

LEMMA WalkTold ==
  ASSUME TeleportsInStep, NEW m \in Slots, Walk(m)
  PROVE  \E to \in Place :
           /\ ws' = TryMove(ws, m, to).s /\ ws' \in GameState /\ fj' = ws'
           /\ seen' = Watched(m, ws.at[m], to, TryMove(ws, m, to).by)
<1>1. PICK to \in Place : /\ ws' = TryMove(ws, m, to).s /\ fj' = FjWalk(fj, m, to)
                          /\ seen' = Watched(m, ws.at[m], to, TryMove(ws, m, to).by)
  BY DEF Walk
<1>2. level \in Levels /\ ws \in GameState /\ fj = ws
  BY DEF TeleportsInStep, TypeOK
<1>3. m \in Mover
  BY <1>2, LevelFacts
<1>4. TryMove(ws, m, to).s \in GameState
  BY <1>2, <1>3, TriesAlike
<1>5. FjWalk(ws, m, to) = TryMove(ws, m, to).s
  BY <1>2, WalksAlike
<1> QED
  BY <1>1, <1>2, <1>4, <1>5

LEMMA KnockedTold ==
  ASSUME TeleportsInStep, NEW m \in Slots, Knocked(m)
  PROVE  \E to \in Place, rest \in Place, on \in BOOLEAN :
           /\ ws' = KnockMove(ws, m, to, rest, on).s /\ ws' \in GameState /\ fj' = ws'
           /\ seen' = Watched(m, ws.at[m], to, TryMove(ws, m, to).by)
<1>1. level \in Levels /\ ws \in GameState /\ fj = ws
  BY DEF TeleportsInStep, TypeOK
<1>2. m \in Mover /\ {Dest, Away} \subseteq Place
  BY <1>1, LevelFacts
<1>3. PICK to \in Place, rest \in Place, on \in BOOLEAN :
        /\ ws' = KnockMove(ws, m, to, rest, on).s /\ fj' = FjKnock(fj, m, to, rest, on)
        /\ seen' = Watched(m, ws.at[m], to, KnockMove(ws, m, to, rest, on).by)
  BY <1>2 DEF Knocked
<1>4. /\ FjKnock(ws, m, to, rest, on) = KnockMove(ws, m, to, rest, on).s
      /\ KnockMove(ws, m, to, rest, on).s \in GameState
      /\ KnockMove(ws, m, to, rest, on).by = TryMove(ws, m, to).by
  <2>1. level \in Levels /\ ws \in GameState /\ m \in Mover
    BY <1>1, <1>2
  <2>2. KnockTold(ws, m, to, rest, on)
    BY <2>1, KnocksAlike
  <2> QED
    BY <2>2 DEF KnockTold
<1> QED
  BY <1>1, <1>3, <1>4

(* The weapon in his hand is all that tells a from ws.                     *)
LEMMA PlayerTicTold ==
  ASSUME TeleportsInStep, PlayerTic
  PROVE  \E a \in GameState, walk \in Place, to \in Place, rest \in Place, on \in BOOLEAN :
           LET w == IF a.dead THEN a ELSE PlayerWalk(a, walk)
           IN /\ ws' = IF w.mom[Player] = 0 THEN w ELSE KnockMove(w, Player, to, rest, on).s
              /\ w \in GameState /\ ws' \in GameState /\ fj' = ws' /\ seen' = seen
              /\ a.at = ws.at /\ a.dead = ws.dead /\ a.rct = ws.rct /\ a.mom = ws.mom
              /\ a.live = ws.live /\ a.spent = ws.spent
<1>1. level \in Levels /\ ws \in GameState /\ fj = ws
  BY DEF TeleportsInStep, TypeOK
<1>2. Player \in Mover /\ {Dest, Away} \subseteq Place
  BY <1>1, LevelFacts
<1>3. PICK saw \in BOOLEAN, walk \in Place, to \in Place, rest \in Place, on \in BOOLEAN :
        LET a == [ws EXCEPT !.saw = saw]
            g == [fj EXCEPT !.saw = saw]
            w == IF a.dead THEN a ELSE PlayerWalk(a, walk)
            f == IF g.dead THEN g ELSE FjPlayerWalk(g, walk)
        IN /\ ws' = IF w.mom[Player] = 0 THEN w ELSE KnockMove(w, Player, to, rest, on).s
           /\ fj' = IF f.mom[Player] = 0 THEN f ELSE FjKnock(f, Player, to, rest, on)
           /\ seen' = seen
  BY <1>2 DEF PlayerTic
<1> DEFINE a == [ws EXCEPT !.saw = saw]
           w == IF a.dead THEN a ELSE PlayerWalk(a, walk)
           f == IF a.dead THEN a ELSE FjPlayerWalk(a, walk)
<1>a. /\ a \in GameState
      /\ a.at = ws.at /\ a.dead = ws.dead /\ a.rct = ws.rct /\ a.mom = ws.mom
      /\ a.live = ws.live /\ a.spent = ws.spent
  BY <1>1 DEF GameState
<1>4. f = w /\ w \in GameState
  BY <1>1, <1>a, PlayerWalksAlike
<1>5. /\ ws' = IF w.mom[Player] = 0 THEN w ELSE KnockMove(w, Player, to, rest, on).s
      /\ fj' = IF f.mom[Player] = 0 THEN f ELSE FjKnock(f, Player, to, rest, on)
      /\ seen' = seen
  BY <1>1, <1>3
<1> HIDE DEF a
<1> HIDE DEF w, f
<1>6. /\ FjKnock(w, Player, to, rest, on) = KnockMove(w, Player, to, rest, on).s
      /\ KnockMove(w, Player, to, rest, on).s \in GameState
  <2>1. level \in Levels /\ w \in GameState /\ Player \in Mover
    BY <1>1, <1>2, <1>4
  <2>2. KnockTold(w, Player, to, rest, on)
    BY <2>1, KnocksAlike
  <2> QED
    BY <2>2 DEF KnockTold
<1>7. ws' \in GameState /\ fj' = ws'
  BY <1>4, <1>5, <1>6
<1> QED
  BY <1>a, <1>4, <1>5, <1>7 DEF w

LEMMA HitTold ==
  ASSUME TeleportsInStep, Hit
  PROVE  /\ ws' \in GameState /\ fj' = ws' /\ seen' = seen
         /\ ws'.at = ws.at /\ ws'.spent = ws.spent /\ ws'.rct = ws.rct
         /\ Shootable(ws') \subseteq Shootable(ws)
<1>1. level \in Levels /\ ws \in GameState /\ fj = ws
  BY DEF TeleportsInStep, TypeOK
<1>2. PICK t \in Mover, kills \in BOOLEAN, thrusts \in BOOLEAN :
        /\ t \in Shootable(ws)
        /\ ws' = IF t = Player
                 THEN [ws EXCEPT !.mom[t] = IF thrusts THEN 1 ELSE @, !.dead = kills]
                 ELSE [ws EXCEPT !.mom[t] = IF thrusts THEN 1 ELSE @, !.live[t] = ~kills]
        /\ fj' = IF t = Player
                 THEN [fj EXCEPT !.mom[t] = IF thrusts THEN 1 ELSE @, !.dead = kills]
                 ELSE [fj EXCEPT !.mom[t] = IF thrusts THEN 1 ELSE @, !.live[t] = ~kills]
        /\ seen' = seen
  BY DEF Hit
<1>3. CASE t = Player
  <2>1. ws' = [ws EXCEPT !.mom[t] = IF thrusts THEN 1 ELSE @, !.dead = kills] /\ ~ws.dead
    BY <1>1, <1>2, <1>3, LevelFacts DEF Shootable
  <2>2. /\ ws' \in GameState
        /\ ws'.at = ws.at /\ ws'.spent = ws.spent /\ ws'.rct = ws.rct /\ ws'.live = ws.live
    BY <1>1, <2>1 DEF GameState
  <2> QED
    BY <1>1, <1>2, <2>1, <2>2 DEF Shootable
<1>4. CASE t # Player
  <2>1. /\ ws' = [ws EXCEPT !.mom[t] = IF thrusts THEN 1 ELSE @, !.live[t] = ~kills]
        /\ ws.live[t] /\ t \in Slots
    BY <1>2, <1>4 DEF Shootable
  <2>2. /\ ws' \in GameState /\ ws'.live = [ws.live EXCEPT ![t] = ~kills]
        /\ ws'.at = ws.at /\ ws'.spent = ws.spent /\ ws'.rct = ws.rct /\ ws'.dead = ws.dead
    BY <1>1, <2>1 DEF GameState
  <2>3. ws.live \in [Slots -> BOOLEAN]
    BY <1>1 DEF GameState
  <2> QED
    BY <1>1, <1>2, <2>1, <2>2, <2>3 DEF Shootable
<1> QED
  BY <1>3, <1>4

LEMMA LevelStartShaped ==
  ASSUME level \in Levels, NEW hard \in BOOLEAN
  PROVE  LevelStart(hard) \in GameState /\ LevelStart(hard).hard = hard
BY LevelFacts DEF LevelStart, GameState

LEMMA NothingSeenShaped ==
  NothingSeen.crossed \subseteq Once /\ NothingSeen.alone \subseteq Once /\ NothingSeen.moved \in [Once -> 0 .. 2]
BY DEF NothingSeen

LEMMA InStepStart ==
  ASSUME Init
  PROVE  TeleportsInStep
BY LevelStartShaped, NothingSeenShaped DEF Init, TeleportsInStep, TypeOK

LEMMA InStepKept ==
  ASSUME TeleportsInStep, [Next]_vars
  PROVE  TeleportsInStep'
<1>1. CASE UNCHANGED vars
  BY <1>1, LevelStays DEF TeleportsInStep, TypeOK, vars
<1>2. CASE Next
  <2>1. level' = level
    BY <1>2 DEF Next
  <2> DEFINE Kept == /\ ws' \in GameState /\ fj' = ws'
                     /\ seen'.crossed \subseteq Once /\ seen'.alone \subseteq Once
                     /\ seen'.moved \in [Once -> 0 .. 2]
  <2>2. Kept => TeleportsInStep'
    BY <2>1, LevelStays DEF TeleportsInStep, TypeOK
  <2>3. ASSUME NEW m \in Slots, Walk(m) PROVE Kept
    BY <2>3, WalkTold, SeenShaped
  <2>4. ASSUME NEW m \in Slots, Knocked(m) PROVE Kept
    BY <2>4, KnockedTold, SeenShaped
  <2>5. ASSUME PlayerTic PROVE Kept
    BY <2>5, PlayerTicTold DEF TeleportsInStep, TypeOK
  <2>6. ASSUME Hit PROVE Kept
    BY <2>6, HitTold DEF TeleportsInStep, TypeOK
  <2>7. ASSUME Restart PROVE Kept
    BY <2>7, LevelStartShaped, NothingSeenShaped DEF TeleportsInStep, TypeOK, Restart
  <2> QED
    BY <1>2, <2>2, <2>3, <2>4, <2>5, <2>6, <2>7 DEF Next
<1> QED
  BY <1>1, <1>2

(* The emitted tests, branches and write-backs leave every cell as the     *)
(* model's loops do, on any level (teleportcode against combat and world). *)
THEOREM TeleportsFollow == Spec => []TeleportsInStep
<1>1. Init => TeleportsInStep
  BY InStepStart
<1>2. TeleportsInStep /\ [Next]_vars => TeleportsInStep'
  BY InStepKept
<1> QED
  BY <1>1, <1>2, PTL DEF Spec

(***************************************************************************)
(* Nothing stands in another at the destination.                           *)
(***************************************************************************)
Apart(s) == \A a, b \in Shootable(s) : a # b => ~Overlap(s.at[a], s.at[b])

LEMMA OverlapFacts ==
  ASSUME NEW p, NEW q
  PROVE  Overlap(p, q) <=> Overlap(q, p)
BY DEF Overlap

(* A thing that moves to where it overlaps nothing shootable leaves them   *)
(* apart, whatever else dies.                                              *)
LEMMA MovedApart ==
  ASSUME level \in Levels, NEW s \in GameState, NEW t \in GameState, Apart(s),
         NEW who \in Mover, NEW q \in Place, t.at = [s.at EXCEPT ![who] = q],
         Shootable(t) \subseteq Shootable(s),
         who \in Shootable(t) => \A b \in Shootable(t) \ {who} : ~Overlap(s.at[b], q)
  PROVE  Apart(t)
<1>1. s.at \in [Mover -> Place] /\ Shootable(t) \subseteq Mover
  BY DEF GameState, Shootable, Mover
<1> SUFFICES ASSUME NEW a \in Shootable(t), NEW b \in Shootable(t), a # b
             PROVE  ~Overlap(t.at[a], t.at[b])
  BY DEF Apart
<1>2. CASE a = who
  BY <1>1, <1>2, OverlapFacts
<1>3. CASE b = who
  BY <1>1, <1>3, OverlapFacts
<1>4. CASE a # who /\ b # who
  BY <1>1, <1>4 DEF Apart
<1> QED
  BY <1>2, <1>3, <1>4

LEMMA TryKeepsApart ==
  ASSUME level \in Levels, NEW s \in GameState, Apart(s), NEW who \in Mover, NEW to \in Place
  PROVE  Apart(TryMove(s, who, to).s) /\ TryMove(s, who, to).s \in GameState
<1> DEFINE t == TryMove(s, who, to).s
<1>1. t \in GameState
  BY TriesAlike
<1>2. CASE ~Accepted(s, who, to)
  BY <1>2 DEF TryMove, Untold
<1>3. CASE Accepted(s, who, to) /\ who = Player
  <2>1. t = TeleportPlayer(s, to).s
    BY <1>3 DEF TryMove
  <2>2. Dest \in Place /\ Player \notin Slots
    BY LevelFacts
  <2> HIDE DEF t
  <2>3. CASE HisLines(s, to) = {}
    <3>1. /\ t.at = [s.at EXCEPT ![Player] = to] /\ t.live = s.live /\ t.dead = s.dead
      BY <2>1, <2>3, TeleportPlayerCells
    <3>2. Shootable(t) = Shootable(s)
      BY <3>1 DEF Shootable
    <3>3. Player \in Shootable(t) => \A b \in Shootable(t) \ {Player} : ~Overlap(s.at[b], to)
      BY <1>3, <3>2 DEF Accepted, Free
    <3> QED
      BY <1>1, <1>3, <3>1, <3>2, <3>3, MovedApart DEF t
  <2>4. CASE HisLines(s, to) # {}
    <3>1. /\ t.at = [s.at EXCEPT ![Player] = Dest] /\ t.dead = s.dead
          /\ t.live = [m \in Slots |-> s.live[m] /\ m \notin Victims(s, Player)]
      BY <2>1, <2>4, TeleportPlayerCells
    <3>2. Shootable(t) \subseteq Shootable(s)
      BY <3>1 DEF Shootable
    <3>3. \A b \in Shootable(t) \ {Player} : s.at[b] \notin AtDest
      BY <2>2, <3>1, <3>2 DEF Shootable, Victims
    <3>4. \A b \in Shootable(t) \ {Player} : ~Overlap(s.at[b], Dest)
      BY <3>3 DEF Overlap
    <3> QED
      BY <1>1, <1>3, <2>2, <3>1, <3>2, <3>4, MovedApart DEF t
  <2> QED
    BY <2>3, <2>4
<1>4. CASE Accepted(s, who, to) /\ who # Player
  <2> DEFINE q == IF Goes(s, who, to) THEN Dest ELSE to
  <2>1. t = TeleportMonster(s, who, to).s /\ who \in Slots
    BY <1>4 DEF TryMove, Mover
  <2> HIDE DEF t
  <2>2. t.at = [s.at EXCEPT ![who] = q] /\ t.live = s.live /\ t.dead = s.dead
    <3>1. MonsterTold(TeleportMonster(s, who, to), s, who, to)
      BY <2>1, TeleportMonsterCells
    <3> QED
      BY <2>1, <3>1 DEF MonsterTold
  <2>3. Shootable(t) = Shootable(s)
    BY <2>2 DEF Shootable
  <2>4. who \in Shootable(t) => \A b \in Shootable(t) \ {who} : ~Overlap(s.at[b], q)
    <3>1. CASE Goes(s, who, to)
      BY <2>3, <3>1 DEF Goes, Victims, Overlap
    <3>2. CASE ~Goes(s, who, to)
      BY <1>4, <2>3, <3>2 DEF Accepted, Free
    <3> QED
      BY <3>1, <3>2
  <2>5. q \in Place
    BY LevelFacts
  <2> HIDE DEF q
  <2> QED
    BY <1>1, <2>2, <2>3, <2>4, <2>5, MovedApart DEF t
<1> QED
  BY <1>1, <1>2, <1>3, <1>4

LEMMA KnockKeepsApart ==
  ASSUME level \in Levels, NEW s \in GameState, Apart(s), NEW who \in Mover, NEW to \in Place,
         NEW rest \in Place, NEW on
  PROVE  Apart(KnockMove(s, who, to, rest, on).s)
<1> DEFINE t   == KnockMove(s, who, to, rest, on).s
           one == TryMove(s, who, to).s
<1>1. one \in GameState /\ Apart(one)
  BY TryKeepsApart
<1>2. KnockTold(s, who, to, rest, on)
  BY KnocksAlike
<1>3. /\ t \in GameState /\ t.dead = one.dead /\ t.live = one.live
      /\ \/ t.at = one.at
         \/ t.at = [one.at EXCEPT ![who] = rest] /\ Free(one, who, rest)
  BY <1>2 DEF KnockTold
<1> HIDE DEF t, one
<1>4. Shootable(t) = Shootable(one)
  BY <1>3 DEF Shootable
<1>5. CASE t.at = one.at
  BY <1>1, <1>4, <1>5 DEF Apart, t
<1>6. CASE t.at = [one.at EXCEPT ![who] = rest] /\ Free(one, who, rest)
  <2>1. who \in Shootable(t) => \A b \in Shootable(t) \ {who} : ~Overlap(one.at[b], rest)
    BY <1>4, <1>6 DEF Free
  <2> QED
    BY <1>1, <1>3, <1>4, <1>6, <2>1, MovedApart DEF t
<1> QED
  BY <1>3, <1>5, <1>6

LEMMA ApartStart ==
  ASSUME Init
  PROVE  Apart(ws)
BY LevelFacts DEF Init, LevelStart, Apart, Shootable, Overlap, AtDest, Dest, Away, Mover

LEMMA ApartKept ==
  ASSUME TeleportsInStep, Apart(ws), Next
  PROVE  Apart(ws')
<1>1. level \in Levels /\ ws \in GameState
  BY DEF TeleportsInStep, TypeOK
<1>2. ASSUME NEW m \in Slots, Walk(m) PROVE Apart(ws')
  <2>1. PICK to \in Place : ws' = TryMove(ws, m, to).s
    BY <1>2, WalkTold
  <2>2. Apart(TryMove(ws, m, to).s)
    BY <1>1, LevelFacts, TryKeepsApart
  <2> QED
    BY <2>1, <2>2
<1>3. ASSUME NEW m \in Slots, Knocked(m) PROVE Apart(ws')
  <2>1. PICK to \in Place, rest \in Place, on \in BOOLEAN : ws' = KnockMove(ws, m, to, rest, on).s
    BY <1>3, KnockedTold
  <2>2. Apart(KnockMove(ws, m, to, rest, on).s)
    BY <1>1, LevelFacts, KnockKeepsApart
  <2> QED
    BY <2>1, <2>2
<1>4. ASSUME PlayerTic PROVE Apart(ws')
  <2>1. PICK a \in GameState, walk \in Place, to \in Place, rest \in Place, on \in BOOLEAN :
          LET w == IF a.dead THEN a ELSE PlayerWalk(a, walk)
          IN /\ w \in GameState /\ ws' = IF w.mom[Player] = 0 THEN w ELSE KnockMove(w, Player, to, rest, on).s
             /\ a.at = ws.at /\ a.dead = ws.dead /\ a.live = ws.live
    BY <1>4, PlayerTicTold
  <2> DEFINE w == IF a.dead THEN a ELSE PlayerWalk(a, walk)
  <2>2. Player \in Mover
    BY <1>1, LevelFacts
  <2>a. Apart(a)
    BY <2>1 DEF Apart, Shootable
  <2>3. Apart([a EXCEPT !.rct = a.rct - 1])
    BY <2>a DEF Apart, Shootable, GameState
  <2>4. Apart(TryMove(a, Player, walk).s)
    BY <1>1, <2>2, <2>a, TryKeepsApart
  <2>5. Apart(w)
    BY <2>a, <2>3, <2>4 DEF PlayerWalk
  <2>6. w \in GameState /\ ws' = IF w.mom[Player] = 0 THEN w ELSE KnockMove(w, Player, to, rest, on).s
    BY <2>1
  <2> HIDE DEF w
  <2>7. Apart(KnockMove(w, Player, to, rest, on).s)
    BY <1>1, <2>2, <2>5, <2>6, KnockKeepsApart
  <2> QED
    BY <2>5, <2>6, <2>7
<1>5. ASSUME Hit PROVE Apart(ws')
  BY <1>5, HitTold DEF Apart
<1>6. ASSUME Restart PROVE Apart(ws')
  BY <1>6, <1>1, LevelFacts DEF Restart, LevelStart, Apart, Shootable, Overlap, AtDest, Dest, Away, Mover
<1> QED
  BY <1>2, <1>3, <1>4, <1>5, <1>6 DEF Next

(* Two live things never stand in each other at a teleport's destination,  *)
(* whoever came there on foot, by a thrust or by another line              *)
(* (teleport.stomp_victims, PIT_StompThing).                               *)
THEOREM NoneStandInAnother == Spec => []NoneInAnother
<1> DEFINE Inv == TeleportsInStep /\ Apart(ws)
<1>1. Init => Inv
  BY InStepStart, ApartStart
<1>2. Inv /\ [Next]_vars => Inv'
  <2> SUFFICES ASSUME Inv, [Next]_vars PROVE Inv'
    OBVIOUS
  <2>1. TeleportsInStep'
    BY InStepKept
  <2>2. CASE UNCHANGED vars
    BY <2>1, <2>2 DEF vars, Apart, Shootable, Slots
  <2>3. CASE Next
    <3>1. Apart(ws') /\ level' = level
      BY <2>3, ApartKept DEF Next
    <3> QED
      BY <2>1, <3>1 DEF Apart, Shootable, Slots
  <2> QED
    BY <2>2, <2>3
<1>3. Inv => NoneInAnother
  BY DEF Apart, NoneInAnother
<1> QED
  BY <1>1, <1>2, <1>3, PTL DEF Spec

(***************************************************************************)
(* Once is once.                                                           *)
(***************************************************************************)
Crossed(s, m, to) == {l \in Line : Free(s, m, to) /\ CrossedSide(l, s.at[m], to) # "none"}

(* What one try does to the latches.                                       *)
LEMMA LatchesTold ==
  ASSUME level \in Levels, NEW s \in GameState, NEW m \in Slots, NEW to \in Place
  PROVE  LET t   == TryMove(s, m, to)
             now == Crossed(s, m, to)
         IN /\ \A l \in Once : s.spent[l] => t.s.spent[l]
            /\ \A l \in Once : t.s.spent[l] /\ ~s.spent[l] => l \in now
            /\ \A l \in now \intersect Once : (\A k \in now : l <= k) => t.s.spent[l]
            /\ t.by \in Once => ~s.spent[t.by] /\ t.s.spent[t.by]
<1> DEFINE t   == TryMove(s, m, to)
           now == Crossed(s, m, to)
<1>1. Once \subseteq Line /\ Line \subseteq Nat \ {0} /\ s.spent \in [Line -> BOOLEAN] /\ m # Player /\ m \in Mover
  BY LevelFacts DEF GameState
<1>2. CASE ~Accepted(s, m, to)
  <2>1. t.s = s /\ t.by = 0
    BY <1>2 DEF TryMove, Untold
  <2>2. now = {}
    BY <1>2 DEF Crossed, Accepted, CrossedSide
  <2> HIDE DEF t, now
  <2>3. t.by \notin Once
    BY <1>1, <2>1
  <2> QED
    BY <2>1, <2>2, <2>3 DEF t, now
<1>3. CASE Accepted(s, m, to)
  <2> DEFINE deciding == Deciding(s, s.at[m], to)
  <2>1. t = TeleportMonster(s, m, to)
    BY <1>1, <1>3 DEF TryMove
  <2> HIDE DEF t
  <2>2. MonsterTold(t, s, m, to)
    BY <2>1, TeleportMonsterCells
  <2>3. /\ \A l \in Line : t.s.spent[l] <=> s.spent[l] \/ Latched(s, m, to, l)
        /\ t.by = IF Goes(s, m, to) THEN First(deciding) ELSE 0
    BY <1>1, <2>2 DEF MonsterTold
  <2>4. deciding \subseteq now
    BY <1>3 DEF Deciding, Crossed, Accepted
  <2>5. \A l \in Once : Latched(s, m, to, l) => l \in now
    BY <1>1, <1>3 DEF Latched, Crossed, Accepted
  <2>6. \A l \in Once : s.spent[l] => t.s.spent[l]
    BY <1>1, <2>3
  <2>7. \A l \in Once : t.s.spent[l] /\ ~s.spent[l] => l \in now
    BY <1>1, <2>3, <2>5
  <2>8. \A l \in now \intersect Once : (\A k \in now : l <= k) => Latched(s, m, to, l)
    BY <2>4 DEF Latched, Crossed
  <2>9. \A l \in now \intersect Once : (\A k \in now : l <= k) => t.s.spent[l]
    BY <1>1, <2>3, <2>8
  <2>10. ASSUME t.by \in Once PROVE ~s.spent[t.by] /\ t.s.spent[t.by]
    <3>1. Goes(s, m, to) /\ t.by = First(deciding)
      BY <1>1, <2>3, <2>10
    <3>2. deciding # {} /\ deciding \subseteq Line
      BY <3>1, DecidingAlike DEF Goes
    <3>3. t.by \in deciding /\ \A k \in deciding : t.by <= k
      BY <3>1, <3>2, FirstIs
    <3>4. ~s.spent[t.by] /\ CrossedSide(t.by, s.at[m], to) = "front"
      BY <2>10, <3>3 DEF Deciding
    <3>5. Latched(s, m, to, t.by)
      BY <2>10, <3>3, <3>4 DEF Latched
    <3> QED
      BY <1>1, <2>3, <2>10, <3>4, <3>5
  <2> QED
    BY <2>6, <2>7, <2>9, <2>10 DEF t
<1> QED
  BY <1>2, <1>3

LEMMA OnceStart ==
  ASSUME Init
  PROVE  OnceMeansOnce
<1>1. Once \subseteq Line
  BY LevelFacts DEF Init
<1> QED
  BY <1>1 DEF Init, LevelStart, NothingSeen, OnceMeansOnce, OnceMovesOnce, LatchTellsCrossing

(* A monster's step, walking or thrust: the latches go with what was seen. *)
LEMMA OnceKeptByMonster ==
  ASSUME TeleportsInStep, OnceMeansOnce, UNCHANGED level, NEW m \in Slots, NEW to \in Place,
         ws'.spent = TryMove(ws, m, to).s.spent,
         seen' = Watched(m, ws.at[m], to, TryMove(ws, m, to).by)
  PROVE  OnceMeansOnce'
<1> DEFINE t     == TryMove(ws, m, to)
           spent == t.s.spent
           now   == Crossed(ws, m, to)
<1>1. level \in Levels /\ ws \in GameState /\ seen.moved \in [Once -> 0 .. 2]
  BY DEF TeleportsInStep, TypeOK
<1>2. /\ \A l \in Once : ws.spent[l] => spent[l]
      /\ \A l \in Once : spent[l] /\ ~ws.spent[l] => l \in now
      /\ \A l \in now \intersect Once : (\A k \in now : l <= k) => spent[l]
      /\ t.by \in Once => ~ws.spent[t.by] /\ spent[t.by]
  BY <1>1, LatchesTold
<1>3. /\ seen'.crossed = seen.crossed \union (now \intersect Once)
      /\ seen'.alone = seen.alone \union {l \in now \intersect Once : \A k \in now : l <= k}
      /\ seen'.moved = [l \in Once |-> IF l # t.by THEN seen.moved[l]
                                       ELSE IF seen.moved[l] = 0 THEN 1 ELSE 2]
  BY DEF Watched, Crossed
<1>4. Once' = Once /\ ws'.spent = spent
  BY LevelStays
<1> HIDE DEF t, spent, now
<1>5. ASSUME NEW l \in Once
      PROVE  seen'.moved[l] <= 1 /\ (seen'.moved[l] = 1 => spent[l])
  <2>1. seen.moved[l] \in 0 .. 2 /\ seen.moved[l] <= 1 /\ (seen.moved[l] = 1 => ws.spent[l])
    BY <1>1 DEF OnceMeansOnce, OnceMovesOnce
  <2>2. CASE l # t.by
    BY <1>2, <1>3, <2>1, <2>2
  <2>3. CASE l = t.by
    BY <1>2, <1>3, <2>1, <2>3
  <2> QED
    BY <2>2, <2>3
<1>6. /\ seen'.alone \subseteq {l \in Once : spent[l]}
      /\ {l \in Once : spent[l]} \subseteq seen'.crossed
  <2>1. /\ seen.alone \subseteq {l \in Once : ws.spent[l]}
        /\ {l \in Once : ws.spent[l]} \subseteq seen.crossed
    BY DEF OnceMeansOnce, LatchTellsCrossing
  <2> QED
    BY <1>2, <1>3, <2>1
<1> QED
  BY <1>4, <1>5, <1>6 DEF OnceMeansOnce, OnceMovesOnce, LatchTellsCrossing

(* The player leaves the latches alone.                                    *)
LEMMA PlayerLeavesLatches ==
  ASSUME TeleportsInStep, PlayerTic
  PROVE  ws'.spent = ws.spent /\ seen' = seen
<1>1. level \in Levels /\ ws \in GameState
  BY DEF TeleportsInStep, TypeOK
<1>2. Player \in Mover
  BY <1>1, LevelFacts
<1>3. PICK a \in GameState, walk \in Place, to \in Place, rest \in Place, on \in BOOLEAN :
        LET w == IF a.dead THEN a ELSE PlayerWalk(a, walk)
        IN /\ ws' = IF w.mom[Player] = 0 THEN w ELSE KnockMove(w, Player, to, rest, on).s
           /\ w \in GameState /\ seen' = seen /\ a.spent = ws.spent
  BY PlayerTicTold
<1> DEFINE w == IF a.dead THEN a ELSE PlayerWalk(a, walk)
<1>4. ASSUME NEW s \in GameState, NEW p \in Place PROVE TryMove(s, Player, p).s.spent = s.spent
  BY <1>1, TeleportPlayerCells DEF TryMove, Untold
<1>5. w.spent = ws.spent
  BY <1>3, <1>4 DEF PlayerWalk, GameState
<1>6. /\ ws' = IF w.mom[Player] = 0 THEN w ELSE KnockMove(w, Player, to, rest, on).s
      /\ w \in GameState /\ seen' = seen
  BY <1>3
<1> HIDE DEF w
<1>7. KnockTold(w, Player, to, rest, on)
  BY <1>1, <1>2, <1>6, KnocksAlike
<1>8. KnockMove(w, Player, to, rest, on).s.spent = w.spent
  BY <1>4, <1>6, <1>7 DEF KnockTold
<1> QED
  BY <1>5, <1>6, <1>8

LEMMA OnceKept ==
  ASSUME TeleportsInStep, OnceMeansOnce, [Next]_vars
  PROVE  OnceMeansOnce'
<1>1. CASE UNCHANGED vars
  BY <1>1, LevelStays DEF vars, OnceMeansOnce, OnceMovesOnce, LatchTellsCrossing
<1>2. CASE Next
  <2>1. level' = level /\ level \in Levels
    BY <1>2 DEF Next, TeleportsInStep, TypeOK
  <2>2. ASSUME NEW m \in Slots, Walk(m) PROVE OnceMeansOnce'
    BY <2>1, <2>2, WalkTold, OnceKeptByMonster
  <2>3. ASSUME NEW m \in Slots, Knocked(m) PROVE OnceMeansOnce'
    <3>1. PICK to \in Place, rest \in Place, on \in BOOLEAN :
            /\ ws' = KnockMove(ws, m, to, rest, on).s
            /\ seen' = Watched(m, ws.at[m], to, TryMove(ws, m, to).by)
      BY <2>3, KnockedTold
    <3>2. KnockTold(ws, m, to, rest, on)
      BY <2>1, LevelFacts, KnocksAlike DEF TeleportsInStep, TypeOK
    <3>3. ws'.spent = TryMove(ws, m, to).s.spent
      BY <3>1, <3>2 DEF KnockTold
    <3> QED
      BY <2>1, <3>1, <3>3, OnceKeptByMonster
  <2>4. ASSUME ws'.spent = ws.spent, seen' = seen PROVE OnceMeansOnce'
    BY <2>1, <2>4, LevelStays DEF OnceMeansOnce, OnceMovesOnce, LatchTellsCrossing
  <2>5. ASSUME PlayerTic PROVE OnceMeansOnce'
    BY <2>4, <2>5, PlayerLeavesLatches
  <2>6. ASSUME Hit PROVE OnceMeansOnce'
    BY <2>4, <2>6, HitTold
  <2>7. ASSUME Restart PROVE OnceMeansOnce'
    <3>1. Once \subseteq Line /\ Once' = Once
      BY <2>1, LevelFacts, LevelStays
    <3>2. ws'.spent = [l \in Line |-> FALSE] /\ seen' = NothingSeen
      BY <2>7 DEF Restart, LevelStart
    <3> QED
      BY <3>1, <3>2 DEF NothingSeen, OnceMeansOnce, OnceMovesOnce, LatchTellsCrossing
  <2> QED
    BY <1>2, <2>2, <2>3, <2>5, <2>6, <2>7 DEF Next
<1> QED
  BY <1>1, <1>2

(* A once-only line moves one monster a level at most, is spent by the     *)
(* first that crosses it, from behind or in vain as well, and by nothing   *)
(* else (World._teleport_monster's tp_fired).                              *)
THEOREM OnceIsOnce == Spec => []OnceMeansOnce
<1> DEFINE Inv == TeleportsInStep /\ OnceMeansOnce
<1>1. Init => Inv
  BY InStepStart, OnceStart
<1>2. Inv /\ [Next]_vars => Inv'
  BY InStepKept, OnceKept
<1> QED
  BY <1>1, <1>2, PTL DEF Spec

(***************************************************************************)
(* The reactiontime.                                                       *)
(***************************************************************************)
LEMMA HeldByStep ==
  ASSUME TeleportsInStep, Next
  PROVE  HeldAfterTeleport
<1>1. level \in Levels /\ ws \in GameState
  BY DEF TeleportsInStep, TypeOK
<1>2. Player \notin Slots /\ ws.at \in [Mover -> Place] /\ Player \in Mover
  BY <1>1, LevelFacts DEF GameState
<1>3. ASSUME NEW m \in Slots, NEW to \in Place
      PROVE  TryMove(ws, m, to).s.at[Player] = ws.at[Player]
  <2>1. CASE Accepted(ws, m, to)
    <3>1. TryMove(ws, m, to) = TeleportMonster(ws, m, to)
      BY <1>2, <2>1 DEF TryMove
    <3>2. MonsterTold(TeleportMonster(ws, m, to), ws, m, to)
      BY <1>1, TeleportMonsterCells
    <3> QED
      BY <1>2, <3>1, <3>2 DEF MonsterTold
  <2>2. CASE ~Accepted(ws, m, to)
    BY <2>2 DEF TryMove, Untold
  <2> QED
    BY <2>1, <2>2
<1>4. ASSUME NEW m \in Slots, Walk(m) PROVE HeldAfterTeleport
  BY <1>3, <1>4, WalkTold DEF HeldAfterTeleport
<1>5. ASSUME NEW m \in Slots, Knocked(m) PROVE HeldAfterTeleport
  <2>1. PICK to \in Place, rest \in Place, on \in BOOLEAN : ws' = KnockMove(ws, m, to, rest, on).s
    BY <1>5, KnockedTold
  <2>2. KnockTold(ws, m, to, rest, on) /\ m \in Mover
    BY <1>1, LevelFacts, KnocksAlike
  <2>3. TryMove(ws, m, to).s.at \in [Mover -> Place]
    BY <1>1, <2>2, TriesAlike DEF GameState
  <2>4. ws'.at[Player] = TryMove(ws, m, to).s.at[Player]
    BY <1>2, <2>1, <2>2, <2>3 DEF KnockTold
  <2> QED
    BY <1>3, <2>4 DEF HeldAfterTeleport
<1>6. ASSUME PlayerTic PROVE HeldAfterTeleport
  <2> SUFFICES ASSUME ws.rct > 0, ws.mom[Player] = 0 PROVE ws'.at = ws.at
    BY DEF HeldAfterTeleport
  <2>1. PICK a \in GameState, walk \in Place, to \in Place, rest \in Place, on \in BOOLEAN :
          LET w == IF a.dead THEN a ELSE PlayerWalk(a, walk)
          IN /\ ws' = IF w.mom[Player] = 0 THEN w ELSE KnockMove(w, Player, to, rest, on).s
             /\ a.at = ws.at /\ a.rct = ws.rct /\ a.mom = ws.mom
    BY <1>6, PlayerTicTold
  <2> DEFINE w == IF a.dead THEN a ELSE PlayerWalk(a, walk)
  <2>2. w.mom = ws.mom /\ w.at = ws.at
    BY <2>1 DEF PlayerWalk, GameState
  <2>3. ws' = IF w.mom[Player] = 0 THEN w ELSE KnockMove(w, Player, to, rest, on).s
    BY <2>1
  <2> HIDE DEF w
  <2> QED
    BY <2>2, <2>3
<1>7. ASSUME Hit PROVE HeldAfterTeleport
  BY <1>7, HitTold DEF HeldAfterTeleport
<1>8. ASSUME Restart PROVE HeldAfterTeleport
  BY <1>1, <1>8, LevelStartShaped DEF Restart, HeldAfterTeleport
<1> QED
  BY <1>4, <1>5, <1>6, <1>7, <1>8 DEF Next

(* While the reactiontime counts, only a thrust or a restart moves the     *)
(* player (combat._player_move, teleportcode.reaction_lines).              *)
THEOREM ReactionHolds == Spec => [][HeldAfterTeleport]_vars
<1>1. TeleportsInStep /\ [Next]_vars => [HeldAfterTeleport]_vars
  BY HeldByStep
<1> QED
  BY <1>1, TeleportsFollow, PTL DEF Spec
=============================================================================
