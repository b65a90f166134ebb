------------------------ MODULE MonsterScheduler_proofs ------------------------
(***************************************************************************)
(* Proofs about MonsterScheduler for every number of slots and every K:    *)
(* the round robin's wait bound, the bound on heavy actions, and what      *)
(* damage and death do to a monster's cells.                               *)
(***************************************************************************)
EXTENDS MonsterScheduler, TLAPS

(* What holds of one slot's cells, whatever the scheduler does.            *)
CellOK(m, r) ==
  /\ r \in Monster
  /\ r.state = "corpse" => r.tics = TICS_FOREVER
  /\ m \in Spawned /\ ~r.alive => r.state \in Dying /\ ~r.fly

USE DEF TICS_FOREVER, NONE

-----------------------------------------------------------------------------
(* Entering a state other than the corpse of a living monster, or the      *)
(* corpse of any, keeps the cells and gives them tics.                     *)
LEMMA EnterCells ==
  ASSUME NEW m, NEW r \in Monster, NEW s \in State,
         m \in Spawned /\ ~r.alive => s \in Dying /\ ~r.fly
  PROVE  CellOK(m, Enter(r, s)) /\ Enter(r, s).tics > 0
                                /\ Enter(r, s).state = s
  <1>1. Tics[s] \in 1 .. TICS_FOREVER /\ (Tics[s] = TICS_FOREVER <=> s = "corpse")
    BY TicsAssumption
  <1>2. /\ Enter(r, s) \in Monster
        /\ Enter(r, s).state = s /\ Enter(r, s).tics = Tics[s]
        /\ Enter(r, s).alive = r.alive /\ Enter(r, s).fly = r.fly
    BY <1>1 DEF Enter, Cells, Monster
  <1> QED BY <1>1, <1>2 DEF CellOK

(* P_MobjThinker's movement keeps the cells, and zeroes no tics.           *)
LEMMA ThinksCells ==
  ASSUME NEW m, NEW r, CellOK(m, r), NEW t \in Thinks(m, r)
  PROVE  CellOK(m, t) /\ (t.tics = 0 => t = r) /\ (t = r \/ (r.fly /\ t.active))
  <1> DEFINE f == [r EXCEPT !.fly = FALSE]
  <1>1. CASE t = r
    BY <1>1
  <1>2. CASE t # r
    <2>1. m \in Souls /\ r.active /\ r.fly /\ t \in Looks(Enter(f, "stand"))
      BY <1>2 DEF Thinks
    <2>2. f \in Monster /\ f.alive = r.alive /\ f.active
      BY <2>1 DEF CellOK, Cells, Monster
    <2>3. ~(m \in Spawned /\ ~r.alive)
      BY <2>1 DEF CellOK
    <2>. HIDE DEF f
    <2>4. CellOK(m, Enter(f, "stand")) /\ Enter(f, "stand").tics > 0
      BY <2>2, <2>3, EnterCells DEF State
    <2>5. Enter(f, "stand").alive = f.alive /\ Enter(f, "stand").active = f.active
      BY <2>2 DEF Enter, Cells, Monster
    <2> DEFINE g == Enter(f, "stand")
    <2>6. g \in Monster /\ ~(m \in Spawned /\ ~g.alive) /\ g.active
      BY <2>4, <2>5, <2>2, <2>3 DEF CellOK
    <2>7. CellOK(m, g) /\ g.tics > 0
      BY <2>4
    <2>8. t \in {g, Enter(g, "run")}
      BY <2>1 DEF Looks
    <2> HIDE DEF g
    <2>9. CellOK(m, Enter(g, "run")) /\ Enter(g, "run").tics > 0
      BY <2>6, EnterCells DEF State
    <2>10. Enter(g, "run").active
      BY <2>6 DEF Enter, Cells, Monster
    <2> QED BY <2>1, <2>6, <2>7, <2>8, <2>9, <2>10
  <1> QED BY <1>1, <1>2

(* The decrement keeps the cells.                                          *)
LEMMA TickedCells ==
  ASSUME NEW m, NEW r, CellOK(m, r)
  PROVE  CellOK(m, Ticked(r)) /\ (r.active /\ ~Ready(r) => Ticked(r).tics > 0)
  BY DEF CellOK, Cells, Monster, Ticked, Ready

(* A ready monster's next state and its action keep the cells, and leave   *)
(* them tics.                                                              *)
LEMMA ActsCells ==
  ASSUME NEW m, NEW t, CellOK(m, t), Ready(t), ~Vanishes(m, t),
         NEW r \in Acts(m, Enter(t, NextOf(m, t.state)))
  PROVE  CellOK(m, r) /\ r.tics > 0
  <1> DEFINE s == NextOf(m, t.state)
             e == Enter(t, s)
  <1>1. t.state # "corpse" /\ t \in Monster
    BY DEF CellOK, Cells, Monster, Ready, Ticked
  <1>2. s \in State
    BY <1>1 DEF NextOf, State, Cells, Monster
  <1>3. m \in Spawned /\ ~t.alive => s \in Dying /\ ~t.fly
    BY <1>1 DEF CellOK, NextOf, Dying
  <1>4. CellOK(m, e) /\ e.tics > 0 /\ e.state = s
    <2> HIDE DEF s
    <2> QED BY <1>1, <1>2, <1>3, EnterCells
  <1>5. ~(m \in Spawned /\ ~e.alive) \/ e.state \in Dying
    BY <1>4 DEF CellOK
  <1>6. r \in Acts(m, e)
    OBVIOUS
  <1> HIDE DEF s, e
  <1>7. e \in Monster
    BY <1>4 DEF CellOK
  <1>8. CASE e.state \in Dying
    BY <1>4, <1>6, <1>8 DEF Acts, Dying
  <1>9. CASE e.state \notin Dying
    <2>1. ~(m \in Spawned /\ ~e.alive)
      BY <1>5, <1>9
    <2>2. \A q \in State \ {"corpse"}, c \in Monster :
             ~(m \in Spawned /\ ~c.alive)
               => /\ CellOK(m, Enter(c, q)) /\ Enter(c, q).tics > 0
                  /\ Enter(c, q) \in Monster /\ Enter(c, q).alive = c.alive
      <3> TAKE q \in State \ {"corpse"}, c \in Monster
      <3> HAVE ~(m \in Spawned /\ ~c.alive)
      <3>1. CellOK(m, Enter(c, q)) /\ Enter(c, q).tics > 0
        BY EnterCells
      <3>2. Enter(c, q) \in Monster
        BY <3>1 DEF CellOK
      <3>3. Enter(c, q).alive = c.alive
        BY DEF Enter, Cells, Monster
      <3> QED BY <3>1, <3>2, <3>3
    <2>3. CASE r = e
      BY <2>3, <1>4
    <2>4. CASE r = [e EXCEPT !.fly = TRUE]
      <3>1. /\ r \in Monster /\ r.tics = e.tics /\ r.state = e.state /\ r.alive = e.alive
        BY <2>4, <1>7 DEF Cells, Monster
      <3> QED BY <3>1, <2>1, <1>4 DEF CellOK
    <2>5. CASE r \in {Enter(e, "run"), Enter(e, "face"), Enter(e, "stand")}
      BY <2>5, <2>2, <2>1, <1>7 DEF State
    <2>6. CASE r = Enter(Enter(e, "stand"), "run")
      <3>1. Enter(e, "stand") \in Monster /\ ~(m \in Spawned /\ ~Enter(e, "stand").alive)
        BY <2>2, <2>1, <1>7 DEF State
      <3> QED BY <3>1, <2>6, <2>2 DEF State
    <2> QED BY <1>6, <2>3, <2>4, <2>5, <2>6 DEF Acts, Looks, Chases
  <1> QED BY <1>8, <1>9

(* Damage keeps the cells; a monster it changes has tics.                  *)
LEMMA DamagedCells ==
  ASSUME NEW m, NEW d, CellOK(m, d), d.alive, NEW r \in Damaged(d)
  PROVE  CellOK(m, r) /\ (r = d \/ r.tics > 0)
  <1>1. CASE r = d
    BY <1>1
  <1>2. CASE r \in {Enter(d, "pain"), Enter(d, "run")}
    <2>1. d \in Monster
      BY DEF CellOK
    <2> QED BY <1>2, <2>1, EnterCells DEF State
  <1>3. CASE r \in Killed(d)
    <2>1. PICK t \in 1 .. Tics["die"] :
            r = Cells(d.active, FALSE, FALSE, "die", t)
      BY <1>3 DEF Killed
    <2>2. t \in 1 .. TICS_FOREVER
      BY TicsAssumption DEF State
    <2> QED BY <2>1, <2>2 DEF CellOK, Cells, Monster, State, Dying
  <1> QED BY <1>1, <1>2, <1>3 DEF Damaged

-----------------------------------------------------------------------------
(* The cells of every slot: their shape, and tics at 0 only while owed.    *)
CellsInv ==
  /\ mon \in [Slot -> Monster] /\ waits \in [Slot -> Nat]
  /\ \A m \in Slot : CellOK(m, mon[m])
  /\ ZeroIsWaiting

(* The round robin: the first deferral of a pass comes after K slots were  *)
(* given; a slot deferred w passes in a row stands K * w positions short of*)
(* the end of the order when its pass comes to it again.                   *)
OrderInv ==
  /\ cursor \in Slot /\ visited \in 0 .. N
  /\ used \in 0 .. K /\ used <= visited
  /\ deferred \in Slot \union {NONE}
  /\ waits \in [Slot -> Nat]
  /\ deferred # NONE => used = K /\ K <= Pos(deferred) /\ Pos(deferred) < visited
  /\ \A m \in Slot : waits[m] > 0 =>
       IF Pos(m) < visited
       THEN deferred # NONE /\ Pos(deferred) <= Pos(m) /\ K * (waits[m] - 1) + Pos(m) < N
       ELSE K * waits[m] + Pos(m) < N

(* Two heavy actions at most for a slot given.                             *)
ActsInv == acts \in Nat /\ acts <= 2 * used /\ used \in 0 .. K

IInv == CellsInv /\ OrderInv /\ ActsInv /\ striker \in Slot \union {NONE}

(* A visit either lets the slot's wait end, or defers it with all K slots  *)
(* given; one slot's cells change, soundly, and tics stay above 0 unless   *)
(* it is deferred or gone.                                                 *)
LEMMA VisitShape ==
  ASSUME IInv, NEW m \in Slot, Visit(m)
  PROVE  /\ visited < N /\ Pos(m) = visited /\ visited' = visited + 1
         /\ cursor' = cursor
         /\ striker' \in Slot \union {NONE}
         /\ \E r : /\ mon' = [mon EXCEPT ![m] = r] /\ CellOK(m, r)
                  /\ \/ /\ waits' = [waits EXCEPT ![m] = 0]
                        /\ deferred' = deferred
                        /\ r.active => r.tics > 0
                        /\ \/ used' = used /\ acts' = acts
                           \/ /\ used < K /\ used' = used + 1
                              /\ acts' \in {acts, acts + 1, acts + 2}
                     \/ /\ waits' = [waits EXCEPT ![m] = @ + 1]
                        /\ deferred' = IF deferred = NONE THEN m ELSE deferred
                        /\ used' = used /\ acts' = acts /\ used = K
  <1>1. PICK t \in Thinks(m, mon[m]) :
          LET slam == mon[m].fly /\ ~t.fly IN
          Counts(m, t, slam) \/ Removed(m, t, slam) \/ Enters(m, t, slam) \/ Defers(m, t, slam)
    BY DEF Visit
  <1> DEFINE slam == mon[m].fly /\ ~t.fly
  <1>2. CellOK(m, mon[m]) /\ acts \in Nat /\ used \in 0 .. K /\ K \in Nat
    BY SlotAssumption DEF IInv, CellsInv, ActsInv
  <1>3. CellOK(m, t)
    BY <1>2, ThinksCells
  <1>4. CellOK(m, Ticked(t)) /\ (t.active /\ ~Ready(t) => Ticked(t).tics > 0)
    BY <1>3, TickedCells
  <1>5. visited < N /\ Pos(m) = visited
    BY DEF Visit
  <1> HIDE DEF slam
  <1>6. CASE Counts(m, t, slam)
    <2> DEFINE r == IF t.active THEN Ticked(t) ELSE t
    <2>1. CellOK(m, r) /\ (r.active => r.tics > 0)
      BY <1>3, <1>4, <1>6 DEF Counts, Ticked, CellOK, Monster
    <2>2. mon' = [mon EXCEPT ![m] = r] /\ striker' \in Slot \union {NONE}
          /\ visited' = visited + 1 /\ cursor' = cursor
      BY <1>6 DEF Counts, Leaves
    <2>3. waits' = [waits EXCEPT ![m] = 0] /\ deferred' = deferred
          /\ used' = used /\ acts' = acts
      BY <1>6 DEF Counts, Unwaited
    <2> HIDE DEF r
    <2> QED BY <1>5, <2>1, <2>2, <2>3
  <1>7. CASE Removed(m, t, slam)
    <2> DEFINE r == Cells(FALSE, t.alive, t.fly, t.state, 0)
    <2>1. CellOK(m, r) /\ (r.active => r.tics > 0)
      BY <1>3, <1>7 DEF Removed, Vanishes, Cells, CellOK, Monster
    <2>2. mon' = [mon EXCEPT ![m] = r] /\ striker' \in Slot \union {NONE}
          /\ visited' = visited + 1 /\ cursor' = cursor
      BY <1>7 DEF Removed, Leaves
    <2>3. waits' = [waits EXCEPT ![m] = 0] /\ deferred' = deferred
          /\ used' = used /\ acts' = acts
      BY <1>7 DEF Removed, Unwaited
    <2> HIDE DEF r
    <2> QED BY <1>5, <2>1, <2>2, <2>3
  <1>8. CASE Enters(m, t, slam)
    <2> DEFINE s == NextOf(m, t.state)
    <2>1. PICK r \in Acts(m, Enter(t, s)) :
            /\ Leaves(m, r, slam \/ (s = "attack" /\ m \notin Souls))
            /\ acts' = acts + HeavyRun(s, r)
      BY <1>8 DEF Enters
    <2>2. Ready(t) /\ ~Vanishes(m, t)
      BY <1>8 DEF Enters
    <2>3. CellOK(m, r) /\ r.tics > 0
      BY <1>3, <2>2, ActsCells
    <2>4. mon' = [mon EXCEPT ![m] = r] /\ striker' \in Slot \union {NONE}
          /\ visited' = visited + 1 /\ cursor' = cursor
      BY <2>1 DEF Leaves
    <2>5. waits' = [waits EXCEPT ![m] = 0] /\ deferred' = deferred
      BY <1>8 DEF Enters, Unwaited
    <2>6. \/ used' = used /\ acts' = acts
          \/ used < K /\ used' = used + 1 /\ acts' \in {acts, acts + 1, acts + 2}
      <3>1. SlotFree(s) /\ used' = IF s \in Heavy THEN used + 1 ELSE used
        BY <1>8 DEF Enters
      <3>2. HeavyRun(s, r) \in {0, 1, 2} /\ (s \notin Heavy => HeavyRun(s, r) = 0)
        BY DEF HeavyRun
      <3> HIDE DEF s
      <3> QED BY <1>2, <2>1, <3>1, <3>2 DEF SlotFree
    <2> HIDE DEF s
    <2> QED BY <1>5, <2>3, <2>4, <2>5, <2>6
  <1>9. CASE Defers(m, t, slam)
    <2>1. mon' = [mon EXCEPT ![m] = Ticked(t)] /\ striker' \in Slot \union {NONE}
          /\ visited' = visited + 1 /\ cursor' = cursor
      BY <1>9 DEF Defers, Leaves
    <2>2. /\ waits' = [waits EXCEPT ![m] = @ + 1]
          /\ deferred' = IF deferred = NONE THEN m ELSE deferred
          /\ used' = used /\ acts' = acts
      BY <1>9 DEF Defers
    <2>3. used = K
      BY <1>2, <1>9 DEF Defers, SlotFree
    <2> QED BY <1>4, <1>5, <2>1, <2>2, <2>3
  <1> QED BY <1>1, <1>6, <1>7, <1>8, <1>9 DEF slam

(* A visit keeps the cells: only the visited slot's change.                *)
LEMMA VisitCellsInv ==
  ASSUME IInv, NEW m \in Slot, Visit(m)
  PROVE  CellsInv' /\ ActsInv' /\ (striker \in Slot \union {NONE})'
  <1>1. PICK r : /\ mon' = [mon EXCEPT ![m] = r] /\ CellOK(m, r)
                 /\ \/ /\ waits' = [waits EXCEPT ![m] = 0]
                       /\ r.active => r.tics > 0
                       /\ \/ used' = used /\ acts' = acts
                          \/ /\ used < K /\ used' = used + 1
                             /\ acts' \in {acts, acts + 1, acts + 2}
                    \/ /\ waits' = [waits EXCEPT ![m] = @ + 1]
                       /\ used' = used /\ acts' = acts
    BY VisitShape
  <1>2. CellsInv /\ ActsInv /\ K \in Nat
    BY SlotAssumption DEF IInv
  <1>3. mon' \in [Slot -> Monster] /\ waits' \in [Slot -> Nat]
    BY <1>1, <1>2 DEF CellsInv, CellOK
  <1>4. \A x \in Slot : CellOK(x, mon'[x])
    BY <1>1, <1>2 DEF CellsInv
  <1>5. ZeroIsWaiting'
    BY <1>1, <1>2 DEF CellsInv, ZeroIsWaiting
  <1>6. ActsInv'
    BY <1>1, <1>2 DEF ActsInv
  <1>7. striker' \in Slot \union {NONE}
    BY VisitShape
  <1>8. (\A x \in Slot : CellOK(x, mon[x]))'
    BY <1>4 DEF CellOK
  <1> QED BY <1>3, <1>8, <1>5, <1>6, <1>7 DEF CellsInv

(* A visit keeps the round robin's order.                                  *)
LEMMA VisitOrderInv ==
  ASSUME IInv, NEW m \in Slot, Visit(m)
  PROVE  OrderInv'
  <1>1. /\ visited < N /\ Pos(m) = visited /\ visited' = visited + 1
        /\ cursor' = cursor
        /\ \/ /\ waits' = [waits EXCEPT ![m] = 0]
              /\ deferred' = deferred
              /\ used' = used \/ (used < K /\ used' = used + 1)
           \/ /\ waits' = [waits EXCEPT ![m] = @ + 1]
              /\ deferred' = IF deferred = NONE THEN m ELSE deferred
              /\ used' = used /\ used = K
    BY VisitShape
  <1>2. OrderInv /\ N \in Nat \ {0} /\ K \in Nat
    BY SlotAssumption DEF IInv
  <1>3. /\ cursor \in Slot /\ visited \in 0 .. N /\ used \in 0 .. K /\ used <= visited
        /\ deferred \in Slot \union {NONE} /\ waits \in [Slot -> Nat]
    BY <1>2 DEF OrderInv
  <1>4. \A x \in Slot : Pos(x) \in 0 .. N - 1 /\ Pos(x)' = Pos(x) /\ (Pos(x) = visited => x = m)
    BY <1>1, <1>2, <1>3 DEF Pos, Slot
  <1>5. /\ cursor' \in Slot /\ visited' \in 0 .. N
        /\ used' \in 0 .. K /\ used' <= visited'
        /\ deferred' \in Slot \union {NONE}
        /\ waits' \in [Slot -> Nat]
    BY <1>1, <1>2, <1>3
  <1>6. (deferred # NONE => used = K /\ K <= Pos(deferred) /\ Pos(deferred) < visited)'
    <2>1. deferred # NONE => used = K /\ K <= Pos(deferred) /\ Pos(deferred) < visited
                             /\ deferred \in Slot
      BY <1>2 DEF OrderInv
    <2>2. deferred \in Slot => Pos(deferred)' = IF deferred' = deferred THEN Pos(deferred)
                                                ELSE Pos(m)
      BY <1>1, <1>4, <2>1 DEF Slot
    <2>3. CASE deferred = NONE /\ deferred' = m
      <3>1. used' = K /\ used = K
        BY <2>3, <1>1 DEF Slot
      <3>2. Pos(deferred)' = Pos(m)
        BY <2>3, <1>4, <1>1 DEF Pos
      <3> QED BY <3>1, <3>2, <1>1, <1>3, <2>3
    <2>4. CASE deferred' = deferred
      <3>1. deferred # NONE => Pos(deferred)' = Pos(deferred)
        BY <2>1, <2>4, <1>1 DEF Pos
      <3>2. deferred # NONE => used' = K
        BY <2>1, <1>1, <1>3
      <3> QED BY <3>1, <3>2, <2>1, <2>4, <1>1, <1>2, <1>3, <1>4
    <2> QED BY <2>3, <2>4, <1>1
  <1>7. ASSUME NEW x \in Slot, waits'[x] > 0
        PROVE  IF Pos(x) < visited + 1
               THEN deferred' # NONE /\ Pos(deferred)' <= Pos(x) /\ K * (waits'[x] - 1) + Pos(x) < N
               ELSE K * waits'[x] + Pos(x) < N
    <2>1. waits[x] > 0 =>
            IF Pos(x) < visited
            THEN deferred # NONE /\ Pos(deferred) <= Pos(x) /\ K * (waits[x] - 1) + Pos(x) < N
            ELSE K * waits[x] + Pos(x) < N
      BY <1>2 DEF OrderInv
    <2>2. deferred # NONE => deferred' = deferred /\ Pos(deferred)' = Pos(deferred)
                             /\ Pos(deferred) < visited
      BY <1>1, <1>2 DEF OrderInv, Pos
    <2>3. CASE x # m
      <3>1. waits'[x] = waits[x] /\ Pos(x) # visited
        BY <2>3, <1>1, <1>3, <1>4
      <3> QED BY <3>1, <2>1, <2>2, <1>7, <1>4, <1>3
    <2>4. CASE x = m
      <3>1. waits'[m] = waits[m] + 1 /\ deferred' = (IF deferred = NONE THEN m ELSE deferred)
        BY <2>4, <1>7, <1>1, <1>3
      <3>2. deferred' # NONE /\ Pos(deferred)' <= Pos(m)
        <4>1. CASE deferred = NONE
          <5>1. deferred' = m
            BY <3>1, <4>1
          <5>2. Pos(deferred)' = Pos(m)
            BY <5>1, <1>1 DEF Pos
          <5> QED BY <5>1, <5>2, <1>4, <1>2 DEF Slot
        <4>2. CASE deferred # NONE
          BY <4>2, <2>2, <1>1, <1>3, <1>4
        <4> QED BY <4>1, <4>2
      <3>3. K * (waits'[m] - 1) + Pos(m) < N
        <4>1. waits'[m] - 1 = waits[m] /\ waits[m] \in Nat
          BY <3>1, <1>3
        <4>2. CASE waits[m] = 0
          BY <4>1, <4>2, <1>4, <1>2
        <4>3. CASE waits[m] > 0
          BY <4>1, <4>3, <2>1, <2>4, <1>1, <1>3
        <4> QED BY <4>1, <4>2, <4>3
      <3> QED BY <3>2, <3>3, <2>4, <1>1, <1>3
    <2> QED BY <2>3, <2>4
  <1>8. (\A x \in Slot : waits[x] > 0 =>
          IF Pos(x) < visited
          THEN deferred # NONE /\ Pos(deferred) <= Pos(x) /\ K * (waits[x] - 1) + Pos(x) < N
          ELSE K * waits[x] + Pos(x) < N)'
    BY <1>7, <1>4, <1>1
  <1> QED BY <1>5, <1>6, <1>8 DEF OrderInv

(* The cursor moves to the first deferred slot, at least K positions on:   *)
(* what a waiting slot's wait grew by, its position fell by.               *)
LEMMA EndPassInv ==
  ASSUME IInv, EndPass
  PROVE  IInv'
  <1>1. /\ visited = N /\ visited' = 0 /\ used' = 0 /\ deferred' = NONE
        /\ striker' = NONE /\ acts' = 0 /\ mon' = mon /\ waits' = waits
        /\ cursor' = (IF deferred = NONE THEN cursor ELSE deferred)
    BY DEF EndPass, NextCursor
  <1>2. OrderInv /\ N \in Nat \ {0} /\ K \in Nat
    BY SlotAssumption DEF IInv
  <1>3. /\ cursor \in Slot /\ deferred \in Slot \union {NONE} /\ waits \in [Slot -> Nat]
    BY <1>2 DEF OrderInv
  <1>4. ASSUME NEW x \in Slot, waits[x] > 0
        PROVE  K * waits[x] + Pos(x)' < N /\ Pos(x)' >= 0
    <2>1. Pos(x) < visited
      BY <1>1, <1>2, <1>3 DEF Pos, Slot
    <2>2. deferred # NONE /\ Pos(deferred) <= Pos(x) /\ K * (waits[x] - 1) + Pos(x) < N
          /\ K <= Pos(deferred)
      BY <1>2, <2>1, <1>4 DEF OrderInv
    <2>3. Pos(x)' = Pos(x) - Pos(deferred)
      BY <1>1, <1>2, <1>3, <2>2 DEF Pos, Slot
    <2>4. Pos(x) \in Int /\ Pos(deferred) \in Int
      BY <1>2, <1>3, <2>2 DEF Pos, Slot
    <2>5. K * waits[x] = K * (waits[x] - 1) + K /\ K * (waits[x] - 1) \in Int
      BY <1>2, <1>3
    <2> QED BY <2>2, <2>3, <2>4, <2>5, <1>2
  <1>5. OrderInv'
    <2>1. cursor' \in Slot
      BY <1>1, <1>3
    <2>2. \A x \in Slot : waits'[x] > 0 => ~(Pos(x)' < visited') /\ K * waits'[x] + Pos(x)' < N
      BY <1>1, <1>4, <1>2, <2>1 DEF Pos, Slot
    <2> QED BY <1>1, <1>2, <1>3, <2>1, <2>2 DEF OrderInv
  <1>6. CellsInv'
    BY <1>1 DEF IInv, CellsInv, ZeroIsWaiting, CellOK
  <1> QED BY <1>1, <1>2, <1>5, <1>6 DEF IInv, ActsInv

(* Damage touches one slot's cells.                                        *)
LEMMA HurtInv ==
  ASSUME IInv, NEW v \in Slot, Hurt(v)
  PROVE  IInv'
  <1>1. PICK r \in Damaged(mon[v]) : mon' = [mon EXCEPT ![v] = r]
    BY DEF Hurt
  <1>2. CellsInv /\ CellOK(v, mon[v]) /\ mon[v].alive
    BY DEF Hurt, IInv, CellsInv
  <1>3. CellOK(v, r) /\ (r = mon[v] \/ r.tics > 0)
    BY <1>2, DamagedCells
  <1>4. UNCHANGED <<cursor, visited, used, deferred, striker, acts, waits>>
    BY DEF Hurt
  <1>5. CellsInv'
    <2>1. mon' \in [Slot -> Monster]
      BY <1>1, <1>2, <1>3 DEF CellsInv, CellOK
    <2>2. \A x \in Slot : CellOK(x, mon'[x])
      BY <1>1, <1>2, <1>3 DEF CellsInv
    <2>3. ZeroIsWaiting'
      BY <1>1, <1>2, <1>3, <1>4 DEF CellsInv, ZeroIsWaiting
    <2>4. waits' \in [Slot -> Nat]
      BY <1>2, <1>4 DEF CellsInv
    <2> QED BY <2>1, <2>2, <2>3, <2>4 DEF CellsInv, CellOK
  <1>6. OrderInv'
    BY <1>4 DEF IInv, OrderInv, Pos
  <1> QED BY <1>4, <1>5, <1>6 DEF IInv, ActsInv

(* The level start, which the restart restores.                            *)
LEMMA InitMonsterOK ==
  ASSUME NEW m \in Slot
  PROVE  CellOK(m, InitMonster(m)) /\ (InitMonster(m).active => InitMonster(m).tics > 0)
  <1>1. FirstTics[m] \in 1 .. TICS_FOREVER
    BY TicsAssumption DEF State
  <1>2. CASE m \in Spawned
    <2>1. InitMonster(m) = Cells(TRUE, TRUE, FALSE, "stand", FirstTics[m])
      BY <1>2 DEF InitMonster
    <2>2. InitMonster(m) \in Monster
      BY <1>1, <2>1 DEF Cells, Monster, State
    <2>3. /\ InitMonster(m).state = "stand" /\ InitMonster(m).alive
          /\ InitMonster(m).tics = FirstTics[m]
      BY <2>1 DEF Cells
    <2> QED BY <1>1, <2>2, <2>3 DEF CellOK
  <1>3. CASE m \notin Spawned
    BY <1>3 DEF InitMonster, Cells, CellOK, Monster, State
  <1> QED BY <1>2, <1>3

(* The inductive invariant holds at the level start.                       *)
LEMMA InitIInv == Init => IInv
  <1> SUFFICES ASSUME Init PROVE IInv
    OBVIOUS
  <1>1. mon \in [Slot -> Monster] /\ (\A m \in Slot : CellOK(m, mon[m]))
        /\ ZeroIsWaiting
    BY InitMonsterOK DEF Init, CellOK, ZeroIsWaiting
  <1>2. /\ cursor = 0 /\ visited = 0 /\ used = 0 /\ deferred = NONE /\ striker = NONE
        /\ acts = 0 /\ waits = [m \in Slot |-> 0]
    BY DEF Init
  <1>3. 0 \in Slot /\ 0 \in 0 .. K /\ 0 \in 0 .. N
    BY SlotAssumption DEF Slot
  <1>4. OrderInv
    BY <1>2, <1>3 DEF OrderInv
  <1> QED BY <1>1, <1>2, <1>3, <1>4 DEF IInv, CellsInv, ActsInv

(* The restart comes between two passes, and starts the order afresh.      *)
LEMMA RestartInv ==
  ASSUME IInv, Restart
  PROVE  IInv'
  <1>1. /\ visited = 0 /\ mon' = [m \in Slot |-> InitMonster(m)] /\ cursor' = 0
        /\ waits' = [m \in Slot |-> 0]
        /\ UNCHANGED <<visited, used, deferred, striker, acts>>
    BY DEF Restart
  <1>2. mon' \in [Slot -> Monster] /\ (\A m \in Slot : CellOK(m, mon'[m]))
        /\ ZeroIsWaiting'
    BY <1>1, InitMonsterOK DEF CellOK, ZeroIsWaiting
  <1>3. deferred = NONE
    BY <1>1, SlotAssumption DEF IInv, OrderInv, Pos, Slot
  <1>4. 0 \in Slot
    BY SlotAssumption DEF Slot
  <1>5. OrderInv'
    BY <1>1, <1>3, <1>4 DEF IInv, OrderInv
  <1>6. CellsInv'
    BY <1>1, <1>2 DEF CellsInv, CellOK
  <1> QED BY <1>1, <1>5, <1>6 DEF IInv, ActsInv

(* Every visit, hit, end of pass and restart preserves it.                 *)
LEMMA NextIInv == IInv /\ [Next]_vars => IInv'
  <1> SUFFICES ASSUME IInv, [Next]_vars PROVE IInv'
    OBVIOUS
  <1>1. ASSUME NEW m \in Slot, Visit(m) PROVE IInv'
    BY <1>1, VisitCellsInv, VisitOrderInv DEF IInv
  <1>2. ASSUME NEW v \in Slot, Hurt(v) PROVE IInv'
    BY <1>2, HurtInv
  <1>3. CASE EndPass
    BY <1>3, EndPassInv
  <1>4. CASE Restart
    BY <1>4, RestartInv
  <1>5. CASE UNCHANGED vars
    BY <1>5 DEF vars, IInv, CellsInv, ZeroIsWaiting, CellOK, OrderInv, Pos, ActsInv
  <1> QED BY <1>1, <1>2, <1>3, <1>4, <1>5 DEF Next

(* So it holds in every state of every behaviour.                          *)
LEMMA SpecIInv == Spec => []IInv
  BY InitIInv, NextIInv, PTL DEF Spec

-----------------------------------------------------------------------------
(* Every cell keeps its range, and no pass gives more than K slots.        *)
THEOREM SpecTypeOK == Spec => []TypeOK
  <1>1. IInv => TypeOK
    BY DEF IInv, CellsInv, OrderInv, ActsInv, TypeOK
  <1> QED BY <1>1, SpecIInv, PTL

(* Nobody starves: at most (N - 1) \div K passes in a row without a slot.  *)
THEOREM SpecWaitBound == Spec => []WaitBound
  <1>1. IInv => WaitBound
    <2> SUFFICES ASSUME IInv, NEW m \in Slot PROVE K * waits[m] < N
      BY DEF WaitBound
    <2>1. OrderInv /\ N \in Nat \ {0} /\ K \in Nat /\ waits[m] \in Nat
          /\ Pos(m) \in 0 .. N - 1 /\ visited \in 0 .. N
      BY SlotAssumption DEF IInv, OrderInv, Pos, Slot
    <2>2. CASE waits[m] = 0
      BY <2>1, <2>2
    <2>3. CASE waits[m] > 0 /\ Pos(m) < visited
      <3>1. deferred # NONE /\ Pos(deferred) <= Pos(m) /\ K * (waits[m] - 1) + Pos(m) < N
            /\ K <= Pos(deferred) /\ deferred \in Slot
        BY <2>1, <2>3 DEF OrderInv
      <3>2. K * waits[m] = K * (waits[m] - 1) + K /\ K * (waits[m] - 1) \in Int
        BY <2>1
      <3>3. Pos(deferred) \in Int
        BY <2>1, <3>1 DEF OrderInv, Pos, Slot
      <3> QED BY <2>1, <3>1, <3>2, <3>3
    <2>4. CASE waits[m] > 0 /\ ~(Pos(m) < visited)
      <3>1. K * waits[m] + Pos(m) < N
        BY <2>1, <2>4 DEF OrderInv
      <3>2. K * waits[m] \in Int
        BY <2>1
      <3> QED BY <2>1, <3>1, <3>2
    <2> QED BY <2>1, <2>2, <2>3, <2>4
  <1> QED BY <1>1, SpecIInv, PTL

(* Tics are 0 only while the scheduler owes a slot.                        *)
THEOREM SpecZeroIsWaiting == Spec => []ZeroIsWaiting
  <1>1. IInv => ZeroIsWaiting
    BY DEF IInv, CellsInv
  <1> QED BY <1>1, SpecIInv, PTL

(* A pass runs at most 2 K heavy actions.                                  *)
THEOREM SpecHeavyActionsBounded == Spec => []HeavyActionsBounded
  <1>1. IInv => HeavyActionsBounded
    BY SlotAssumption DEF IInv, ActsInv, HeavyActionsBounded
  <1> QED BY <1>1, SpecIInv, PTL

(* The killed stay dead until the restart.                                 *)
THEOREM SpecDeadStayDead == Spec => []DeadStayDead
  <1>1. IInv => DeadStayDead
    BY SpawnAssumption DEF IInv, CellsInv, CellOK, DeadStayDead
  <1> QED BY <1>1, SpecIInv, PTL
=============================================================================
