---------------------------- MODULE Things_proofs ---------------------------
(***************************************************************************)
(* The barrels and the mobiles of every level, for any number of them, any *)
(* reach of the blasts, any pools and any leaves.                          *)
(*                                                                         *)
(* Barrels: the emitted cells, worked through one window, follow the       *)
(* model's through every chain of blasts; each barrel is the one Barrel    *)
(* describes; and the blame is the first's.  A blast is a fold over the    *)
(* barrels.  Its steps are reached as follows: Iterates gives a run of any *)
(* N maps of a set, UpTo (induction over a set of numbers) shows that what *)
(* the fold CHOOSEs is that run, and a second UpTo over the run shows what *)
(* it keeps.  The relation it keeps to its start is OnceHit: whatever one  *)
(* blast, shot or rocket does, each barrel is untouched, hurt or killed,   *)
(* once.  BarrelsInStep is then inductive: a tic is a count, a change of   *)
(* state, or a blast of a barrel that is itself already burning, and so    *)
(* not in its own reach.                                                   *)
(*                                                                         *)
(* Leaf lists: ListsHold says that every leaf's list is the one a rebuild  *)
(* from the rows gives, and that no thing is in two of them; LinkHolds and *)
(* UnlinkHolds show that the walk of _list_insert and of _list_remove      *)
(* keeps it when the row changes with it.                                  *)
(*                                                                         *)
(* Mobiles: the emitted cells are given by the model's, up to the window   *)
(* and the drops.  Follows(w, f, D) says so of whole states, D the         *)
(* monsters whose item lies about; Mid(w, g, s, D) while missile s is in   *)
(* the window.  Each routine of the emitted code is one Told lemma (what   *)
(* it leaves, cell by cell) and one lemma that it keeps Mid or Follows.    *)
(* MobilesInv is the conjunction of that with what each kind of slot       *)
(* holds, and of Quiet: a missile that has exploded has no momentum.       *)
(***************************************************************************)
EXTENDS Barrels, Mobiles, TLAPS, WellFoundedInduction, SequenceTheorems, FiniteSetTheorems

(* Induction up to N over a set of numbers: no operator is passed.         *)
LEMMA UpTo ==
  ASSUME NEW N \in Nat, NEW T, 0 \in T, \A n \in 1 .. N : n - 1 \in T => n \in T
  PROVE  \A n \in 0 .. N : n \in T
  <1> DEFINE Bad == {n \in 0 .. N : n \notin T}
  <1> SUFFICES ASSUME Bad # {} PROVE FALSE
    OBVIOUS
  <1>1. Bad \subseteq Nat
    OBVIOUS
  <1>2. PICK m \in Bad : \A k \in Bad : <<k, m>> \notin OpToRel(<, Nat)
    <2> HIDE DEF Bad
    <2> QED BY <1>1, WFMin, NatLessThanWellFounded
  <1>3. m \in 1 .. N /\ m - 1 \in 0 .. N
    OBVIOUS
  <1>4. m - 1 \notin T
    BY <1>2, <1>3
  <1>5. m - 1 \in Bad
    BY <1>3, <1>4
  <1>6. <<m - 1, m>> \in OpToRel(<, Nat)
    BY <1>3 DEF OpToRel
  <1> QED BY <1>2, <1>5, <1>6

(* N maps of S into itself.                                                *)
Maps(G, N, S) == G \in [1 .. N -> [S -> S]]

(* A run of them from `start`.                                             *)
Iterate(h, N, S, start, G) ==
  h \in [0 .. N -> S] /\ h[0] = start /\ \A n \in 1 .. N : h[n] = G[n][h[n - 1]]

(* N maps of a set, one after the other, have a run from every start.      *)
LEMMA Iterates ==
  ASSUME NEW N \in Nat, NEW S, NEW start \in S, NEW G, Maps(G, N, S)
  PROVE  \E h : Iterate(h, N, S, start, G)
  <1> USE DEF Maps
  <1> DEFINE Runs(h, m) == h \in [0 .. m -> S] /\ h[0] = start
                           /\ \A n \in 1 .. m : h[n] = G[n][h[n - 1]]
             T == {m \in 0 .. N : \E h : Runs(h, m)}
  <1>1. 0 \in T
    <2>1. Runs([k \in 0 .. 0 |-> start], 0)
      OBVIOUS
    <2>2. \E h : Runs(h, 0)
      <3> HIDE DEF Runs
      <3> QED BY <2>1
    <2> HIDE DEF Runs
    <2> QED BY <2>2
  <1>2. ASSUME NEW m \in 1 .. N, m - 1 \in T
        PROVE  m \in T
    <2>1. PICK h : Runs(h, m - 1)
      BY <1>2
    <2> DEFINE g == [k \in 0 .. m |-> IF k = m THEN G[m][h[m - 1]] ELSE h[k]]
    <2>2. g \in [0 .. m -> S]
      <3>1. m - 1 \in 0 .. m - 1 /\ h[m - 1] \in S
        BY <2>1
      <3>2. G[m][h[m - 1]] \in S
        BY <3>1
      <3>3. \A k \in 0 .. m : k # m => h[k] \in S
        BY <2>1
      <3> QED BY <3>2, <3>3
    <2>3. ASSUME NEW n \in 1 .. m PROVE g[n] = G[n][g[n - 1]]
      <3>1. g[n - 1] = h[n - 1]
        OBVIOUS
      <3>2. CASE n = m
        BY <3>1, <3>2
      <3>3. CASE n # m
        <4>1. n \in 1 .. m - 1 /\ g[n] = h[n]
          BY <3>3
        <4> QED BY <4>1, <3>1, <2>1
      <3> QED BY <3>2, <3>3
    <2>4. g[0] = start
      BY <2>1
    <2>5. Runs(g, m)
      BY <2>2, <2>3, <2>4
    <2> HIDE DEF Runs, g
    <2> QED BY <2>5
  <1>3. N \in T
    <2>1. N \in 0 .. N
      OBVIOUS
    <2> HIDE DEF T
    <2> QED BY <1>1, <1>2, <2>1, UpTo
  <1> QED BY <1>3 DEF Iterate

(***************************************************************************)
(* The folds over the barrels, one at a time                               *)
(***************************************************************************)

(* One barrel's part of each fold, as the module's folds say it.           *)
EachHit(x, taken, src, c) == IF taken[c] = 0 THEN x ELSE DamageBarrel(x, c, taken[c], src)

ChainHit(x, b, c) ==
  IF Reach[b][c] = 0 THEN x ELSE Bdm([x EXCEPT !.bdsrc = x.src[b]], c, Reach[b][c])

RocketHits(g, taken, c) == taken[c] # 0 /\ g.st[c] # 0 /\ Signed(g.hp[c]) > 0

RocketHit(x, taken, c) ==
  IF ~RocketHits(x, taken, c) THEN x ELSE Bdm([x EXCEPT !.bdsrc = OfPlayer], c, taken[c])

(* h are the cells after each barrel of the fold.                          *)
EachRuns(h, w, taken, src) ==
  /\ h \in [0 .. Barrels -> BarrelCells] /\ h[0] = w
  /\ \A c \in 1 .. Barrels : h[c] = EachHit(h[c - 1], taken, src, c)

(* A fold ends where such a run ends.                                      *)
LEMMA DamageEachUnfolds ==
  ASSUME Barrels \in Nat, NEW w, NEW taken, NEW src, NEW h, EachRuns(h, w, taken, src)
  PROVE  DamageEach(w, taken, src) = h[Barrels]
  <1> USE DEF EachRuns
  <1> DEFINE Def(g) == [c \in 0 .. Barrels |-> IF c = 0 THEN w ELSE EachHit(g[c - 1], taken, src, c)]
             after == CHOOSE g : g = Def(g)
  <1>1. DamageEach(w, taken, src) = after[Barrels]
    BY DEF DamageEach, EachHit
  <1>2. h = Def(h)
    OBVIOUS
  <1>3. after = Def(after)
    <2> HIDE DEF Def
    <2> QED BY <1>2
  <1> HIDE DEF after
  <1>4. after[0] = h[0]
    BY <1>3
  <1>5. ASSUME NEW c \in 1 .. Barrels, after[c - 1] = h[c - 1] PROVE after[c] = h[c]
    <2>1. c \in 0 .. Barrels /\ c # 0
      OBVIOUS
    <2>2. after[c] = EachHit(after[c - 1], taken, src, c)
      BY <1>3, <2>1
    <2> QED BY <1>5, <2>2
  <1> DEFINE T == {c \in 0 .. Barrels : after[c] = h[c]}
  <1>6. 0 \in T /\ \A c \in 1 .. Barrels : c - 1 \in T => c \in T
    BY <1>4, <1>5
  <1>7. Barrels \in 0 .. Barrels
    OBVIOUS
  <1>8. Barrels \in T
    <2> HIDE DEF T
    <2> QED BY <1>6, <1>7, UpTo
  <1> QED BY <1>1, <1>8

(* The same of a barrel's chain.                                           *)
ChainRuns(h, f, b) ==
  /\ h \in [0 .. Barrels -> EmittedCells] /\ h[0] = f
  /\ \A c \in 1 .. Barrels : h[c] = ChainHit(h[c - 1], b, c)

(* pt_chain's fold CHOOSEs a run of the chain.                             *)
LEMMA ChainUnfolds ==
  ASSUME Barrels \in Nat, NEW f, NEW b, NEW h, ChainRuns(h, f, b)
  PROVE  Chain(f, b) = h[Barrels]
  <1> USE DEF ChainRuns
  <1> DEFINE Def(g) == [c \in 0 .. Barrels |-> IF c = 0 THEN f ELSE ChainHit(g[c - 1], b, c)]
             after == CHOOSE g : g = Def(g)
  <1>1. Chain(f, b) = after[Barrels]
    BY DEF Chain, ChainHit
  <1>2. h = Def(h)
    OBVIOUS
  <1>3. after = Def(after)
    <2> HIDE DEF Def
    <2> QED BY <1>2
  <1> HIDE DEF after
  <1>4. after[0] = h[0]
    BY <1>3
  <1>5. ASSUME NEW c \in 1 .. Barrels, after[c - 1] = h[c - 1] PROVE after[c] = h[c]
    <2>1. c \in 0 .. Barrels /\ c # 0
      OBVIOUS
    <2>2. after[c] = ChainHit(after[c - 1], b, c)
      BY <1>3, <2>1
    <2> QED BY <1>5, <2>2
  <1> DEFINE T == {c \in 0 .. Barrels : after[c] = h[c]}
  <1>6. 0 \in T /\ \A c \in 1 .. Barrels : c - 1 \in T => c \in T
    BY <1>4, <1>5
  <1>7. Barrels \in 0 .. Barrels
    OBVIOUS
  <1>8. Barrels \in T
    <2> HIDE DEF T
    <2> QED BY <1>6, <1>7, UpTo
  <1> QED BY <1>1, <1>8

(* The same of a rocket's blast.                                           *)
RocketRuns(h, f, taken) ==
  /\ h \in [0 .. Barrels -> EmittedCells] /\ h[0] = f
  /\ \A c \in 1 .. Barrels : h[c] = RocketHit(h[c - 1], taken, c)

(* The rocket's fold CHOOSEs a run of its hits.                            *)
LEMMA RocketUnfolds ==
  ASSUME Barrels \in Nat, NEW f, NEW taken, NEW h, RocketRuns(h, f, taken)
  PROVE  EmittedRocket(f, taken) = h[Barrels]
  <1> USE DEF RocketRuns
  <1> DEFINE Def(g) == [c \in 0 .. Barrels |-> IF c = 0 THEN f ELSE RocketHit(g[c - 1], taken, c)]
             after == CHOOSE g : g = Def(g)
  <1>1. EmittedRocket(f, taken) = after[Barrels]
    BY DEF EmittedRocket, RocketHits, RocketHit
  <1>2. h = Def(h)
    OBVIOUS
  <1>3. after = Def(after)
    <2> HIDE DEF Def
    <2> QED BY <1>2
  <1> HIDE DEF after
  <1>4. after[0] = h[0]
    BY <1>3
  <1>5. ASSUME NEW c \in 1 .. Barrels, after[c - 1] = h[c - 1] PROVE after[c] = h[c]
    <2>1. c \in 0 .. Barrels /\ c # 0
      OBVIOUS
    <2>2. after[c] = RocketHit(after[c - 1], taken, c)
      BY <1>3, <2>1
    <2> QED BY <1>5, <2>2
  <1> DEFINE T == {c \in 0 .. Barrels : after[c] = h[c]}
  <1>6. 0 \in T /\ \A c \in 1 .. Barrels : c - 1 \in T => c \in T
    BY <1>4, <1>5
  <1>7. Barrels \in 0 .. Barrels
    OBVIOUS
  <1>8. Barrels \in T
    <2> HIDE DEF T
    <2> QED BY <1>6, <1>7, UpTo
  <1> QED BY <1>1, <1>8

(***************************************************************************)
(* Levels and tables                                                       *)
(***************************************************************************)

(* What the assumptions say of the level played.                           *)
LEMMA LevelFacts ==
  ASSUME level \in Levels
  PROVE  /\ Barrels \in Nat /\ Standing \subseteq Item /\ Monsters \subseteq Nat
         /\ Reach \in [Item -> [Item -> 0 .. 128]] /\ \A b \in Item : Reach[b][b] = 0
         /\ Damages \subseteq 1 .. 255 /\ MonsterTics \in Nat \ {0}
         /\ Sources \subseteq Nat /\ NoSource \in Sources /\ OfPlayer \in Sources
         /\ \A m \in Monsters : Source(m) \in Sources
  <1>1. /\ Barrels \in Nat /\ Standing \subseteq Item /\ Monsters \subseteq Nat
        /\ Reach \in [Item -> [Item -> 0 .. 128]] /\ \A b \in Item : Reach[b][b] = 0
        /\ Damages \subseteq 1 .. 255 /\ MonsterTics \in Nat \ {0}
    BY BarrelsAssumption, Zenon DEF Barrels, Standing, Monsters, Reach, Damages, MonsterTics, Item
  <1>2. \A m \in Monsters : Source(m) \in Nat
    BY <1>1 DEF Source
  <1>3. Sources \subseteq Nat
    BY <1>2 DEF Sources, NoSource, OfPlayer
  <1> QED BY <1>1, <1>3 DEF Sources

(* A draw stays in its table, and no death roll is clamped.                *)
LEMMA DrawFacts ==
  ASSUME NEW rng \in 1 .. Len(Fxrnd)
  PROVE  /\ Drawn(rng) \in 1 .. Len(Fxrnd)
         /\ Fxrnd[Drawn(rng)] \in 0 .. 3
         /\ TicsOf[S_BEXP] - Fxrnd[Drawn(rng)] \in 1 .. 14
  <1>1. Len(Fxrnd) \in Nat \ {0}
    BY ModelRules
  <1>2. Drawn(rng) \in 1 .. Len(Fxrnd)
    BY <1>1 DEF Drawn
  <1>3. Fxrnd[Drawn(rng)] \in 0 .. 3
    BY <1>2, ModelRules
  <1>4. TicsOf[S_BEXP] \in 1 .. 14
    BY ModelRules DEF S_BEXP, S_BAR1, S_BEXP5
  <1> QED BY <1>2, <1>3, <1>4, ModelRules

(***************************************************************************)
(* One hit                                                                 *)
(***************************************************************************)

(* It can be hurt: it is there and has not been killed.                    *)
Alive(w, b) == w.st[b] # 0 /\ w.hp[b] > 0

(* What v is after w's barrel b took dmg from src.                         *)
HitTold(w, v, b, dmg, src) ==
  /\ v \in BarrelCells
  /\ v.solid = w.solid /\ v.rng = Drawn(w.rng)
  /\ v.hp[b] = Larger(w.hp[b] - dmg, BARREL_HEALTH_MIN)
  /\ v.st[b] = IF v.hp[b] <= 0 THEN S_BEXP ELSE w.st[b]
  /\ v.ti[b] = IF v.hp[b] <= 0 THEN TicsOf[S_BEXP] - Fxrnd[Drawn(w.rng)] ELSE w.ti[b]
  /\ v.src[b] = IF v.hp[b] > 0 /\ w.src[b] = NoSource THEN src ELSE w.src[b]
  /\ \A c \in Item \ {b} :
       v.st[c] = w.st[c] /\ v.ti[c] = w.ti[c] /\ v.hp[c] = w.hp[c] /\ v.src[c] = w.src[c]

(* damage_barrel on every barrel.                                          *)
LEMMA DamageTold ==
  ASSUME level \in Levels, NEW w \in BarrelCells, NEW b \in Item, NEW dmg \in 1 .. 255,
         NEW src \in Sources
  PROVE  /\ ~Alive(w, b) => DamageBarrel(w, b, dmg, src) = w
         /\ Alive(w, b) => HitTold(w, DamageBarrel(w, b, dmg, src), b, dmg, src)
  <1>1. /\ w.rng \in 1 .. Len(Fxrnd) /\ w.hp[b] \in BARREL_HEALTH_MIN .. SpawnHealth
        /\ w.hp[b] \in Int
    BY DEF BarrelCells, BARREL_HEALTH_MIN
  <1>2. ~Alive(w, b) => DamageBarrel(w, b, dmg, src) = w
    BY <1>1 DEF Alive, DamageBarrel
  <1> SUFFICES ASSUME Alive(w, b) PROVE HitTold(w, DamageBarrel(w, b, dmg, src), b, dmg, src)
    BY <1>2
  <1> DEFINE hurt == [w EXCEPT !.hp[b] = Larger(@ - dmg, BARREL_HEALTH_MIN), !.rng = Drawn(@)]
             roll == TicsOf[S_BEXP] - Fxrnd[Drawn(w.rng)]
             hp   == Larger(w.hp[b] - dmg, BARREL_HEALTH_MIN)
             gone == [hurt EXCEPT !.st[b] = S_BEXP, !.ti[b] = Larger(1, TicsOf[S_BEXP] - Fxrnd[hurt.rng])]
             hit  == [hurt EXCEPT !.src[b] = IF @ = NoSource THEN src ELSE @]
  <1>3. Drawn(w.rng) \in 1 .. Len(Fxrnd) /\ roll \in 1 .. 14
    BY <1>1, DrawFacts
  <1>4. hp \in BARREL_HEALTH_MIN .. SpawnHealth
    <2> DEFINE x == w.hp[b] - dmg
    <2>1. SpawnHealth \in 1 .. 127
      BY ModelRules
    <2>2. x \in Int /\ x <= SpawnHealth
      <3> HIDE DEF hurt, roll, gone, hit, hp
      <3> QED BY <1>1, <2>1 DEF BARREL_HEALTH_MIN
    <2>3. hp = Larger(x, BARREL_HEALTH_MIN)
      OBVIOUS
    <2> HIDE DEF hurt, roll, gone, hit, hp, x
    <2> QED BY <2>1, <2>2, <2>3 DEF Larger, BARREL_HEALTH_MIN
  <1>5. /\ hurt \in BarrelCells /\ hurt.hp = [w.hp EXCEPT ![b] = hp] /\ hurt.rng = Drawn(w.rng)
        /\ hurt.st = w.st /\ hurt.ti = w.ti /\ hurt.solid = w.solid /\ hurt.src = w.src
    <2>1. hurt = [w EXCEPT !.hp = [@ EXCEPT ![b] = hp], !.rng = Drawn(w.rng)]
      BY DEF BarrelCells
    <2>2. [w.hp EXCEPT ![b] = hp] \in [Item -> BARREL_HEALTH_MIN .. SpawnHealth]
      <3> HIDE DEF hp
      <3> QED BY <1>4 DEF BarrelCells
    <2> HIDE DEF hurt, hp
    <2> QED BY <1>3, <2>1, <2>2 DEF BarrelCells
  <1> HIDE DEF hurt, roll, hp
  <1>6. hurt.hp[b] = hp
    BY <1>5 DEF BarrelCells
  <1>7. DamageBarrel(w, b, dmg, src) = IF hp <= 0 THEN gone ELSE hit
    <2>1. ~(w.st[b] = 0 \/ w.hp[b] <= 0)
      BY <1>1 DEF Alive
    <2>2. DamageBarrel(w, b, dmg, src) = IF hurt.hp[b] <= 0 THEN gone ELSE hit
      BY <2>1 DEF DamageBarrel, hurt
    <2> QED BY <1>6, <2>2
  <1>8. CASE hp <= 0
    <2>1. Larger(1, TicsOf[S_BEXP] - Fxrnd[hurt.rng]) = roll
      BY <1>3, <1>5 DEF Larger, roll
    <2>2. gone = [hurt EXCEPT !.st = [w.st EXCEPT ![b] = S_BEXP], !.ti = [w.ti EXCEPT ![b] = roll]]
      BY <1>5, <2>1 DEF BarrelCells
    <2>3. [w.st EXCEPT ![b] = S_BEXP] \in [Item -> 0 .. S_BEXP5]
      BY DEF BarrelCells, S_BEXP, S_BEXP5
    <2>4. [w.ti EXCEPT ![b] = roll] \in [Item -> 0 .. 14]
      BY <1>3 DEF BarrelCells
    <2> HIDE DEF gone
    <2>5. /\ gone \in BarrelCells /\ gone.st = [w.st EXCEPT ![b] = S_BEXP]
          /\ gone.ti = [w.ti EXCEPT ![b] = roll]
          /\ gone.hp = hurt.hp /\ gone.rng = hurt.rng /\ gone.solid = w.solid /\ gone.src = w.src
      BY <1>5, <2>2, <2>3, <2>4 DEF BarrelCells
    <2>6. DamageBarrel(w, b, dmg, src) = gone
      BY <1>7, <1>8
    <2> QED BY <2>5, <2>6, <1>5, <1>6, <1>8 DEF HitTold, BarrelCells, hp, roll
  <1>9. CASE ~(hp <= 0)
    <2>1. /\ hit \in BarrelCells
          /\ hit.src = [w.src EXCEPT ![b] = IF @ = NoSource THEN src ELSE @]
          /\ hit.hp = hurt.hp /\ hit.rng = hurt.rng /\ hit.solid = w.solid /\ hit.st = w.st /\ hit.ti = w.ti
      BY <1>5 DEF BarrelCells
    <2> HIDE DEF hit
    <2>2. DamageBarrel(w, b, dmg, src) = hit
      BY <1>7, <1>9
    <2>3. hp > 0
      BY <1>4, <1>9 DEF BARREL_HEALTH_MIN
    <2> QED BY <2>1, <2>2, <2>3, <1>5, <1>6, <1>9 DEF HitTold, BarrelCells, hp
  <1> QED BY <1>8, <1>9

(***************************************************************************)
(* The emitted hit                                                         *)
(***************************************************************************)

(* What x is after bd_leaf worked g's window.                              *)
LeafTold(g, x, dmg) ==
  LET t == Larger(g.bw.hp - dmg, BARREL_HEALTH_MIN)
  IN  /\ x \in EmittedCells
      /\ x.st = g.st /\ x.ti = g.ti /\ x.hp = g.hp /\ x.solid = g.solid /\ x.src = g.src
      /\ x.vis = g.vis /\ x.bdsrc = g.bdsrc /\ x.rng = Drawn(g.rng)
      /\ x.bw.hp = t % 256
      /\ x.bw.st = IF t > 0 THEN g.bw.st ELSE S_BEXP
      /\ x.bw.ti = IF t > 0 THEN g.bw.ti ELSE TicsOf[S_BEXP] - Fxrnd[Drawn(g.rng)]
      /\ x.bw.sr = IF t > 0 /\ g.bw.sr = NoSource THEN g.bdsrc ELSE g.bw.sr

(* bd_leaf on every window; no cell leaves its width.                      *)
LEMMA LeafWorks ==
  ASSUME level \in Levels, NEW g \in EmittedCells, NEW dmg \in 1 .. 255
  PROVE  IF g.bw.st = 0 \/ Signed(g.bw.hp) <= 0 THEN BdLeaf(g, dmg) = g
         ELSE LeafTold(g, BdLeaf(g, dmg), dmg)
  <1>1. CASE g.bw.st = 0 \/ Signed(g.bw.hp) <= 0
    BY <1>1, Zenon DEF BdLeaf
  <1>2. CASE ~(g.bw.st = 0 \/ Signed(g.bw.hp) <= 0)
    <2> DEFINE t    == Larger(g.bw.hp - dmg, BARREL_HEALTH_MIN)
               roll == TicsOf[S_BEXP] - Fxrnd[Drawn(g.rng)]
               hurt == [g EXCEPT !.bw.hp = t % 256, !.rng = Drawn(@)]
               kept == [hurt EXCEPT !.bw.sr = IF @ = NoSource THEN g.bdsrc ELSE @]
               gone == [hurt EXCEPT !.bw.st = S_BEXP, !.bw.ti = (TicsOf[S_BEXP] - Fxrnd[hurt.rng]) % 16]
               win  == [g.bw EXCEPT !.hp = t % 256]
    <2>1. g.rng \in 1 .. Len(Fxrnd) /\ g.bw.hp \in 0 .. 255 /\ g.bdsrc \in Sources
          /\ g.bw \in Window
      BY DEF EmittedCells, Window
    <2>2. Drawn(g.rng) \in 1 .. Len(Fxrnd) /\ roll \in 1 .. 14
      BY <2>1, DrawFacts
    <2>3. t \in Int /\ t % 256 \in 0 .. 255
      <3> HIDE DEF roll, hurt, kept, gone, win
      <3>1. t \in Int
        <4> DEFINE d == g.bw.hp - dmg
        <4>1. d \in Int
          <5>1. g.bw.hp \in 0 .. 255
            BY <2>1, Zenon
          <5> QED BY <5>1
        <4> HIDE DEF d
        <4>2. Larger(d, BARREL_HEALTH_MIN) \in Int
          BY <4>1 DEF Larger, BARREL_HEALTH_MIN
        <4> QED BY <4>2 DEF d
      <3> HIDE DEF t
      <3> QED BY <3>1
    <2>4. hurt = [g EXCEPT !.bw = win, !.rng = Drawn(g.rng)]
      BY DEF EmittedCells
    <2>5. BdLeaf(g, dmg) = IF t > 0 THEN kept ELSE gone
      BY <1>2, Zenon DEF BdLeaf
    <2> HIDE DEF hurt
    <2>6. /\ win \in Window
          /\ win.hp = t % 256 /\ win.st = g.bw.st /\ win.ti = g.bw.ti /\ win.sr = g.bw.sr
      <3> HIDE DEF t
      <3> QED BY <2>1, <2>3 DEF Window
    <2> HIDE DEF win
    <2>7. /\ hurt \in EmittedCells /\ hurt.bw = win /\ hurt.rng = Drawn(g.rng)
          /\ hurt.st = g.st /\ hurt.ti = g.ti /\ hurt.hp = g.hp /\ hurt.solid = g.solid
          /\ hurt.src = g.src /\ hurt.vis = g.vis /\ hurt.bdsrc = g.bdsrc
      BY <2>2, <2>4, <2>6 DEF EmittedCells
    <2>8. CASE t > 0
      <3> DEFINE x == [win EXCEPT !.sr = IF @ = NoSource THEN g.bdsrc ELSE @]
      <3>1. kept = [hurt EXCEPT !.bw = x]
        BY <2>7
      <3>2. /\ x \in Window
            /\ x.hp = win.hp /\ x.st = win.st /\ x.ti = win.ti
            /\ x.sr = IF win.sr = NoSource THEN g.bdsrc ELSE win.sr
        BY <2>1, <2>6 DEF Window
      <3> HIDE DEF x, kept
      <3>3. /\ kept \in EmittedCells /\ kept.bw = x /\ kept.rng = Drawn(g.rng)
            /\ kept.st = g.st /\ kept.ti = g.ti /\ kept.hp = g.hp /\ kept.solid = g.solid
            /\ kept.src = g.src /\ kept.vis = g.vis /\ kept.bdsrc = g.bdsrc
        BY <2>7, <3>1, <3>2 DEF EmittedCells
      <3>4. BdLeaf(g, dmg) = kept
        BY <2>5, <2>8
      <3>5. LeafTold(g, kept, dmg)
        BY <2>6, <2>8, <3>2, <3>3, Zenon DEF LeafTold
      <3> QED BY <1>2, <3>4, <3>5
    <2>9. CASE ~(t > 0)
      <3> DEFINE x == [win EXCEPT !.st = S_BEXP, !.ti = roll]
      <3>1. (TicsOf[S_BEXP] - Fxrnd[hurt.rng]) % 16 = roll
        <4>1. TicsOf[S_BEXP] - Fxrnd[hurt.rng] = roll
          BY <2>7
        <4>2. roll % 16 = roll
          <5> HIDE DEF roll
          <5> QED BY <2>2
        <4> QED BY <4>1, <4>2
      <3>2. gone = [hurt EXCEPT !.bw = x]
        BY <2>7, <3>1
      <3> HIDE DEF roll
      <3>3. /\ x \in Window
            /\ x.hp = win.hp /\ x.st = S_BEXP /\ x.ti = roll /\ x.sr = win.sr
        <4>1. roll \in 0 .. 15 /\ S_BEXP \in 0 .. S_BEXP5
          BY <2>2 DEF S_BEXP, S_BEXP5
        <4>2. win \in Window
          BY <2>6
        <4> DEFINE Sts == 0 .. S_BEXP5
                   Tis == 0 .. 15
                   Hps == 0 .. 255
        <4> HIDE DEF Sts, Tis, Hps
        <4>3. /\ x \in [st : Sts, ti : Tis, hp : Hps, sr : Sources]
              /\ x.hp = win.hp /\ x.st = S_BEXP /\ x.ti = roll /\ x.sr = win.sr
          <5>1. win \in [st : Sts, ti : Tis, hp : Hps, sr : Sources]
            BY <4>2 DEF Sts, Tis, Hps, Window
          <5>2. roll \in Tis /\ S_BEXP \in Sts
            BY <4>1 DEF Sts, Tis
          <5> QED BY <5>1, <5>2
        <4> QED BY <4>3 DEF Sts, Tis, Hps, Window
      <3> HIDE DEF x, gone
      <3>4. /\ gone \in EmittedCells /\ gone.bw = x /\ gone.rng = Drawn(g.rng)
            /\ gone.st = g.st /\ gone.ti = g.ti /\ gone.hp = g.hp /\ gone.solid = g.solid
            /\ gone.src = g.src /\ gone.vis = g.vis /\ gone.bdsrc = g.bdsrc
        BY <2>7, <3>2, <3>3 DEF EmittedCells
      <3>5. BdLeaf(g, dmg) = gone
        BY <2>5, <2>9
      <3>6. LeafTold(g, gone, dmg)
        <4>1. /\ gone.bw.hp = t % 256 /\ gone.bw.st = S_BEXP /\ gone.bw.ti = roll
              /\ gone.bw.sr = g.bw.sr
          BY <2>6, <3>3, <3>4, Zenon
        <4> QED BY <2>9, <3>4, <4>1, Zenon DEF LeafTold, roll
      <3> QED BY <1>2, <3>5, <3>6
    <2> QED BY <2>8, <2>9
  <1> QED BY <1>1, <1>2

(* What v is after f's barrel c went in, was worked and came out.          *)
BdmTold(f, v, c, dmg) ==
  LET t == Larger(f.hp[c] - dmg, BARREL_HEALTH_MIN)
  IN  /\ v \in EmittedCells
      /\ v.solid = f.solid /\ v.vis = f.vis
      /\ \A d \in Item \ {c} :
           v.st[d] = f.st[d] /\ v.ti[d] = f.ti[d] /\ v.hp[d] = f.hp[d] /\ v.src[d] = f.src[d]
      /\ IF f.st[c] = 0 \/ Signed(f.hp[c]) <= 0
         THEN /\ v.rng = f.rng
              /\ v.st[c] = f.st[c] /\ v.ti[c] = f.ti[c] /\ v.hp[c] = f.hp[c] /\ v.src[c] = f.src[c]
         ELSE /\ v.rng = Drawn(f.rng)
              /\ v.hp[c] = t % 256
              /\ v.st[c] = IF t > 0 THEN f.st[c] ELSE S_BEXP
              /\ v.ti[c] = IF t > 0 THEN f.ti[c] ELSE TicsOf[S_BEXP] - Fxrnd[Drawn(f.rng)]
              /\ v.src[c] = IF t > 0 /\ f.src[c] = NoSource THEN f.bdsrc ELSE f.src[c]

(* bdm<c> changes no barrel but c.                                         *)
LEMMA BdmWorks ==
  ASSUME level \in Levels, NEW f \in EmittedCells, NEW c \in Item, NEW dmg \in 1 .. 255
  PROVE  BdmTold(f, Bdm(f, c, dmg), c, dmg)
  <1> DEFINE win == [st |-> f.st[c], ti |-> f.ti[c], hp |-> f.hp[c], sr |-> f.src[c]]
             g   == [f EXCEPT !.bw = win]
             x   == BdLeaf(g, dmg)
             v   == [x EXCEPT !.st[c] = x.bw.st, !.ti[c] = x.bw.ti, !.hp[c] = x.bw.hp, !.src[c] = x.bw.sr]
  <1>1. Bdm(f, c, dmg) = v
    BY Zenon DEF Bdm
  <1>2. win \in Window
    BY DEF EmittedCells, Window
  <1>3. /\ win.st = f.st[c] /\ win.ti = f.ti[c] /\ win.hp = f.hp[c] /\ win.sr = f.src[c]
    OBVIOUS
  <1> HIDE DEF win
  <1>4. /\ g \in EmittedCells /\ g.bw = win /\ g.st = f.st /\ g.ti = f.ti /\ g.hp = f.hp
        /\ g.solid = f.solid /\ g.src = f.src /\ g.vis = f.vis /\ g.bdsrc = f.bdsrc /\ g.rng = f.rng
    BY <1>2 DEF EmittedCells
  <1> HIDE DEF g
  <1>5. IF g.bw.st = 0 \/ Signed(g.bw.hp) <= 0 THEN x = g ELSE LeafTold(g, x, dmg)
    BY <1>4, LeafWorks
  <1> HIDE DEF x
  <1>6. x \in EmittedCells /\ x.solid = f.solid /\ x.vis = f.vis
        /\ x.st = f.st /\ x.ti = f.ti /\ x.hp = f.hp /\ x.src = f.src
    BY <1>4, <1>5, Zenon DEF LeafTold
  <1>7. v = [x EXCEPT !.st = [f.st EXCEPT ![c] = x.bw.st], !.ti = [f.ti EXCEPT ![c] = x.bw.ti],
                      !.hp = [f.hp EXCEPT ![c] = x.bw.hp], !.src = [f.src EXCEPT ![c] = x.bw.sr]]
    BY <1>6 DEF EmittedCells
  <1>8. /\ [f.st EXCEPT ![c] = x.bw.st] \in [Item -> 0 .. S_BEXP5]
        /\ [f.ti EXCEPT ![c] = x.bw.ti] \in [Item -> 0 .. 15]
        /\ [f.hp EXCEPT ![c] = x.bw.hp] \in [Item -> 0 .. 255]
        /\ [f.src EXCEPT ![c] = x.bw.sr] \in [Item -> Sources]
    BY <1>6 DEF EmittedCells, Window
  <1> HIDE DEF v
  <1>9. /\ v \in EmittedCells /\ v.solid = f.solid /\ v.vis = f.vis /\ v.rng = x.rng
        /\ v.st = [f.st EXCEPT ![c] = x.bw.st] /\ v.ti = [f.ti EXCEPT ![c] = x.bw.ti]
        /\ v.hp = [f.hp EXCEPT ![c] = x.bw.hp] /\ v.src = [f.src EXCEPT ![c] = x.bw.sr]
    BY <1>6, <1>7, <1>8 DEF EmittedCells
  <1>10. /\ v.st[c] = x.bw.st /\ v.ti[c] = x.bw.ti /\ v.hp[c] = x.bw.hp /\ v.src[c] = x.bw.sr
         /\ \A d \in Item \ {c} :
             v.st[d] = f.st[d] /\ v.ti[d] = f.ti[d] /\ v.hp[d] = f.hp[d] /\ v.src[d] = f.src[d]
    BY <1>9 DEF EmittedCells
  <1>11. CASE f.st[c] = 0 \/ Signed(f.hp[c]) <= 0
    <2>1. x = g
      BY <1>3, <1>4, <1>5, <1>11, Zenon
    <2> QED BY <1>1, <1>3, <1>4, <1>9, <1>10, <1>11, <2>1, Zenon DEF BdmTold
  <1>12. CASE ~(f.st[c] = 0 \/ Signed(f.hp[c]) <= 0)
    <2>1. LeafTold(g, x, dmg)
      BY <1>3, <1>4, <1>5, <1>12, Zenon
    <2> DEFINE t == Larger(f.hp[c] - dmg, BARREL_HEALTH_MIN)
    <2>2. /\ x.rng = Drawn(f.rng) /\ x.bw.hp = t % 256
          /\ x.bw.st = IF t > 0 THEN f.st[c] ELSE S_BEXP
          /\ x.bw.ti = IF t > 0 THEN f.ti[c] ELSE TicsOf[S_BEXP] - Fxrnd[Drawn(f.rng)]
          /\ x.bw.sr = IF t > 0 /\ f.src[c] = NoSource THEN f.bdsrc ELSE f.src[c]
      BY <1>3, <1>4, <2>1, Zenon DEF LeafTold
    <2> QED BY <1>1, <1>9, <1>10, <1>12, <2>2, Zenon DEF BdmTold
  <1> QED BY <1>11, <1>12

(* BinaryIsModel of any model's and emitted cells.                         *)
Alike(w, f) ==
  /\ w \in BarrelCells /\ f \in EmittedCells /\ f.rng = w.rng
  /\ \A b \in Item : /\ f.st[b] = w.st[b] /\ f.ti[b] = w.ti[b] /\ Signed(f.hp[b]) = w.hp[b]
                     /\ f.solid[b] = w.solid[b] /\ f.src[b] = w.src[b]
                     /\ (f.vis[b] = 1 <=> w.st[b] # 0)

(* What an 8-bit cell gives back.                                          *)
LEMMA SignedCell ==
  ASSUME NEW t \in -128 .. 127
  PROVE  Signed(t % 256) = t
  <1>1. CASE t >= 0
    BY <1>1 DEF Signed
  <1>2. CASE t < 0
    <2>1. t % 256 = t + 256
      BY <1>2
    <2> QED BY <1>2, <2>1 DEF Signed
  <1> QED BY <1>1, <1>2

(* One hit keeps them alike: the 12-bit difference saturates as the        *)
(* model's does.                                                           *)
LEMMA HitAlike ==
  ASSUME level \in Levels, NEW w, NEW f, Alike(w, f), NEW c \in Item, NEW dmg \in 1 .. 255
  PROVE  Alike(DamageBarrel(w, c, dmg, f.bdsrc), Bdm(f, c, dmg))
  <1> DEFINE u == DamageBarrel(w, c, dmg, f.bdsrc)
             v == Bdm(f, c, dmg)
             t == Larger(w.hp[c] - dmg, BARREL_HEALTH_MIN)
  <1>1. w \in BarrelCells /\ f \in EmittedCells /\ f.bdsrc \in Sources
    BY DEF Alike, EmittedCells
  <1>2. BdmTold(f, v, c, dmg)
    BY <1>1, BdmWorks
  <1>3. /\ ~Alive(w, c) => u = w
        /\ Alive(w, c) => HitTold(w, u, c, dmg, f.bdsrc)
    BY <1>1, DamageTold
  <1>4. w.hp[c] \in BARREL_HEALTH_MIN .. SpawnHealth /\ SpawnHealth \in 1 .. 127 /\ f.hp[c] \in 0 .. 255
    BY <1>1, ModelRules DEF BarrelCells, EmittedCells
  <1> HIDE DEF u, v
  <1>5. f.st[c] = w.st[c] /\ Signed(f.hp[c]) = w.hp[c]
    BY DEF Alike
  <1>6. CASE ~Alive(w, c)
    <2>1. f.st[c] = 0 \/ Signed(f.hp[c]) <= 0
      BY <1>4, <1>5, <1>6 DEF Alive, BARREL_HEALTH_MIN
    <2>2. v \in EmittedCells /\ v.solid = f.solid /\ v.vis = f.vis /\ v.rng = f.rng
      BY <1>2, <2>1, Zenon DEF BdmTold
    <2>3. \A b \in Item : v.st[b] = f.st[b] /\ v.ti[b] = f.ti[b] /\ v.hp[b] = f.hp[b] /\ v.src[b] = f.src[b]
      BY <1>2, <2>1, Zenon DEF BdmTold
    <2>4. u = w
      BY <1>3, <1>6
    <2>5. Alike(w, v)
      BY <1>1, <2>2, <2>3 DEF Alike
    <2> QED BY <2>4, <2>5 DEF u, v
  <1>7. CASE Alive(w, c)
    <2>1. ~(f.st[c] = 0 \/ Signed(f.hp[c]) <= 0) /\ f.hp[c] = w.hp[c]
      <3> HIDE DEF t
      <3>1. w.hp[c] > 0 /\ w.st[c] # 0
        BY <1>7 DEF Alive
      <3>2. f.hp[c] \in 0 .. 255 /\ w.hp[c] \in Int
        BY <1>4 DEF BARREL_HEALTH_MIN
      <3>3. f.hp[c] = w.hp[c]
        BY <1>5, <3>1, <3>2 DEF Signed
      <3>4. ~(Signed(f.hp[c]) <= 0)
        BY <1>5, <3>1, <3>2
      <3> QED BY <1>5, <3>1, <3>3, <3>4, Zenon
    <2>2. HitTold(w, u, c, dmg, f.bdsrc)
      BY <1>3, <1>7
    <2>3. t \in -128 .. 127 /\ (t > 0 <=> ~(t <= 0))
      <3> DEFINE d == w.hp[c] - dmg
      <3>1. w.hp[c] \in -128 .. 127
        <4> HIDE DEF t, d
        <4> QED BY <1>4 DEF BARREL_HEALTH_MIN
      <3>2. d \in Int /\ d <= 127
        <4> HIDE DEF t
        <4> QED BY <3>1
      <3> HIDE DEF d
      <3>3. t = Larger(d, BARREL_HEALTH_MIN)
        BY DEF d
      <3> HIDE DEF t
      <3> QED BY <3>2, <3>3 DEF Larger, BARREL_HEALTH_MIN
    <2> HIDE DEF t
    <2>4. Signed(t % 256) = t
      BY <2>3, SignedCell
    <2>5. /\ u \in BarrelCells /\ u.solid = w.solid /\ u.rng = Drawn(w.rng) /\ u.hp[c] = t
          /\ u.st[c] = IF t <= 0 THEN S_BEXP ELSE w.st[c]
          /\ u.ti[c] = IF t <= 0 THEN TicsOf[S_BEXP] - Fxrnd[Drawn(w.rng)] ELSE w.ti[c]
          /\ u.src[c] = IF t > 0 /\ w.src[c] = NoSource THEN f.bdsrc ELSE w.src[c]
      BY <2>2, Zenon DEF HitTold, t
    <2>6. /\ v \in EmittedCells /\ v.solid = f.solid /\ v.vis = f.vis /\ v.rng = Drawn(f.rng)
          /\ v.hp[c] = t % 256
          /\ v.st[c] = IF t > 0 THEN f.st[c] ELSE S_BEXP
          /\ v.ti[c] = IF t > 0 THEN f.ti[c] ELSE TicsOf[S_BEXP] - Fxrnd[Drawn(f.rng)]
          /\ v.src[c] = IF t > 0 /\ f.src[c] = NoSource THEN f.bdsrc ELSE f.src[c]
      BY <1>2, <2>1, Zenon DEF BdmTold, t
    <2>7. \A b \in Item \ {c} :
            /\ u.st[b] = w.st[b] /\ u.ti[b] = w.ti[b] /\ u.hp[b] = w.hp[b] /\ u.src[b] = w.src[b]
            /\ v.st[b] = f.st[b] /\ v.ti[b] = f.ti[b] /\ v.hp[b] = f.hp[b] /\ v.src[b] = f.src[b]
      BY <1>2, <2>2, Zenon DEF HitTold, BdmTold
    <2>8. ASSUME NEW b \in Item
          PROVE  /\ v.st[b] = u.st[b] /\ v.ti[b] = u.ti[b] /\ Signed(v.hp[b]) = u.hp[b]
                 /\ v.solid[b] = u.solid[b] /\ v.src[b] = u.src[b]
                 /\ (v.vis[b] = 1 <=> u.st[b] # 0)
      <3>0. /\ f.st[b] = w.st[b] /\ f.ti[b] = w.ti[b] /\ Signed(f.hp[b]) = w.hp[b]
            /\ f.solid[b] = w.solid[b] /\ f.src[b] = w.src[b] /\ f.rng = w.rng
            /\ (f.vis[b] = 1 <=> w.st[b] # 0)
        BY Zenon DEF Alike
      <3>1. CASE b # c
        BY <2>5, <2>6, <2>7, <3>0, <3>1, Zenon
      <3>2. CASE b = c
        <4>1. S_BEXP # 0 /\ w.st[c] # 0
          BY <1>7 DEF S_BEXP, Alive
        <4>2. CASE t > 0
          BY <2>3, <2>4, <2>5, <2>6, <3>0, <3>2, <4>1, <4>2, Zenon
        <4>3. CASE ~(t > 0)
          BY <2>3, <2>4, <2>5, <2>6, <3>0, <3>2, <4>1, <4>3, Zenon
        <4> QED BY <4>2, <4>3
      <3> QED BY <3>1, <3>2
    <2>9. v.rng = u.rng
      BY <2>5, <2>6, Zenon DEF Alike
    <2> QED BY <2>5, <2>6, <2>8, <2>9, Zenon DEF Alike, u, v
  <1> QED BY <1>6, <1>7

(***************************************************************************)
(* Blasts                                                                  *)
(***************************************************************************)

(* Each fold has its run.                                                  *)
LEMMA DamageEachRuns ==
  ASSUME level \in Levels, NEW w \in BarrelCells, NEW taken \in [Item -> 0 .. 255], NEW src \in Sources
  PROVE  \E h : EachRuns(h, w, taken, src) /\ DamageEach(w, taken, src) = h[Barrels]
  <1> DEFINE G == [c \in 1 .. Barrels |-> [x \in BarrelCells |-> EachHit(x, taken, src, c)]]
  <1>1. Barrels \in Nat /\ Item = 1 .. Barrels
    BY LevelFacts DEF Item
  <1>2. ASSUME NEW c \in Item, NEW x \in BarrelCells PROVE EachHit(x, taken, src, c) \in BarrelCells
    <2>1. CASE taken[c] = 0
      BY <2>1 DEF EachHit
    <2>2. CASE taken[c] # 0
      <3>1. taken[c] \in 1 .. 255
        <4>1. taken[c] \in 0 .. 255
          OBVIOUS
        <4> QED BY <2>2, <4>1
      <3>2. DamageBarrel(x, c, taken[c], src) \in BarrelCells
        <4> DEFINE d == taken[c]
        <4>1. d \in 1 .. 255
          BY <3>1
        <4> HIDE DEF d
        <4>2. DamageBarrel(x, c, d, src) \in BarrelCells
          <5>1. /\ ~Alive(x, c) => DamageBarrel(x, c, d, src) = x
                /\ Alive(x, c) => HitTold(x, DamageBarrel(x, c, d, src), c, d, src)
            BY <4>1, DamageTold
          <5> QED BY <5>1, Zenon DEF HitTold
        <4> QED BY <4>2 DEF d
      <3> QED BY <2>2, <3>2 DEF EachHit
    <2> QED BY <2>1, <2>2
  <1>3. Maps(G, Barrels, BarrelCells)
    BY <1>1, <1>2 DEF Maps
  <1>4. PICK h : Iterate(h, Barrels, BarrelCells, w, G)
    <2> HIDE DEF G
    <2> QED BY <1>1, <1>3, Iterates
  <1>5. ASSUME NEW c \in 1 .. Barrels PROVE h[c] = EachHit(h[c - 1], taken, src, c)
    <2>1. c - 1 \in 0 .. Barrels
      BY <1>1
    <2>2. h[c - 1] \in BarrelCells
      BY <1>4, <2>1 DEF Iterate
    <2>3. h[c] = G[c][h[c - 1]]
      <3> HIDE DEF G
      <3> QED BY <1>4 DEF Iterate
    <2> QED BY <2>2, <2>3
  <1>6. EachRuns(h, w, taken, src)
    BY <1>4, <1>5 DEF EachRuns, Iterate
  <1> QED BY <1>1, <1>6, DamageEachUnfolds

(* The chain is hits of the others in its reach, one by one.               *)
LEMMA ChainRunsOn ==
  ASSUME level \in Levels, NEW f \in EmittedCells, NEW b \in Item
  PROVE  \E g : ChainRuns(g, f, b) /\ Chain(f, b) = g[Barrels]
  <1> DEFINE G == [c \in 1 .. Barrels |-> [x \in EmittedCells |-> ChainHit(x, b, c)]]
  <1>1. Barrels \in Nat /\ Item = 1 .. Barrels
    BY LevelFacts DEF Item
  <1>2. ASSUME NEW c \in Item, NEW x \in EmittedCells PROVE ChainHit(x, b, c) \in EmittedCells
    <2> DEFINE d == Reach[b][c]
               y == [x EXCEPT !.bdsrc = x.src[b]]
    <2>1. y \in EmittedCells
      BY LevelFacts DEF EmittedCells
    <2>2. CASE Reach[b][c] = 0
      BY <2>2 DEF ChainHit
    <2>3. CASE ~(Reach[b][c] = 0)
      <3>1. d \in 1 .. 255
        BY <2>3, LevelFacts
      <3> HIDE DEF d, y
      <3>2. Bdm(y, c, d) \in EmittedCells
        BY <2>1, <3>1, BdmWorks DEF BdmTold
      <3> QED BY <2>3, <3>2 DEF ChainHit, d, y
    <2> QED BY <2>2, <2>3
  <1>3. Maps(G, Barrels, EmittedCells)
    BY <1>1, <1>2 DEF Maps
  <1>4. PICK g : Iterate(g, Barrels, EmittedCells, f, G)
    <2> HIDE DEF G
    <2> QED BY <1>1, <1>3, Iterates
  <1>5. ASSUME NEW c \in 1 .. Barrels PROVE g[c] = ChainHit(g[c - 1], b, c)
    <2>1. c - 1 \in 0 .. Barrels
      BY <1>1
    <2>2. g[c - 1] \in EmittedCells
      BY <1>4, <2>1 DEF Iterate
    <2>3. g[c] = G[c][g[c - 1]]
      <3> HIDE DEF G
      <3> QED BY <1>4 DEF Iterate
    <2> QED BY <2>2, <2>3
  <1>6. ChainRuns(g, f, b)
    BY <1>4, <1>5 DEF ChainRuns, Iterate
  <1> QED BY <1>1, <1>6, ChainUnfolds

(* So is a rocket's blast, over those it reaches.                          *)
LEMMA RocketRunsOn ==
  ASSUME level \in Levels, NEW f \in EmittedCells, NEW taken \in [Item -> 0 .. 255]
  PROVE  \E g : RocketRuns(g, f, taken) /\ EmittedRocket(f, taken) = g[Barrels]
  <1> DEFINE G == [c \in 1 .. Barrels |-> [x \in EmittedCells |-> RocketHit(x, taken, c)]]
  <1>1. Barrels \in Nat /\ Item = 1 .. Barrels
    BY LevelFacts DEF Item
  <1>2. ASSUME NEW c \in Item, NEW x \in EmittedCells PROVE RocketHit(x, taken, c) \in EmittedCells
    <2> DEFINE d == taken[c]
               y == [x EXCEPT !.bdsrc = OfPlayer]
    <2>1. y \in EmittedCells
      BY LevelFacts DEF EmittedCells
    <2>2. CASE ~RocketHits(x, taken, c)
      BY <2>2 DEF RocketHit
    <2>3. CASE ~(~RocketHits(x, taken, c))
      <3>1. d \in 1 .. 255
        BY <2>3 DEF RocketHits
      <3> HIDE DEF d, y
      <3>2. Bdm(y, c, d) \in EmittedCells
        BY <2>1, <3>1, BdmWorks DEF BdmTold
      <3> QED BY <2>3, <3>2 DEF RocketHit, d, y
    <2> QED BY <2>2, <2>3
  <1>3. Maps(G, Barrels, EmittedCells)
    BY <1>1, <1>2 DEF Maps
  <1>4. PICK g : Iterate(g, Barrels, EmittedCells, f, G)
    <2> HIDE DEF G
    <2> QED BY <1>1, <1>3, Iterates
  <1>5. ASSUME NEW c \in 1 .. Barrels PROVE g[c] = RocketHit(g[c - 1], taken, c)
    <2>1. c - 1 \in 0 .. Barrels
      BY <1>1
    <2>2. g[c - 1] \in EmittedCells
      BY <1>4, <2>1 DEF Iterate
    <2>3. g[c] = G[c][g[c - 1]]
      <3> HIDE DEF G
      <3> QED BY <1>4 DEF Iterate
    <2> QED BY <2>2, <2>3
  <1>6. RocketRuns(g, f, taken)
    BY <1>4, <1>5 DEF RocketRuns, Iterate
  <1> QED BY <1>1, <1>6, RocketUnfolds

(***************************************************************************)
(* What a blast leaves of each barrel                                      *)
(***************************************************************************)

(* What one hit, or a whole blast, may do to a barrel.                     *)
Untouched(w, v, b) == v.st[b] = w.st[b] /\ v.ti[b] = w.ti[b] /\ v.hp[b] = w.hp[b] /\ v.src[b] = w.src[b]

Killed(w, v, b) ==
  /\ Alive(w, b)
  /\ v.st[b] = S_BEXP /\ v.ti[b] \in 1 .. TicsOf[S_BEXP] /\ v.hp[b] <= 0 /\ v.src[b] = w.src[b]

Hurt(w, v, b) ==
  /\ Alive(w, b)
  /\ v.st[b] = w.st[b] /\ v.ti[b] = w.ti[b] /\ v.hp[b] < w.hp[b] /\ v.hp[b] > 0
  /\ v.src[b] # w.src[b] => w.src[b] = NoSource

OnceHit(w, v, b) == Untouched(w, v, b) \/ Killed(w, v, b) \/ Hurt(w, v, b)

(* A hit is one of these to its barrel and nothing to the others.          *)
LEMMA OneHit ==
  ASSUME level \in Levels, NEW w \in BarrelCells, NEW b \in Item, NEW dmg \in 1 .. 255, NEW src \in Sources
  PROVE  LET v == DamageBarrel(w, b, dmg, src)
         IN  /\ v \in BarrelCells /\ v.solid = w.solid /\ OnceHit(w, v, b)
             /\ \A c \in Item \ {b} : Untouched(w, v, c)
  <1> DEFINE v == DamageBarrel(w, b, dmg, src)
  <1>1. /\ ~Alive(w, b) => v = w
        /\ Alive(w, b) => HitTold(w, v, b, dmg, src)
    BY DamageTold
  <1> HIDE DEF v
  <1> SUFFICES /\ v \in BarrelCells /\ v.solid = w.solid /\ OnceHit(w, v, b)
               /\ \A c \in Item \ {b} : Untouched(w, v, c)
    BY DEF v
  <1>2. CASE ~Alive(w, b)
    BY <1>1, <1>2, Zenon DEF OnceHit, Untouched
  <1>3. CASE Alive(w, b)
    <2>1. HitTold(w, v, b, dmg, src)
      BY <1>1, <1>3
    <2>2. v \in BarrelCells /\ v.solid = w.solid /\ \A c \in Item \ {b} : Untouched(w, v, c)
      BY <2>1, Zenon DEF HitTold, Untouched
    <2>3. w.hp[b] \in Int /\ w.hp[b] > 0 /\ v.hp[b] \in Int /\ w.rng \in 1 .. Len(Fxrnd)
      BY <1>3, <2>2 DEF Alive, BarrelCells, BARREL_HEALTH_MIN
    <2>4. CASE v.hp[b] <= 0
      <3>1. v.st[b] = S_BEXP /\ v.ti[b] = TicsOf[S_BEXP] - Fxrnd[Drawn(w.rng)]
        BY <2>1, <2>4, Zenon DEF HitTold
      <3>2. ~(v.hp[b] > 0)
        BY <2>3, <2>4
      <3>3. v.src[b] = w.src[b]
        BY <2>1, <3>2, Zenon DEF HitTold
      <3>4. v.ti[b] \in 1 .. TicsOf[S_BEXP]
        <4>1. Fxrnd[Drawn(w.rng)] \in 0 .. 3 /\ TicsOf[S_BEXP] - Fxrnd[Drawn(w.rng)] \in 1 .. 14
          BY <2>3, DrawFacts
        <4>2. TicsOf[S_BEXP] \in 1 .. 14
          BY ModelRules DEF S_BEXP, S_BAR1, S_BEXP5
        <4> QED BY <3>1, <4>1, <4>2
      <3> QED BY <1>3, <2>2, <2>4, <3>1, <3>3, <3>4, Zenon DEF OnceHit, Killed
    <2>5. CASE ~(v.hp[b] <= 0)
      <3>1. v.st[b] = w.st[b] /\ v.ti[b] = w.ti[b] /\ (v.src[b] # w.src[b] => w.src[b] = NoSource)
        BY <2>1, <2>5, Zenon DEF HitTold
      <3>2. v.hp[b] = Larger(w.hp[b] - dmg, BARREL_HEALTH_MIN)
        BY <2>1, Zenon DEF HitTold
      <3>3. v.hp[b] > 0 /\ v.hp[b] < w.hp[b]
        BY <2>3, <2>5, <3>2 DEF Larger, BARREL_HEALTH_MIN
      <3> QED BY <1>3, <2>2, <3>1, <3>3, Zenon DEF OnceHit, Hurt
    <2> QED BY <2>4, <2>5
  <1> QED BY <1>2, <1>3

(* A barrel left alone by one of two steps was hit once by both.           *)
LEMMA OnceMore ==
  ASSUME NEW w, NEW x, NEW v, NEW b
  PROVE  /\ Untouched(w, x, b) /\ OnceHit(x, v, b) => OnceHit(w, v, b)
         /\ OnceHit(w, x, b) /\ Untouched(x, v, b) => OnceHit(w, v, b)
         /\ Untouched(w, x, b) /\ Untouched(x, v, b) => Untouched(w, v, b)
  <1>1. ASSUME Untouched(w, x, b), OnceHit(x, v, b) PROVE OnceHit(w, v, b)
    <2>1. CASE Untouched(x, v, b)
      BY <1>1, <2>1, Zenon DEF OnceHit, Untouched
    <2>2. CASE Killed(x, v, b)
      BY <1>1, <2>2, Zenon DEF OnceHit, Untouched, Killed, Alive
    <2>3. CASE Hurt(x, v, b)
      BY <1>1, <2>3, Zenon DEF OnceHit, Untouched, Hurt, Alive
    <2> QED BY <1>1, <2>1, <2>2, <2>3, Zenon DEF OnceHit
  <1>2. ASSUME OnceHit(w, x, b), Untouched(x, v, b) PROVE OnceHit(w, v, b)
    <2>1. CASE Untouched(w, x, b)
      BY <1>2, <2>1, Zenon DEF OnceHit, Untouched
    <2>2. CASE Killed(w, x, b)
      BY <1>2, <2>2, Zenon DEF OnceHit, Untouched, Killed
    <2>3. CASE Hurt(w, x, b)
      BY <1>2, <2>3, Zenon DEF OnceHit, Untouched, Hurt
    <2> QED BY <1>2, <2>1, <2>2, <2>3, Zenon DEF OnceHit
  <1>3. Untouched(w, x, b) /\ Untouched(x, v, b) => Untouched(w, v, b)
    BY Zenon DEF Untouched
  <1> QED BY <1>1, <1>2, <1>3

(* The barrels up to n each had their part of the blast, the others none.  *)
Blasted(w, v, taken, n) ==
  /\ v \in BarrelCells /\ v.solid = w.solid
  /\ \A b \in Item : OnceHit(w, v, b) /\ (b > n \/ taken[b] = 0 => Untouched(w, v, b))

(* Every barrel of a fold is hit once at most.                             *)
LEMMA EachBlasts ==
  ASSUME level \in Levels, NEW w \in BarrelCells, NEW taken \in [Item -> 0 .. 255], NEW src \in Sources,
         NEW h, EachRuns(h, w, taken, src)
  PROVE  \A n \in 0 .. Barrels : Blasted(w, h[n], taken, n)
  <1> DEFINE T == {n \in 0 .. Barrels : Blasted(w, h[n], taken, n)}
  <1>1. Barrels \in Nat /\ Item = 1 .. Barrels
    BY LevelFacts DEF Item
  <1>2. 0 \in T
    <2>1. h[0] = w
      BY DEF EachRuns
    <2> QED BY <1>1, <2>1 DEF Blasted, OnceHit, Untouched
  <1>3. ASSUME NEW n \in 1 .. Barrels, n - 1 \in T PROVE n \in T
    <2> DEFINE x == h[n - 1]
               v == h[n]
    <2>1. Blasted(w, x, taken, n - 1) /\ n \in Item /\ x \in BarrelCells
      BY <1>1, <1>3 DEF Blasted
    <2>2. v = EachHit(x, taken, src, n)
      BY DEF EachRuns
    <2> HIDE DEF x, v
    <2>3. CASE taken[n] = 0
      <3>1. v = x
        BY <2>2, <2>3 DEF EachHit
      <3>2. ASSUME NEW b \in Item, b > n \/ taken[b] = 0 PROVE Untouched(w, v, b)
        <4>1. b > n - 1 \/ taken[b] = 0
          BY <1>1, <3>2
        <4> QED BY <2>1, <3>1, <4>1 DEF Blasted
      <3>3. Blasted(w, v, taken, n)
        BY <2>1, <3>1, <3>2 DEF Blasted
      <3> QED BY <3>3 DEF v
    <2>4. CASE taken[n] # 0
      <3> DEFINE d == taken[n]
      <3>1. d \in 1 .. 255
        <4>1. taken[n] \in 0 .. 255
          BY <2>1
        <4> QED BY <2>4, <4>1
      <3>2. v = DamageBarrel(x, n, d, src)
        BY <2>2, <2>4 DEF EachHit
      <3> HIDE DEF d
      <3>3. /\ v \in BarrelCells /\ v.solid = x.solid /\ OnceHit(x, v, n)
            /\ \A c \in Item \ {n} : Untouched(x, v, c)
        BY <2>1, <3>1, <3>2, OneHit
      <3>4. ASSUME NEW b \in Item
            PROVE  OnceHit(w, v, b) /\ (b > n \/ taken[b] = 0 => Untouched(w, v, b))
        <4>1. CASE b = n
          <5>1. Untouched(w, x, b)
            <6>1. b > n - 1
              BY <4>1
            <6> QED BY <2>1, <6>1 DEF Blasted
          <5>2. ~(b > n \/ taken[b] = 0)
            BY <2>4, <4>1
          <5> QED BY <3>3, <4>1, <5>1, <5>2, OnceMore
        <4>2. CASE b # n
          <5>1. OnceHit(w, x, b) /\ Untouched(x, v, b)
            BY <2>1, <3>3, <4>2 DEF Blasted
          <5>2. ASSUME b > n \/ taken[b] = 0 PROVE Untouched(w, x, b)
            <6>1. b > n - 1 \/ taken[b] = 0
              BY <1>1, <5>2
            <6> QED BY <2>1, <6>1 DEF Blasted
          <5> QED BY <5>1, <5>2, OnceMore
        <4> QED BY <4>1, <4>2
      <3>5. Blasted(w, v, taken, n)
        BY <2>1, <3>3, <3>4 DEF Blasted
      <3> QED BY <3>5 DEF v
    <2> QED BY <2>3, <2>4
  <1>4. \A n \in 0 .. Barrels : n \in T
    <2> HIDE DEF T
    <2> QED BY <1>1, <1>2, <1>3, UpTo
  <1> QED BY <1>4

(* And so of the whole fold.                                               *)
LEMMA DamageEachLeaves ==
  ASSUME level \in Levels, NEW w \in BarrelCells, NEW taken \in [Item -> 0 .. 255], NEW src \in Sources
  PROVE  Blasted(w, DamageEach(w, taken, src), taken, Barrels)
  <1>1. PICK h : EachRuns(h, w, taken, src) /\ DamageEach(w, taken, src) = h[Barrels]
    BY DamageEachRuns
  <1>2. Barrels \in 0 .. Barrels
    BY LevelFacts
  <1> QED BY <1>1, <1>2, EachBlasts

(***************************************************************************)
(* The emitted shot, rocket and chain do what the model's do               *)
(***************************************************************************)

(* A shot, the rocket and a chain keep the emitted cells the model's.      *)
LEMMA ShotAlike ==
  ASSUME level \in Levels, NEW w, NEW f, Alike(w, f), NEW c \in Item, NEW dmg \in 1 .. 255,
         NEW src \in Sources
  PROVE  Alike(DamageBarrel(w, c, dmg, src), Bdm([f EXCEPT !.bdsrc = src], c, dmg))
  <1> DEFINE g == [f EXCEPT !.bdsrc = src]
  <1>1. f \in EmittedCells
    BY DEF Alike
  <1>2. /\ g \in EmittedCells /\ g.bdsrc = src /\ g.st = f.st /\ g.ti = f.ti /\ g.hp = f.hp
        /\ g.solid = f.solid /\ g.src = f.src /\ g.vis = f.vis /\ g.rng = f.rng
    BY <1>1 DEF EmittedCells
  <1> HIDE DEF g
  <1>3. Alike(w, g)
    BY <1>2, Zenon DEF Alike
  <1>4. Alike(DamageBarrel(w, c, dmg, g.bdsrc), Bdm(g, c, dmg))
    BY <1>3, HitAlike
  <1> QED BY <1>2, <1>4 DEF g

(* rk_blast asks what bd_leaf asks again, and asks it of the cells as      *)
(* the blast has left them so far.                                         *)
LEMMA RocketAlike ==
  ASSUME level \in Levels, NEW w, NEW f, Alike(w, f), NEW taken \in [Item -> 0 .. 255]
  PROVE  Alike(DamageEach(w, taken, OfPlayer), EmittedRocket(f, taken))
  <1>1. w \in BarrelCells /\ f \in EmittedCells /\ OfPlayer \in Sources
    BY LevelFacts DEF Alike
  <1>2. PICK h : EachRuns(h, w, taken, OfPlayer) /\ DamageEach(w, taken, OfPlayer) = h[Barrels]
    BY <1>1, DamageEachRuns
  <1>3. PICK g : RocketRuns(g, f, taken) /\ EmittedRocket(f, taken) = g[Barrels]
    BY <1>1, RocketRunsOn
  <1> DEFINE T == {n \in 0 .. Barrels : Alike(h[n], g[n])}
  <1>4. Barrels \in Nat /\ Item = 1 .. Barrels
    BY LevelFacts DEF Item
  <1>5. 0 \in T
    BY <1>2, <1>3, <1>4 DEF EachRuns, RocketRuns
  <1>6. ASSUME NEW n \in 1 .. Barrels, n - 1 \in T PROVE n \in T
    <2> DEFINE x == h[n - 1]
               y == g[n - 1]
               d == taken[n]
    <2>1. Alike(x, y) /\ n \in Item /\ d \in 0 .. 255
      BY <1>4, <1>6
    <2>2. h[n] = EachHit(x, taken, OfPlayer, n) /\ g[n] = RocketHit(y, taken, n)
      BY <1>2, <1>3 DEF EachRuns, RocketRuns
    <2>3. y.st[n] = x.st[n] /\ Signed(y.hp[n]) = x.hp[n] /\ x \in BarrelCells /\ x.hp[n] \in Int
      <3>1. x \in BarrelCells
        BY <2>1 DEF Alike
      <3>2. x.hp[n] \in Int
        <4> HIDE DEF x
        <4> QED BY <2>1, <3>1 DEF BarrelCells, BARREL_HEALTH_MIN
      <3> QED BY <2>1, <3>1, <3>2 DEF Alike
    <2> HIDE DEF x, y, d
    <2>4. RocketHits(y, taken, n) <=> d # 0 /\ Alive(x, n)
      BY <2>3, Zenon DEF RocketHits, Alive, d
    <2>5. CASE d = 0
      BY <1>4, <2>1, <2>2, <2>4, <2>5 DEF EachHit, RocketHit, d
    <2>6. CASE d # 0 /\ ~Alive(x, n)
      <3>1. d \in 1 .. 255
        BY <2>1, <2>6
      <3>2. DamageBarrel(x, n, d, OfPlayer) = x
        BY <1>1, <2>1, <2>3, <2>6, <3>1, DamageTold
      <3>3. h[n] = x /\ g[n] = y
        BY <2>2, <2>4, <2>6, <3>2, Zenon DEF EachHit, RocketHit, d
      <3> QED BY <2>1, <3>3
    <2>7. CASE d # 0 /\ Alive(x, n)
      <3>1. d \in 1 .. 255
        BY <2>1, <2>7
      <3>2. Alike(DamageBarrel(x, n, d, OfPlayer), Bdm([y EXCEPT !.bdsrc = OfPlayer], n, d))
        BY <1>1, <2>1, <3>1, ShotAlike
      <3>3. h[n] = DamageBarrel(x, n, d, OfPlayer) /\ g[n] = Bdm([y EXCEPT !.bdsrc = OfPlayer], n, d)
        BY <2>2, <2>4, <2>7, Zenon DEF EachHit, RocketHit, d
      <3> QED BY <3>2, <3>3
    <2> QED BY <2>5, <2>6, <2>7
  <1>7. Barrels \in T
    <2> HIDE DEF T
    <2>1. Barrels \in 0 .. Barrels
      BY <1>4
    <2> QED BY <1>4, <1>5, <1>6, <2>1, UpTo
  <1> QED BY <1>2, <1>3, <1>7

(* bd_src is read again at each pair, and the blast never changes it:      *)
(* the barrel that explodes is not in its own reach.                       *)
LEMMA ChainAlike ==
  ASSUME level \in Levels, NEW w, NEW f, Alike(w, f), NEW b \in Item
  PROVE  Alike(RadiusAttack(w, b), Chain(f, b))
  <1> DEFINE taken == Reach[b]
             src   == w.src[b]
  <1>1. w \in BarrelCells /\ f \in EmittedCells /\ src \in Sources
    BY DEF Alike, BarrelCells
  <1>2. taken \in [Item -> 0 .. 255] /\ taken[b] = 0
    <2>1. Reach[b] \in [Item -> 0 .. 128] /\ Reach[b][b] = 0
      BY LevelFacts
    <2> QED BY <2>1
  <1>3. RadiusAttack(w, b) = DamageEach(w, taken, src)
    BY DEF RadiusAttack
  <1> HIDE DEF src
  <1>4. PICK h : EachRuns(h, w, taken, src) /\ DamageEach(w, taken, src) = h[Barrels]
    <2> HIDE DEF taken
    <2> QED BY <1>1, <1>2, DamageEachRuns
  <1>5. PICK g : ChainRuns(g, f, b) /\ Chain(f, b) = g[Barrels]
    BY <1>1, ChainRunsOn
  <1>6. \A n \in 0 .. Barrels : Blasted(w, h[n], taken, n)
    <2> HIDE DEF taken
    <2> QED BY <1>1, <1>2, <1>4, EachBlasts
  <1> DEFINE T == {n \in 0 .. Barrels : Alike(h[n], g[n])}
  <1>7. Barrels \in Nat /\ Item = 1 .. Barrels
    BY LevelFacts DEF Item
  <1>8. 0 \in T
    BY <1>4, <1>5, <1>7 DEF EachRuns, ChainRuns
  <1>9. ASSUME NEW n \in 1 .. Barrels, n - 1 \in T PROVE n \in T
    <2> DEFINE x == h[n - 1]
               y == g[n - 1]
               d == taken[n]
    <2>1. Alike(x, y) /\ n \in Item /\ d \in 0 .. 255 /\ Blasted(w, x, taken, n - 1)
      <3>1. d \in 0 .. 255
        <4> HIDE DEF taken
        <4> QED BY <1>2, <1>7
      <3> QED BY <1>6, <1>7, <1>9, <3>1
    <2>2. h[n] = EachHit(x, taken, src, n) /\ g[n] = ChainHit(y, b, n)
      BY <1>4, <1>5 DEF EachRuns, ChainRuns
    <2>3. y.src[b] = src
      <3>1. Untouched(w, x, b)
        <4> HIDE DEF x, y, d, taken
        <4> QED BY <1>2, <2>1 DEF Blasted
      <3> QED BY <2>1, <3>1 DEF Alike, Untouched, src
    <2> HIDE DEF x, y
    <2>4. CASE d = 0
      BY <2>1, <2>2, <2>4, <1>7 DEF EachHit, ChainHit
    <2>5. CASE d # 0
      <3>1. h[n] = DamageBarrel(x, n, d, src) /\ g[n] = Bdm([y EXCEPT !.bdsrc = src], n, d)
        BY <2>2, <2>3, <2>5, Zenon DEF EachHit, ChainHit
      <3>2. d \in 1 .. 255
        BY <2>1, <2>5
      <3> HIDE DEF d
      <3>3. Alike(DamageBarrel(x, n, d, src), Bdm([y EXCEPT !.bdsrc = src], n, d))
        BY <1>1, <2>1, <3>2, ShotAlike
      <3> QED BY <3>1, <3>3
    <2> QED BY <2>4, <2>5
  <1>10. Barrels \in T
    <2> HIDE DEF T
    <2>1. Barrels \in 0 .. Barrels
      BY <1>7
    <2> QED BY <1>7, <1>8, <1>9, <2>1, UpTo
  <1> QED BY <1>3, <1>4, <1>5, <1>10

(***************************************************************************)
(* A barrel's tic                                                          *)
(***************************************************************************)

(* The chain of states: the idle two, then the death's five, then none.    *)
LEMMA NextStates ==
  ASSUME NEW st \in 1 .. 7
  PROVE  /\ NextState(st) \in 0 .. 7 /\ (NextState(st) = 0 <=> st = 7)
         /\ (st \in 1 .. 2 => NextState(st) \in 1 .. 2)
         /\ (st \in 3 .. 6 => NextState(st) = st + 1)
  BY DEF NextState, S_BAR1, S_BEXP, S_BEXP5

(* Every state lasts.                                                      *)
LEMMA TicsOfStates ==
  ASSUME NEW st \in 1 .. 7
  PROVE  TicsOf[st] \in 1 .. 14
  BY ModelRules DEF S_BAR1, S_BEXP5

(* Barrel b is there and has tics left; the tic takes one.                 *)
LEMMA TicTaken ==
  ASSUME level \in Levels, NEW w \in BarrelCells, NEW b \in Item, w.st[b] # 0, w.ti[b] > 0
  PROVE  LET on == [w EXCEPT !.ti[b] = @ - 1]
         IN  /\ on \in BarrelCells /\ on.st = w.st /\ on.ti = [w.ti EXCEPT ![b] = @ - 1]
             /\ on.hp = w.hp /\ on.solid = w.solid /\ on.src = w.src /\ on.rng = w.rng
             /\ on.ti[b] = w.ti[b] - 1 /\ w.st[b] \in 1 .. 7
             /\ BarrelTic(w, b) = IF w.ti[b] = 1 THEN SetState(on, b, NextState(w.st[b])) ELSE on
  <1> DEFINE on == [w EXCEPT !.ti[b] = @ - 1]
             ti == [w.ti EXCEPT ![b] = @ - 1]
  <1>1. w.ti \in [Item -> 0 .. 14] /\ w.ti[b] \in 0 .. 14 /\ w.st[b] \in 0 .. 7
    BY DEF BarrelCells, S_BEXP5
  <1>2. ti \in [Item -> 0 .. 14] /\ ti[b] = w.ti[b] - 1
    BY <1>1
  <1>3. on = [w EXCEPT !.ti = ti]
    OBVIOUS
  <1>4. BarrelTic(w, b) = IF on.ti[b] = 0 THEN SetState(on, b, NextState(w.st[b])) ELSE on
    BY Zenon DEF BarrelTic
  <1> HIDE DEF on, ti
  <1>5. /\ on \in BarrelCells /\ on.st = w.st /\ on.ti = ti
        /\ on.hp = w.hp /\ on.solid = w.solid /\ on.src = w.src /\ on.rng = w.rng
    BY <1>2, <1>3 DEF BarrelCells
  <1>6. on.ti[b] = 0 <=> w.ti[b] = 1
    BY <1>1, <1>2, <1>5
  <1>7. w.st[b] \in 1 .. 7
    BY <1>1
  <1> QED BY <1>2, <1>4, <1>5, <1>6, <1>7, Zenon DEF on, ti

(* The next state, but for its blast.                                      *)
StateSet(w, v, b, st) ==
  /\ v \in BarrelCells
  /\ v.st = [w.st EXCEPT ![b] = st]
  /\ v.ti = [w.ti EXCEPT ![b] = IF st = 0 THEN 0 ELSE TicsOf[st]]
  /\ v.hp = w.hp /\ v.src = w.src /\ v.rng = w.rng
  /\ v.solid = IF st = 0 THEN [w.solid EXCEPT ![b] = 0] ELSE w.solid

(* _barrel_set_state before the blast.                                     *)
SetCells(w, b, st) ==
  IF st = 0 THEN [w EXCEPT !.st[b] = 0, !.ti[b] = 0, !.solid[b] = 0]
  ELSE [w EXCEPT !.st[b] = st, !.ti[b] = TicsOf[st]]

(* _barrel_set_state is that, and the blast in A_Explode's state.          *)
LEMMA StateIsSet ==
  ASSUME level \in Levels, NEW w \in BarrelCells, NEW b \in Item, NEW st \in 0 .. 7
  PROVE  /\ StateSet(w, SetCells(w, b, st), b, st)
         /\ SetState(w, b, st) = IF st = A_Explode THEN RadiusAttack(SetCells(w, b, st), b)
                                 ELSE SetCells(w, b, st)
  <1>0. A_Explode # 0
    BY DEF A_Explode
  <1>1. CASE st = 0
    <2> DEFINE v == [w EXCEPT !.st[b] = 0, !.ti[b] = 0, !.solid[b] = 0]
    <2>1. v = [w EXCEPT !.st = [w.st EXCEPT ![b] = 0], !.ti = [w.ti EXCEPT ![b] = 0],
                        !.solid = [w.solid EXCEPT ![b] = 0]]
      BY DEF BarrelCells
    <2>2. /\ [w.st EXCEPT ![b] = 0] \in [Item -> 0 .. S_BEXP5] /\ [w.ti EXCEPT ![b] = 0] \in [Item -> 0 .. 14]
          /\ [w.solid EXCEPT ![b] = 0] \in [Item -> {0, 1}]
      BY DEF BarrelCells, S_BEXP5
    <2>3. SetCells(w, b, st) = v /\ SetState(w, b, st) = v
      BY <1>1, Zenon DEF SetCells, SetState
    <2> HIDE DEF v
    <2>4. /\ v \in BarrelCells /\ v.st = [w.st EXCEPT ![b] = 0] /\ v.ti = [w.ti EXCEPT ![b] = 0]
          /\ v.solid = [w.solid EXCEPT ![b] = 0] /\ v.hp = w.hp /\ v.src = w.src /\ v.rng = w.rng
      BY <2>1, <2>2 DEF BarrelCells
    <2>5. StateSet(w, v, b, 0)
      BY <2>4, Zenon DEF StateSet
    <2> QED BY <1>0, <1>1, <2>3, <2>5
  <1>2. CASE st # 0
    <2> DEFINE v == [w EXCEPT !.st[b] = st, !.ti[b] = TicsOf[st]]
    <2>1. v = [w EXCEPT !.st = [w.st EXCEPT ![b] = st], !.ti = [w.ti EXCEPT ![b] = TicsOf[st]]]
      BY DEF BarrelCells
    <2>2. /\ [w.st EXCEPT ![b] = st] \in [Item -> 0 .. S_BEXP5]
          /\ [w.ti EXCEPT ![b] = TicsOf[st]] \in [Item -> 0 .. 14]
      <3>1. st \in 1 .. 7 /\ st \in 0 .. S_BEXP5
        BY <1>2 DEF S_BEXP5
      <3>2. TicsOf[st] \in 0 .. 14
        BY <3>1, TicsOfStates
      <3> QED BY <3>1, <3>2 DEF BarrelCells
    <2>3. /\ SetCells(w, b, st) = v
          /\ SetState(w, b, st) = IF st = A_Explode THEN RadiusAttack(v, b) ELSE v
      BY <1>2, Zenon DEF SetCells, SetState
    <2> HIDE DEF v
    <2>4. /\ v \in BarrelCells /\ v.st = [w.st EXCEPT ![b] = st] /\ v.ti = [w.ti EXCEPT ![b] = TicsOf[st]]
          /\ v.solid = w.solid /\ v.hp = w.hp /\ v.src = w.src /\ v.rng = w.rng
      BY <2>1, <2>2 DEF BarrelCells
    <2>5. StateSet(w, v, b, st)
      BY <1>2, <2>4, Zenon DEF StateSet
    <2> QED BY <2>3, <2>5
  <1> QED BY <1>1, <1>2

(* What a barrel's own tic does to it: nothing, a count, its end, or       *)
(* its next state.                                                         *)
TickedAt(w, v, b) ==
  LET st == NextState(w.st[b])
  IN  /\ v.hp[b] = w.hp[b] /\ v.src[b] = w.src[b]
      /\ \/ w.st[b] = 0 /\ v.st[b] = 0 /\ v.ti[b] = w.ti[b] /\ v.solid[b] = w.solid[b]
         \/ /\ w.st[b] # 0 /\ w.ti[b] # 1
            /\ v.st[b] = w.st[b] /\ v.ti[b] = w.ti[b] - 1 /\ v.solid[b] = w.solid[b]
         \/ /\ w.st[b] # 0 /\ w.ti[b] = 1 /\ st = 0
            /\ v.st[b] = 0 /\ v.ti[b] = 0 /\ v.solid[b] = 0
         \/ /\ w.st[b] # 0 /\ w.ti[b] = 1 /\ st # 0
            /\ v.st[b] = st /\ v.ti[b] = TicsOf[st] /\ v.solid[b] = w.solid[b]

(* And to the others: what a blast may do.                                 *)
Ticked(w, v, b) ==
  /\ v \in BarrelCells /\ TickedAt(w, v, b)
  /\ \A c \in Item \ {b} : OnceHit(w, v, c) /\ v.solid[c] = w.solid[c]

(* _barrels_phase on one barrel.                                           *)
LEMMA TicWorks ==
  ASSUME level \in Levels, NEW w \in BarrelCells, NEW b \in Item, w.st[b] # 0 => w.ti[b] > 0
  PROVE  Ticked(w, BarrelTic(w, b), b)
  <1>1. CASE w.st[b] = 0
    <2>1. BarrelTic(w, b) = w
      BY <1>1, Zenon DEF BarrelTic
    <2> QED BY <1>1, <2>1, Zenon DEF Ticked, TickedAt, OnceHit, Untouched
  <1>2. CASE w.st[b] # 0
    <2> DEFINE on == [w EXCEPT !.ti[b] = @ - 1]
               st == NextState(w.st[b])
               set == SetCells(on, b, st)
    <2>1. /\ on \in BarrelCells /\ on.st = w.st /\ on.ti = [w.ti EXCEPT ![b] = @ - 1]
          /\ on.hp = w.hp /\ on.solid = w.solid /\ on.src = w.src /\ on.rng = w.rng
          /\ on.ti[b] = w.ti[b] - 1 /\ w.st[b] \in 1 .. 7
          /\ BarrelTic(w, b) = IF w.ti[b] = 1 THEN SetState(on, b, st) ELSE on
      BY <1>2, TicTaken
    <2> HIDE DEF on
    <2>2. \A c \in Item \ {b} : Untouched(w, on, c) /\ on.solid[c] = w.solid[c]
      BY <2>1 DEF Untouched, BarrelCells
    <2>3. CASE w.ti[b] # 1
      <3>1. BarrelTic(w, b) = on
        BY <2>1, <2>3
      <3> HIDE DEF st
      <3> QED BY <1>2, <2>1, <2>2, <2>3, <3>1, Zenon DEF Ticked, TickedAt, OnceHit
    <2>4. CASE w.ti[b] = 1
      <3>1. st \in 0 .. 7
        BY <2>1, NextStates
      <3>2. BarrelTic(w, b) = SetState(on, b, st)
        BY <2>1, <2>4
      <3> HIDE DEF st
      <3>3. /\ StateSet(on, set, b, st)
            /\ SetState(on, b, st) = IF st = A_Explode THEN RadiusAttack(set, b) ELSE set
        BY <2>1, <3>1, StateIsSet
      <3> HIDE DEF set
      <3>4. /\ set \in BarrelCells /\ set.hp = w.hp /\ set.src = w.src
            /\ set.st[b] = st /\ set.ti[b] = (IF st = 0 THEN 0 ELSE TicsOf[st])
            /\ set.solid[b] = (IF st = 0 THEN 0 ELSE w.solid[b])
        <4>1. b \in DOMAIN on.st /\ b \in DOMAIN on.ti /\ b \in DOMAIN on.solid
          BY <2>1 DEF BarrelCells
        <4>2. /\ set.st = [on.st EXCEPT ![b] = st]
              /\ set.ti = [on.ti EXCEPT ![b] = IF st = 0 THEN 0 ELSE TicsOf[st]]
              /\ set.solid = IF st = 0 THEN [on.solid EXCEPT ![b] = 0] ELSE on.solid
              /\ set.hp = on.hp /\ set.src = on.src /\ set \in BarrelCells
          BY <3>3, Zenon DEF StateSet
        <4>3. set.st[b] = st /\ set.ti[b] = (IF st = 0 THEN 0 ELSE TicsOf[st])
          BY <4>1, <4>2
        <4>4. set.solid[b] = (IF st = 0 THEN 0 ELSE w.solid[b])
          BY <2>1, <4>1, <4>2
        <4> QED BY <2>1, <4>2, <4>3, <4>4, Zenon
      <3>5. \A c \in Item \ {b} : Untouched(on, set, c) /\ set.solid[c] = on.solid[c]
        <4> SUFFICES ASSUME NEW c \in Item \ {b} PROVE Untouched(on, set, c) /\ set.solid[c] = on.solid[c]
          OBVIOUS
        <4>1. /\ set.st = [on.st EXCEPT ![b] = st]
              /\ set.ti = [on.ti EXCEPT ![b] = IF st = 0 THEN 0 ELSE TicsOf[st]]
              /\ set.solid = IF st = 0 THEN [on.solid EXCEPT ![b] = 0] ELSE on.solid
              /\ set.hp = on.hp /\ set.src = on.src
          BY <3>3, Zenon DEF StateSet
        <4>2. c \in DOMAIN on.st /\ c \in DOMAIN on.ti /\ c \in DOMAIN on.solid
          BY <2>1 DEF BarrelCells
        <4>3. set.st[c] = on.st[c] /\ set.ti[c] = on.ti[c]
          BY <4>1, <4>2
        <4>4. set.solid[c] = on.solid[c]
          BY <4>1, <4>2
        <4> QED BY <4>1, <4>3, <4>4, Zenon DEF Untouched
      <3>6. \A c \in Item \ {b} : Untouched(w, set, c) /\ set.solid[c] = w.solid[c]
        BY <2>2, <3>5, Zenon DEF Untouched
      <3>7. CASE st # A_Explode
        <4>1. BarrelTic(w, b) = set
          BY <3>2, <3>3, <3>7
        <4>2. \A c \in Item \ {b} : OnceHit(w, set, c) /\ set.solid[c] = w.solid[c]
          BY <3>6, Zenon DEF OnceHit
        <4>3. Ticked(w, set, b)
          BY <1>2, <2>4, <3>4, <4>2, Zenon DEF Ticked, TickedAt, st
        <4> QED BY <4>1, <4>3
      <3>8. CASE st = A_Explode
        <4> DEFINE v == RadiusAttack(set, b)
                   taken == Reach[b]
        <4>1. st # 0
          BY <3>8 DEF A_Explode
        <4>2. taken \in [Item -> 0 .. 255] /\ taken[b] = 0
          <5>1. Reach[b] \in [Item -> 0 .. 128] /\ Reach[b][b] = 0
            BY LevelFacts
          <5> QED BY <5>1
        <4> HIDE DEF taken
        <4>3. Blasted(set, v, taken, Barrels)
          <5>1. set.src[b] \in Sources
            BY <3>4 DEF BarrelCells
          <5> QED BY <3>4, <4>2, <5>1, DamageEachLeaves DEF RadiusAttack, taken
        <4> HIDE DEF v
        <4>4. v \in BarrelCells /\ v.solid = set.solid /\ Untouched(set, v, b)
          BY <4>2, <4>3 DEF Blasted
        <4>5. \A c \in Item \ {b} : OnceHit(w, v, c) /\ v.solid[c] = w.solid[c]
          <5> SUFFICES ASSUME NEW c \in Item \ {b} PROVE OnceHit(w, v, c) /\ v.solid[c] = w.solid[c]
            OBVIOUS
          <5>1. OnceHit(set, v, c)
            BY <4>3 DEF Blasted
          <5> QED BY <3>6, <4>4, <5>1, OnceMore
        <4>6. Ticked(w, v, b)
          <5>1. v.hp[b] = w.hp[b] /\ v.src[b] = w.src[b] /\ v.st[b] = st /\ v.ti[b] = TicsOf[st]
                /\ v.solid[b] = w.solid[b]
            BY <3>4, <4>1, <4>4, Zenon DEF Untouched
          <5> QED BY <1>2, <2>4, <4>1, <4>4, <4>5, <5>1, Zenon DEF Ticked, TickedAt, st
        <4>7. BarrelTic(w, b) = v
          BY <3>2, <3>3, <3>8 DEF v
        <4> QED BY <4>6, <4>7
      <3> QED BY <3>7, <3>8
    <2> QED BY <2>3, <2>4
  <1> QED BY <1>1, <1>2

(* The emitted cells once barrel b's next state is written.                *)
EmittedSet(f, v, b, st) ==
  /\ v \in EmittedCells
  /\ v.st = [f.st EXCEPT ![b] = st]
  /\ v.ti = [f.ti EXCEPT ![b] = IF st = 0 THEN 0 ELSE TicsOf[st]]
  /\ v.hp = f.hp /\ v.src = f.src /\ v.rng = f.rng
  /\ v.solid = IF st = 0 THEN [f.solid EXCEPT ![b] = 0] ELSE f.solid
  /\ v.vis = IF st = 0 THEN [f.vis EXCEPT ![b] = 0] ELSE f.vis

(* bar_next is that, and the chain in A_Explode's state.                   *)
LEMMA StepSets ==
  ASSUME level \in Levels, NEW f \in EmittedCells, NEW b \in Item, f.st[b] # 0
  PROVE  LET st == NextState(f.st[b])
         IN  \E v : /\ EmittedSet(f, v, b, st)
                   /\ Step(f, b) = IF st = A_Explode THEN Chain(v, b) ELSE v
  <1> DEFINE st  == NextState(f.st[b])
             ti  == IF st = 0 THEN 0 ELSE TicsOf[st]
             win == [f EXCEPT !.bw.st = st, !.bw.ti = ti]
             set == [win EXCEPT !.st[b] = win.bw.st, !.ti[b] = win.bw.ti]
             off == [set EXCEPT !.solid[b] = 0, !.vis[b] = 0]
             bw  == [f.bw EXCEPT !.st = st, !.ti = ti]
  <1>1. f.st[b] \in 1 .. 7 /\ f.bw \in Window
    BY DEF EmittedCells, S_BEXP5
  <1>2. st \in 0 .. S_BEXP5 /\ ti \in 0 .. 15
    <2>1. st \in 0 .. 7
      BY <1>1, NextStates
    <2> HIDE DEF st
    <2>2. CASE st = 0
      BY <2>1, <2>2 DEF S_BEXP5
    <2>3. CASE st # 0
      <3>1. TicsOf[st] \in 1 .. 14
        BY <2>1, <2>3, TicsOfStates
      <3> QED BY <2>1, <2>3, <3>1 DEF S_BEXP5
    <2> QED BY <2>2, <2>3
  <1>3. Step(f, b) = IF st = A_Explode THEN Chain(set, b) ELSE IF st = 0 THEN off ELSE set
    BY Zenon DEF Step
  <1> HIDE DEF st, ti
  <1>4. bw \in Window /\ bw.st = st /\ bw.ti = ti
    <2> DEFINE Sts == 0 .. S_BEXP5
               Tis == 0 .. 15
               Hps == 0 .. 255
    <2>1. f.bw \in [st : Sts, ti : Tis, hp : Hps, sr : Sources] /\ st \in Sts /\ ti \in Tis
      BY <1>1, <1>2 DEF Window
    <2> HIDE DEF Sts, Tis, Hps
    <2>2. bw \in [st : Sts, ti : Tis, hp : Hps, sr : Sources] /\ bw.st = st /\ bw.ti = ti
      BY <2>1
    <2> QED BY <2>2 DEF Sts, Tis, Hps, Window
  <1>5. win = [f EXCEPT !.bw = bw]
    BY DEF EmittedCells
  <1> HIDE DEF bw, win
  <1>6. /\ win \in EmittedCells /\ win.bw = bw /\ win.st = f.st /\ win.ti = f.ti /\ win.hp = f.hp
        /\ win.src = f.src /\ win.rng = f.rng /\ win.solid = f.solid /\ win.vis = f.vis
    BY <1>4, <1>5 DEF EmittedCells
  <1>7. set = [win EXCEPT !.st = [f.st EXCEPT ![b] = st], !.ti = [f.ti EXCEPT ![b] = ti]]
    BY <1>4, <1>6 DEF EmittedCells
  <1>8. [f.st EXCEPT ![b] = st] \in [Item -> 0 .. S_BEXP5] /\ [f.ti EXCEPT ![b] = ti] \in [Item -> 0 .. 15]
    BY <1>2 DEF EmittedCells
  <1> HIDE DEF set
  <1>9. /\ set \in EmittedCells /\ set.st = [f.st EXCEPT ![b] = st] /\ set.ti = [f.ti EXCEPT ![b] = ti]
        /\ set.hp = f.hp /\ set.src = f.src /\ set.rng = f.rng /\ set.solid = f.solid /\ set.vis = f.vis
    BY <1>6, <1>7, <1>8 DEF EmittedCells
  <1>10. CASE st = 0
    <2>1. off = [set EXCEPT !.solid = [f.solid EXCEPT ![b] = 0], !.vis = [f.vis EXCEPT ![b] = 0]]
      BY <1>9 DEF EmittedCells
    <2>2. [f.solid EXCEPT ![b] = 0] \in [Item -> {0, 1}] /\ [f.vis EXCEPT ![b] = 0] \in [Item -> {0, 1}]
      BY DEF EmittedCells
    <2> HIDE DEF off
    <2>3. /\ off \in EmittedCells /\ off.st = set.st /\ off.ti = set.ti /\ off.hp = set.hp
          /\ off.src = set.src /\ off.rng = set.rng /\ off.solid = [f.solid EXCEPT ![b] = 0]
          /\ off.vis = [f.vis EXCEPT ![b] = 0]
      BY <1>9, <2>1, <2>2 DEF EmittedCells
    <2>4. EmittedSet(f, off, b, st)
      BY <1>9, <1>10, <2>3, Zenon DEF EmittedSet, ti
    <2>5. st # A_Explode
      BY <1>10 DEF A_Explode
    <2> QED BY <1>3, <1>10, <2>4, <2>5, Zenon DEF st
  <1>11. CASE st # 0
    <2>1. EmittedSet(f, set, b, st)
      BY <1>9, <1>11, Zenon DEF EmittedSet, ti
    <2> QED BY <1>3, <1>11, <2>1, Zenon DEF st
  <1> QED BY <1>10, <1>11

(* A barrel's stub keeps the emitted cells the model's.                    *)
LEMMA TicAlike ==
  ASSUME level \in Levels, NEW w, NEW f, Alike(w, f), NEW b \in Item, w.st[b] # 0 => w.ti[b] > 0
  PROVE  Alike(BarrelTic(w, b), EmittedTic(f, b))
  <1>1. /\ w \in BarrelCells /\ f \in EmittedCells
        /\ f.st[b] = w.st[b] /\ f.ti[b] = w.ti[b]
    BY DEF Alike
  <1>2. CASE w.st[b] = 0
    <2>1. BarrelTic(w, b) = w /\ EmittedTic(f, b) = f
      BY <1>1, <1>2, Zenon DEF BarrelTic, EmittedTic
    <2> QED BY <2>1
  <1>3. CASE w.st[b] # 0
    <2> DEFINE on == [w EXCEPT !.ti[b] = @ - 1]
               fn == [f EXCEPT !.ti[b] = (@ - 1) % 16]
               st == NextState(w.st[b])
               set == SetCells(on, b, st)
    <2>1. /\ on \in BarrelCells /\ on.st = w.st /\ on.ti = [w.ti EXCEPT ![b] = @ - 1]
          /\ on.hp = w.hp /\ on.solid = w.solid /\ on.src = w.src /\ on.rng = w.rng
          /\ on.ti[b] = w.ti[b] - 1 /\ w.st[b] \in 1 .. 7
          /\ BarrelTic(w, b) = IF w.ti[b] = 1 THEN SetState(on, b, st) ELSE on
      BY <1>1, <1>3, TicTaken
    <2>2. w.ti[b] \in 1 .. 14 /\ (w.ti[b] - 1) % 16 = w.ti[b] - 1
      <3>1. w.ti[b] \in 0 .. 14
        BY <1>1 DEF BarrelCells
      <3>2. w.ti[b] \in 1 .. 14
        BY <1>3, <3>1
      <3> QED BY <3>2
    <2>3. EmittedTic(f, b) = IF fn.ti[b] # 0 THEN fn ELSE Step(fn, b)
      BY <1>1, <1>3, Zenon DEF EmittedTic
    <2> HIDE DEF on
    <2>4. /\ fn \in EmittedCells /\ fn.ti = [f.ti EXCEPT ![b] = w.ti[b] - 1] /\ fn.st = f.st /\ fn.hp = f.hp
          /\ fn.solid = f.solid /\ fn.src = f.src /\ fn.rng = f.rng /\ fn.vis = f.vis
      <3> DEFINE t == [f.ti EXCEPT ![b] = w.ti[b] - 1]
      <3>1. t \in [Item -> 0 .. 15]
        <4>1. w.ti[b] - 1 \in 0 .. 15
          BY <2>2
        <4> QED BY <1>1, <4>1 DEF EmittedCells
      <3>2. fn = [f EXCEPT !.ti = t]
        BY <1>1, <2>2
      <3> HIDE DEF fn, t
      <3>3. /\ fn \in EmittedCells /\ fn.ti = t /\ fn.st = f.st /\ fn.hp = f.hp
            /\ fn.solid = f.solid /\ fn.src = f.src /\ fn.rng = f.rng /\ fn.vis = f.vis
        BY <1>1, <3>1, <3>2 DEF EmittedCells
      <3> QED BY <3>3 DEF t
    <2> HIDE DEF fn
    <2>5. fn.ti[b] = w.ti[b] - 1 /\ \A c \in Item \ {b} : fn.ti[c] = f.ti[c] /\ on.ti[c] = w.ti[c]
      <3>1. \A c \in Item : c \in DOMAIN f.ti /\ c \in DOMAIN w.ti
        BY <1>1 DEF BarrelCells, EmittedCells
      <3> QED BY <2>1, <2>4, <3>1
    <2>6. Alike(on, fn)
      <3>1. \A c \in Item : fn.ti[c] = on.ti[c]
        <4>1. \A c \in Item : f.ti[c] = w.ti[c]
          BY DEF Alike
        <4> QED BY <2>1, <2>5, <4>1
      <3>2. ASSUME NEW c \in Item
            PROVE  /\ fn.st[c] = on.st[c] /\ fn.ti[c] = on.ti[c] /\ Signed(fn.hp[c]) = on.hp[c]
                   /\ fn.solid[c] = on.solid[c] /\ fn.src[c] = on.src[c]
                   /\ (fn.vis[c] = 1 <=> on.st[c] # 0)
        <4>1. /\ f.st[c] = w.st[c] /\ Signed(f.hp[c]) = w.hp[c]
              /\ f.solid[c] = w.solid[c] /\ f.src[c] = w.src[c]
              /\ (f.vis[c] = 1 <=> w.st[c] # 0)
          BY Zenon DEF Alike
        <4> QED BY <2>1, <2>4, <3>1, <4>1, Zenon
      <3>3. fn.rng = on.rng
        BY <2>1, <2>4, Zenon DEF Alike
      <3> QED BY <2>1, <2>4, <3>2, <3>3, Zenon DEF Alike
    <2>7. fn.ti[b] # 0 <=> w.ti[b] # 1
      BY <2>2, <2>5
    <2>8. CASE w.ti[b] # 1
      BY <2>1, <2>3, <2>6, <2>7, <2>8
    <2>9. CASE w.ti[b] = 1
      <3>1. BarrelTic(w, b) = SetState(on, b, st) /\ EmittedTic(f, b) = Step(fn, b)
        BY <2>1, <2>3, <2>7, <2>9
      <3>2. st \in 0 .. 7 /\ fn.st[b] = w.st[b]
        BY <1>1, <2>1, <2>4, NextStates
      <3>3. /\ StateSet(on, set, b, st)
            /\ SetState(on, b, st) = IF st = A_Explode THEN RadiusAttack(set, b) ELSE set
        <4> HIDE DEF st
        <4> QED BY <2>1, <3>2, StateIsSet DEF set
      <3>4. PICK v : /\ EmittedSet(fn, v, b, st)
                     /\ Step(fn, b) = IF st = A_Explode THEN Chain(v, b) ELSE v
        BY <1>3, <2>4, <3>2, StepSets
      <3> HIDE DEF st, set
      <3>5. Alike(set, v)
        <4>1. /\ set \in BarrelCells /\ v \in EmittedCells /\ set.rng = on.rng /\ v.rng = fn.rng
              /\ set.st = [on.st EXCEPT ![b] = st] /\ v.st = [fn.st EXCEPT ![b] = st]
              /\ set.ti = [on.ti EXCEPT ![b] = IF st = 0 THEN 0 ELSE TicsOf[st]]
              /\ v.ti = [fn.ti EXCEPT ![b] = IF st = 0 THEN 0 ELSE TicsOf[st]]
              /\ set.hp = on.hp /\ set.src = on.src /\ v.hp = fn.hp /\ v.src = fn.src
              /\ set.solid = (IF st = 0 THEN [on.solid EXCEPT ![b] = 0] ELSE on.solid)
              /\ v.solid = (IF st = 0 THEN [fn.solid EXCEPT ![b] = 0] ELSE fn.solid)
              /\ v.vis = (IF st = 0 THEN [fn.vis EXCEPT ![b] = 0] ELSE fn.vis)
          BY <3>3, <3>4, Zenon DEF StateSet, EmittedSet
        <4>2. ASSUME NEW c \in Item
              PROVE  /\ v.st[c] = set.st[c] /\ v.ti[c] = set.ti[c] /\ v.solid[c] = set.solid[c]
                     /\ (v.vis[c] = 1 <=> set.st[c] # 0)
          <5>1. /\ c \in DOMAIN on.st /\ c \in DOMAIN on.ti /\ c \in DOMAIN on.solid
                /\ c \in DOMAIN fn.st /\ c \in DOMAIN fn.ti /\ c \in DOMAIN fn.solid /\ c \in DOMAIN fn.vis
            BY <2>1, <2>4 DEF BarrelCells, EmittedCells
          <5>2. /\ fn.st[c] = on.st[c] /\ fn.ti[c] = on.ti[c] /\ fn.solid[c] = on.solid[c]
                /\ (fn.vis[c] = 1 <=> on.st[c] # 0)
            BY <2>6, Zenon DEF Alike
          <5>3. on.st[b] # 0
            BY <1>3, <2>1
          <5>4. v.st[c] = set.st[c] /\ v.ti[c] = set.ti[c]
            BY <4>1, <5>1, <5>2
          <5>5. v.solid[c] = set.solid[c]
            BY <4>1, <5>1, <5>2
          <5>6. v.vis[c] = 1 <=> set.st[c] # 0
            <6>1. CASE c = b /\ st = 0
              BY <4>1, <5>1, <6>1
            <6>2. CASE c = b /\ st # 0
              BY <4>1, <5>1, <5>2, <5>3, <6>2
            <6>3. CASE c # b
              BY <4>1, <5>1, <5>2, <6>3
            <6> QED BY <6>1, <6>2, <6>3
          <5> QED BY <5>4, <5>5, <5>6
        <4>3. set.rng = v.rng /\ \A c \in Item : Signed(v.hp[c]) = set.hp[c] /\ v.src[c] = set.src[c]
          BY <2>6, <4>1, Zenon DEF Alike
        <4> QED BY <4>1, <4>2, <4>3, Zenon DEF Alike
      <3>6. CASE st = A_Explode
        BY <3>1, <3>3, <3>4, <3>5, <3>6, ChainAlike
      <3>7. CASE st # A_Explode
        BY <3>1, <3>3, <3>4, <3>5, <3>7
      <3> QED BY <3>6, <3>7
    <2> QED BY <2>8, <2>9
  <1> QED BY <1>2, <1>3

(***************************************************************************)
(* What a frame does to each barrel                                        *)
(***************************************************************************)

(* What any turn of the frame does to a barrel.                            *)
Does(w, v, b) ==
  \/ OnceHit(w, v, b) /\ v.solid[b] = w.solid[b]
  \/ TickedAt(w, v, b)

(* HealthTellsState of one barrel.                                         *)
GoodAt(w, b) ==
  /\ w.st[b] # 0 => (w.st[b] \in Burning <=> w.hp[b] <= 0)
  /\ w.ti[b] \in (IF w.st[b] = 0 THEN {0} ELSE 1 .. TicsOf[w.st[b]])
  /\ (w.st[b] # 0 <=> w.solid[b] = 1)
  /\ w.st[b] = 0 => (w.hp[b] <= 0 \/ b \notin Standing)

(* A barrel that is there has tics left.                                   *)
LEMMA GoodHasTics ==
  ASSUME NEW w \in BarrelCells, NEW b \in Item, GoodAt(w, b)
  PROVE  w.st[b] # 0 => w.ti[b] > 0
  <1> SUFFICES ASSUME w.st[b] # 0 PROVE w.ti[b] > 0
    OBVIOUS
  <1>1. w.st[b] \in 1 .. 7
    <2>1. w.st[b] \in 0 .. 7
      BY DEF BarrelCells, S_BEXP5
    <2> QED BY <2>1
  <1>2. TicsOf[w.st[b]] \in 1 .. 14
    BY <1>1, TicsOfStates
  <1>3. w.ti[b] \in 1 .. TicsOf[w.st[b]]
    BY Zenon DEF GoodAt
  <1> QED BY <1>2, <1>3

(* The turns of the frame, each of these alike.                            *)
LEMMA HitByDoes ==
  ASSUME level \in Levels, Alike(ws, fj), NEW src \in Sources, HitBy(src)
  PROVE  Alike(ws', fj') /\ \A b \in Item : Does(ws, ws', b)
  <1>0. ws \in BarrelCells
    BY DEF Alike
  <1>1. CASE UNCHANGED <<ws, fj>>
    BY <1>1, Zenon DEF Does, OnceHit, Untouched
  <1>2. CASE \E c \in Item, dmg \in Damages :
               ws' = DamageBarrel(ws, c, dmg, src) /\ fj' = EmittedHit(fj, c, dmg, src)
    <2>1. PICK c \in Item, dmg \in Damages :
            ws' = DamageBarrel(ws, c, dmg, src) /\ fj' = EmittedHit(fj, c, dmg, src)
      BY <1>2
    <2>2. dmg \in 1 .. 255
      BY LevelFacts
    <2>3. Alike(ws', fj')
      BY <2>1, <2>2, ShotAlike DEF EmittedHit
    <2>4. /\ ws'.solid = ws.solid /\ OnceHit(ws, ws', c)
          /\ \A b \in Item \ {c} : Untouched(ws, ws', b)
      BY <1>0, <2>1, <2>2, OneHit
    <2> QED BY <2>3, <2>4, Zenon DEF Does, OnceHit
  <1> QED BY <1>1, <1>2 DEF HitBy

(* A missile's hit.                                                        *)
LEMMA MissileHitsDoes ==
  ASSUME level \in Levels, Alike(ws, fj), MissileHits
  PROVE  Alike(ws', fj') /\ \A b \in Item : Does(ws, ws', b)
  <1>0. ws \in BarrelCells
    BY DEF Alike
  <1>1. CASE \E m \in Monsters : HitBy(Source(m))
    BY <1>1, LevelFacts, HitByDoes
  <1>2. CASE \E near \in SUBSET Item, dmg \in Damages :
               LET taken == [b \in Item |-> IF b \in near THEN dmg ELSE 0] IN
               ws' = DamageEach(ws, taken, OfPlayer) /\ fj' = EmittedRocket(fj, taken)
    <2>1. PICK near \in SUBSET Item, dmg \in Damages :
               LET taken == [b \in Item |-> IF b \in near THEN dmg ELSE 0] IN
               ws' = DamageEach(ws, taken, OfPlayer) /\ fj' = EmittedRocket(fj, taken)
      BY <1>2
    <2> DEFINE taken == [b \in Item |-> IF b \in near THEN dmg ELSE 0]
    <2>2. dmg \in 1 .. 255 /\ OfPlayer \in Sources
      BY LevelFacts
    <2>3. taken \in [Item -> 0 .. 255]
      BY <2>2
    <2>4. ws' = DamageEach(ws, taken, OfPlayer) /\ fj' = EmittedRocket(fj, taken)
      BY <2>1
    <2> HIDE DEF taken
    <2>5. Alike(ws', fj')
      BY <2>3, <2>4, RocketAlike
    <2>6. Blasted(ws, ws', taken, Barrels)
      BY <1>0, <2>2, <2>3, <2>4, DamageEachLeaves
    <2> QED BY <2>5, <2>6, Zenon DEF Does, Blasted
  <1> QED BY <1>1, <1>2 DEF MissileHits

(* A barrels' turn is the turn of a barrel of the level.                   *)
LEMMA TurnFacts ==
  ASSUME level \in Levels, turn \in 1 .. Turns
  PROVE  /\ (turn % Turns) + 1 \in 1 .. Turns
         /\ Phase = "barrels" => Slot \in Item
  <1>1. Barrels \in Nat /\ MonsterTics \in Nat \ {0}
    BY LevelFacts
  <1>2. WorldLen \in Nat /\ WorldLen > 1 /\ WorldLen = 2 + Barrels
    BY <1>1 DEF WorldLen
  <1>3. MonsterTics * WorldLen \in Nat
    <2> DEFINE mt == MonsterTics
               wl == WorldLen
    <2>1. mt \in Nat /\ wl \in Nat
      BY <1>1, <1>2
    <2> HIDE DEF mt, wl
    <2>2. mt * wl \in Nat
      BY <2>1
    <2> QED BY <2>2 DEF mt, wl
  <1>4. Turns \in Nat /\ Turns > 0
    BY <1>3 DEF Turns
  <1>5. (turn % Turns) + 1 \in 1 .. Turns
    BY <1>4
  <1>6. ASSUME Phase = "barrels" PROVE Slot \in Item
    <2>1. turn \in Nat /\ turn >= 1
      BY <1>4
    <2>2. turn # 1
      BY <1>6 DEF Phase
    <2>3. turn > 1
      BY <2>1, <2>2
    <2>4. InWorld \in 0 .. WorldLen - 1
      BY <1>2, <2>1, <2>3 DEF InWorld
    <2>5. InWorld # 0 /\ InWorld # 1
      BY <1>6, <2>2, <2>3 DEF Phase
    <2> QED BY <1>1, <1>2, <2>4, <2>5 DEF Slot, Item
  <1> QED BY <1>5, <1>6

(* Every turn keeps the cells alike and hits each barrel once at most.     *)
LEMMA FrameDoes ==
  ASSUME level \in Levels, turn \in 1 .. Turns, Alike(ws, fj), \A b \in Item : GoodAt(ws, b), Frame
  PROVE  Alike(ws', fj') /\ turn' \in 1 .. Turns /\ \A b \in Item : Does(ws, ws', b)
  <1>0. ws \in BarrelCells
    BY DEF Alike
  <1>1. ASSUME GoOn PROVE turn' \in 1 .. Turns
    BY <1>1, TurnFacts DEF GoOn
  <1>2. CASE PlayerShoots
    BY <1>1, <1>2, LevelFacts, HitByDoes DEF PlayerShoots
  <1>3. CASE MonsterShoots
    <2>1. PICK m \in Monsters : HitBy(Source(m))
      BY <1>3 DEF MonsterShoots
    <2>2. Source(m) \in Sources
      BY LevelFacts
    <2> QED BY <1>1, <1>3, <2>1, <2>2, HitByDoes DEF MonsterShoots
  <1>4. CASE MissileHits
    BY <1>1, <1>4, MissileHitsDoes DEF MissileHits
  <1>5. CASE BarrelsPhase
    <2>1. Slot \in Item /\ ws' = BarrelTic(ws, Slot) /\ fj' = EmittedTic(fj, Slot) /\ GoOn
      BY <1>5, TurnFacts DEF BarrelsPhase
    <2>2. ws.st[Slot] # 0 => ws.ti[Slot] > 0
      BY <1>0, <2>1, GoodHasTics
    <2>3. Alike(ws', fj')
      BY <2>1, <2>2, TicAlike
    <2>4. Ticked(ws, ws', Slot)
      BY <1>0, <2>1, <2>2, TicWorks
    <2>5. \A b \in Item : Does(ws, ws', b)
      BY <2>4, Zenon DEF Does, Ticked
    <2> QED BY <1>1, <2>1, <2>3, <2>5
  <1> QED BY <1>2, <1>3, <1>4, <1>5 DEF Frame

(***************************************************************************)
(* What that keeps, barrel by barrel                                       *)
(***************************************************************************)

(* FateOf of a state, and Barrel's steps or a stutter.                     *)
Fate(st) ==
  CASE st = 0 -> "gone" [] st \in 1 .. 2 -> "stands" [] st \in S_BEXP .. A_Explode - 1 -> "burns"
    [] OTHER -> "spent"

FateSteps(old, new) ==
  \/ new = old
  \/ old = "stands" /\ new = "burns"
  \/ old = "burns" /\ new = "spent"
  \/ old = "spent" /\ new = "gone"

(* The fates state by state.                                               *)
LEMMA Fates ==
  ASSUME NEW st \in 0 .. 7
  PROVE  /\ st = 0 => Fate(st) = "gone"
         /\ st \in 1 .. 2 => Fate(st) = "stands"
         /\ st \in 3 .. 5 => Fate(st) = "burns"
         /\ st \in 6 .. 7 => Fate(st) = "spent"
  BY DEF Fate, S_BEXP, A_Explode

(* Whatever a turn does to a barrel, it burns exactly when its health is   *)
(* out, its fate goes on as Barrel's, and only the first is blamed.        *)
LEMMA DoesWell ==
  ASSUME level \in Levels, NEW w \in BarrelCells, NEW v \in BarrelCells, NEW b \in Item,
         GoodAt(w, b), Does(w, v, b)
  PROVE  /\ GoodAt(v, b) /\ FateSteps(Fate(w.st[b]), Fate(v.st[b]))
         /\ v.src[b] # w.src[b] => w.src[b] = NoSource /\ v.hp[b] < w.hp[b] /\ v.hp[b] > 0
  <1>1. w.st[b] \in 0 .. 7 /\ v.st[b] \in 0 .. 7 /\ w.hp[b] \in Int /\ v.hp[b] \in Int
        /\ w.ti[b] \in 0 .. 14
    BY DEF BarrelCells, S_BEXP5, BARREL_HEALTH_MIN
  <1>2. /\ w.st[b] # 0 => (w.st[b] \in 3 .. 7 <=> w.hp[b] <= 0)
        /\ w.st[b] # 0 => w.ti[b] \in 1 .. TicsOf[w.st[b]]
        /\ w.st[b] = 0 => w.ti[b] = 0
        /\ (w.st[b] # 0 <=> w.solid[b] = 1)
        /\ w.st[b] = 0 => (w.hp[b] <= 0 \/ b \notin Standing)
    BY DEF GoodAt, Burning, S_BEXP, S_BEXP5
  <1>7. /\ (w.st[b] = 0 => Fate(w.st[b]) = "gone") /\ (w.st[b] \in 1 .. 2 => Fate(w.st[b]) = "stands")
        /\ (w.st[b] \in 3 .. 5 => Fate(w.st[b]) = "burns") /\ (w.st[b] \in 6 .. 7 => Fate(w.st[b]) = "spent")
    <2> DEFINE st == w.st[b]
    <2>1. st \in 0 .. 7
      BY <1>1
    <2> HIDE DEF st
    <2>2. /\ (st = 0 => Fate(st) = "gone") /\ (st \in 1 .. 2 => Fate(st) = "stands")
        /\ (st \in 3 .. 5 => Fate(st) = "burns") /\ (st \in 6 .. 7 => Fate(st) = "spent")
      BY <2>1, Fates
    <2> QED BY <2>2 DEF st
  <1>8. /\ (v.st[b] = 0 => Fate(v.st[b]) = "gone") /\ (v.st[b] \in 1 .. 2 => Fate(v.st[b]) = "stands")
        /\ (v.st[b] \in 3 .. 5 => Fate(v.st[b]) = "burns") /\ (v.st[b] \in 6 .. 7 => Fate(v.st[b]) = "spent")
    <2> DEFINE st == v.st[b]
    <2>1. st \in 0 .. 7
      BY <1>1
    <2> HIDE DEF st
    <2>2. /\ (st = 0 => Fate(st) = "gone") /\ (st \in 1 .. 2 => Fate(st) = "stands")
        /\ (st \in 3 .. 5 => Fate(st) = "burns") /\ (st \in 6 .. 7 => Fate(st) = "spent")
      BY <2>1, Fates
    <2> QED BY <2>2 DEF st
  <1>3. CASE Untouched(w, v, b) /\ v.solid[b] = w.solid[b]
    <2>1. GoodAt(v, b)
      BY <1>3, Zenon DEF GoodAt, Untouched
    <2>2. Fate(v.st[b]) = Fate(w.st[b])
      BY <1>3, Zenon DEF Fate, Untouched
    <2> QED BY <1>3, <2>1, <2>2 DEF Untouched, FateSteps
  <1>4. CASE Killed(w, v, b) /\ v.solid[b] = w.solid[b]
    <2>1. /\ w.st[b] \in 1 .. 2 /\ v.st[b] = 3 /\ v.hp[b] <= 0
          /\ v.ti[b] \in 1 .. TicsOf[3] /\ v.src[b] = w.src[b]
      BY <1>1, <1>2, <1>4 DEF Killed, Alive, S_BEXP
    <2>2. v.solid[b] = 1
      BY <1>2, <1>4, <2>1
    <2>3. GoodAt(v, b)
      BY <2>1, <2>2 DEF GoodAt, Burning, S_BEXP, S_BEXP5
    <2>4. Fate(w.st[b]) = "stands" /\ Fate(v.st[b]) = "burns"
      BY <1>1, <2>1, <1>7, <1>8
    <2> QED BY <2>1, <2>3, <2>4 DEF FateSteps
  <1>5. CASE Hurt(w, v, b) /\ v.solid[b] = w.solid[b]
    <2>1. /\ w.st[b] \in 1 .. 2 /\ v.st[b] = w.st[b] /\ v.hp[b] > 0 /\ v.ti[b] = w.ti[b] /\ v.hp[b] < w.hp[b]
          /\ (v.src[b] # w.src[b] => w.src[b] = NoSource)
      BY <1>1, <1>2, <1>5 DEF Hurt, Alive
    <2>2. GoodAt(v, b)
      <3>1. v.ti[b] \in 1 .. TicsOf[v.st[b]] /\ v.st[b] # 0 /\ v.solid[b] = 1
        BY <1>2, <1>5, <2>1
      <3>2. ~(v.st[b] \in Burning) /\ ~(v.hp[b] <= 0)
        BY <1>1, <2>1 DEF Burning, S_BEXP, S_BEXP5
      <3> QED BY <3>1, <3>2, Zenon DEF GoodAt
    <2>3. Fate(v.st[b]) = Fate(w.st[b])
      BY <1>1, <2>1, <1>7, <1>8
    <2> QED BY <2>1, <2>2, <2>3 DEF FateSteps
  <1>6. CASE TickedAt(w, v, b)
    <2> DEFINE st == NextState(w.st[b])
    <2>0. v.hp[b] = w.hp[b] /\ v.src[b] = w.src[b]
      BY <1>6, Zenon DEF TickedAt
    <2>1. CASE w.st[b] = 0 /\ v.st[b] = 0 /\ v.ti[b] = w.ti[b] /\ v.solid[b] = w.solid[b]
      <3>1. GoodAt(v, b)
        BY <2>0, <2>1, <1>2 DEF GoodAt
      <3>2. Fate(v.st[b]) = "gone" /\ Fate(w.st[b]) = "gone"
        BY <1>1, <2>1, <1>7, <1>8
      <3> QED BY <2>0, <3>1, <3>2 DEF FateSteps
    <2>2. CASE /\ w.st[b] # 0 /\ w.ti[b] # 1
               /\ v.st[b] = w.st[b] /\ v.ti[b] = w.ti[b] - 1 /\ v.solid[b] = w.solid[b]
      <3>1. v.ti[b] \in 1 .. TicsOf[v.st[b]]
        <4>1. w.st[b] \in 1 .. 7
          BY <1>1, <2>2
        <4>2. TicsOf[w.st[b]] \in 1 .. 14
          BY <4>1, TicsOfStates
        <4>3. w.ti[b] \in 1 .. TicsOf[w.st[b]]
          BY <1>2, <2>2
        <4> QED BY <2>2, <4>2, <4>3
      <3>2. GoodAt(v, b)
        <4>1. v.st[b] # 0 => (v.st[b] \in Burning <=> v.hp[b] <= 0)
          BY <2>0, <2>2, Zenon DEF GoodAt
        <4> QED BY <2>2, <1>2, <3>1, <4>1, Zenon DEF GoodAt
      <3>3. Fate(v.st[b]) = Fate(w.st[b])
        BY <2>2, Zenon DEF Fate
      <3> QED BY <2>0, <3>2, <3>3 DEF FateSteps
    <2>3. CASE /\ w.st[b] # 0 /\ w.ti[b] = 1 /\ st = 0
               /\ v.st[b] = 0 /\ v.ti[b] = 0 /\ v.solid[b] = 0
      <3>1. w.st[b] = 7
        <4>1. w.st[b] \in 1 .. 7
          BY <1>1, <2>3
        <4> QED BY <2>3, <4>1, NextStates
      <3>2. v.hp[b] <= 0
        BY <1>2, <2>0, <3>1
      <3>3. GoodAt(v, b)
        BY <2>3, <3>2 DEF GoodAt
      <3>4. Fate(w.st[b]) = "spent" /\ Fate(v.st[b]) = "gone"
        BY <1>1, <2>3, <3>1, <1>7, <1>8
      <3> QED BY <2>0, <3>3, <3>4 DEF FateSteps
    <2>4. CASE /\ w.st[b] # 0 /\ w.ti[b] = 1 /\ st # 0
               /\ v.st[b] = st /\ v.ti[b] = TicsOf[st] /\ v.solid[b] = w.solid[b]
      <3>1. /\ w.st[b] \in 1 .. 6 /\ st \in 1 .. 7
            /\ (w.st[b] \in 1 .. 2 => st \in 1 .. 2) /\ (w.st[b] \in 3 .. 6 => st = w.st[b] + 1)
        <4>1. w.st[b] \in 1 .. 7
          BY <1>1, <2>4
        <4>2. /\ st \in 0 .. 7 /\ (st = 0 <=> w.st[b] = 7)
              /\ (w.st[b] \in 1 .. 2 => st \in 1 .. 2) /\ (w.st[b] \in 3 .. 6 => st = w.st[b] + 1)
          BY <4>1, NextStates
        <4> HIDE DEF st
        <4> QED BY <2>4, <4>1, <4>2
      <3> HIDE DEF st
      <3>2. v.ti[b] \in 1 .. TicsOf[v.st[b]]
        <4>1. TicsOf[st] \in 1 .. 14
          BY <3>1, TicsOfStates
        <4> QED BY <2>4, <4>1
      <3>3. v.st[b] \in 3 .. 7 <=> w.st[b] \in 3 .. 7
        BY <2>4, <3>1
      <3>4. v.st[b] \in Burning <=> v.hp[b] <= 0
        BY <1>2, <2>0, <2>4, <3>3 DEF Burning, S_BEXP, S_BEXP5
      <3>5. GoodAt(v, b)
        BY <1>2, <2>4, <3>2, <3>4, Zenon DEF GoodAt
      <3>6. FateSteps(Fate(w.st[b]), Fate(v.st[b]))
        <4>1. CASE w.st[b] \in 1 .. 2
          <5>1. Fate(w.st[b]) = "stands" /\ Fate(v.st[b]) = "stands"
            BY <1>1, <2>4, <3>1, <4>1, <1>7, <1>8
          <5> QED BY <5>1 DEF FateSteps
        <4>2. CASE w.st[b] \in 3 .. 4
          <5>1. v.st[b] \in 4 .. 5
            BY <2>4, <3>1, <4>2
          <5>2. Fate(w.st[b]) = "burns" /\ Fate(v.st[b]) = "burns"
            BY <1>1, <4>2, <5>1, <1>7, <1>8
          <5> QED BY <5>2 DEF FateSteps
        <4>3. CASE w.st[b] = 5
          <5>1. v.st[b] = 6
            BY <2>4, <3>1, <4>3
          <5>2. Fate(w.st[b]) = "burns" /\ Fate(v.st[b]) = "spent"
            BY <1>1, <4>3, <5>1, <1>7, <1>8
          <5> QED BY <5>2 DEF FateSteps
        <4>4. CASE w.st[b] = 6
          <5>1. v.st[b] = 7
            BY <2>4, <3>1, <4>4
          <5>2. Fate(w.st[b]) = "spent" /\ Fate(v.st[b]) = "spent"
            BY <1>1, <4>4, <5>1, <1>7, <1>8
          <5> QED BY <5>2 DEF FateSteps
        <4> QED BY <3>1, <4>1, <4>2, <4>3, <4>4
      <3> QED BY <2>0, <3>5, <3>6
    <2> QED BY <1>6, <2>1, <2>2, <2>3, <2>4, Zenon DEF TickedAt
  <1> QED BY <1>3, <1>4, <1>5, <1>6, Zenon DEF Does, OnceHit

(***************************************************************************)
(* The level start                                                         *)
(***************************************************************************)

(* A level starts alike, its barrels standing or, on this skill, gone.     *)
LEMMA StartsWell ==
  ASSUME level \in Levels, NEW p \in Phases
  PROVE  /\ Alike(StartWs(p), StartFj(p))
         /\ \A b \in Item : /\ GoodAt(StartWs(p), b)
                           /\ Fate(StartWs(p).st[b]) = IF b \in Standing THEN "stands" ELSE "gone"
  <1> DEFINE w == StartWs(p)
             f == StartFj(p)
             ti == [b \in Item |-> IF b \in Standing THEN p[b] ELSE 0]
             none == [b \in Item |-> NoSource]
  <1>1. /\ w.st = OnStanding(1) /\ w.ti = ti /\ w.hp = OnStanding(SpawnHealth) /\ w.solid = OnStanding(1)
        /\ w.src = none /\ w.rng = 1
    BY DEF StartWs, S_BAR1
  <1>2. /\ f.st = OnStanding(1) /\ f.ti = ti /\ f.hp = OnStanding(SpawnHealth) /\ f.solid = OnStanding(1)
        /\ f.src = none /\ f.rng = 1 /\ f.vis = OnStanding(1)
    BY DEF StartFj, S_BAR1
  <1>3. TicsOf[1] \in 1 .. 14 /\ SpawnHealth \in 1 .. 127 /\ 1 \in 1 .. Len(Fxrnd)
    BY ModelRules, TicsOfStates
  <1>4. \A b \in Item : p[b] \in 1 .. TicsOf[1]
    BY DEF Phases, S_BAR1
  <1>5. /\ OnStanding(1) \in [Item -> 0 .. 7] /\ OnStanding(1) \in [Item -> {0, 1}]
        /\ ti \in [Item -> 0 .. 14] /\ none \in [Item -> Sources]
        /\ OnStanding(SpawnHealth) \in [Item -> 0 .. SpawnHealth]
    <2>1. ti \in [Item -> 0 .. 14]
      <3>1. \A b \in Item : p[b] \in 0 .. 14
        BY <1>3, <1>4
      <3> QED BY <3>1
    <2>2. none \in [Item -> Sources]
      BY LevelFacts
    <2> QED BY <1>3, <2>1, <2>2 DEF OnStanding
  <1>6. OnStanding(SpawnHealth) \in [Item -> BARREL_HEALTH_MIN .. SpawnHealth]
        /\ OnStanding(SpawnHealth) \in [Item -> 0 .. 255]
    BY <1>3 DEF OnStanding, BARREL_HEALTH_MIN
  <1>7. ti \in [Item -> 0 .. 15]
    BY <1>5
  <1> HIDE DEF ti, none
  <1>8. w \in BarrelCells
    BY <1>3, <1>5, <1>6 DEF BarrelCells, StartWs, S_BAR1, S_BEXP5, ti, none
  <1>9. f \in EmittedCells
    <2>1. [st |-> 0, ti |-> 0, hp |-> 0, sr |-> 0] \in Window
      BY LevelFacts DEF Window, S_BEXP5, NoSource
    <2> QED BY <1>3, <1>5, <1>6, <1>7, <2>1, LevelFacts DEF EmittedCells, StartFj, S_BAR1, S_BEXP5, ti, none
  <1> HIDE DEF w, f
  <1>10. ASSUME NEW b \in Item
         PROVE  /\ f.st[b] = w.st[b] /\ f.ti[b] = w.ti[b] /\ Signed(f.hp[b]) = w.hp[b]
                /\ f.solid[b] = w.solid[b] /\ f.src[b] = w.src[b]
                /\ (f.vis[b] = 1 <=> w.st[b] # 0)
    <2>1. Signed(f.hp[b]) = w.hp[b]
      BY <1>1, <1>2, <1>3 DEF Signed, OnStanding
    <2>2. f.vis[b] = 1 <=> w.st[b] # 0
      BY <1>1, <1>2 DEF OnStanding
    <2> QED BY <1>1, <1>2, <2>1, <2>2
  <1>11. Alike(w, f)
    BY <1>1, <1>2, <1>8, <1>9, <1>10, Zenon DEF Alike
  <1>12. ASSUME NEW b \in Item
         PROVE  /\ GoodAt(w, b)
                /\ Fate(w.st[b]) = IF b \in Standing THEN "stands" ELSE "gone"
    <2>1. CASE b \in Standing
      <3>1. w.st[b] = 1 /\ w.ti[b] \in 1 .. TicsOf[1] /\ w.hp[b] = SpawnHealth /\ w.solid[b] = 1
        BY <1>1, <1>4, <2>1 DEF OnStanding, ti
      <3>2. GoodAt(w, b)
        BY <1>3, <3>1 DEF GoodAt, Burning, S_BEXP, S_BEXP5
      <3>3. Fate(1) = "stands"
        BY Fates
      <3> QED BY <2>1, <3>1, <3>2, <3>3
    <2>2. CASE b \notin Standing
      <3>1. w.st[b] = 0 /\ w.ti[b] = 0 /\ w.hp[b] = 0 /\ w.solid[b] = 0
        BY <1>1, <2>2 DEF OnStanding, ti
      <3>2. GoodAt(w, b)
        BY <2>2, <3>1 DEF GoodAt
      <3>3. Fate(0) = "gone"
        BY Fates
      <3> QED BY <2>2, <3>1, <3>2, <3>3
    <2> QED BY <2>1, <2>2
  <1> QED BY <1>11, <1>12 DEF w, f

(***************************************************************************)
(* The invariant                                                           *)
(***************************************************************************)

(* The invariant, by its parts.                                            *)
LEMMA InStepIs ==
  BarrelsInStep <=> /\ level \in Levels /\ turn \in 1 .. Turns
                    /\ Alike(ws, fj) /\ \A b \in Item : GoodAt(ws, b)
  BY Zenon DEF BarrelsInStep, TypeOK, HealthTellsState, BinaryIsModel, Alike, GoodAt

(* The ranges are the level's, and stay.                                   *)
LEMMA SameLevel ==
  ASSUME level' = level
  PROVE  /\ BarrelCells' = BarrelCells /\ EmittedCells' = EmittedCells /\ Item' = Item
         /\ Standing' = Standing /\ Turns' = Turns
  BY DEF BarrelCells, EmittedCells, Window, Item, Standing, Turns, WorldLen, Barrels, MonsterTics, Sources,
         Monsters

(* BarrelsInStep of the next state, from its parts.                        *)
LEMMA InStepNext ==
  ASSUME level' = level, turn' \in 1 .. Turns, level \in Levels,
         Alike(ws', fj'), \A b \in Item : GoodAt(ws', b)
  PROVE  BarrelsInStep'
  BY SameLevel, Zenon DEF BarrelsInStep, TypeOK, HealthTellsState, BinaryIsModel, Alike, GoodAt

(* One step: the three theorems in one.                                    *)
LEMMA StepDoes ==
  ASSUME BarrelsInStep, Next
  PROVE  /\ BarrelsInStep'
         /\ \/ /\ turn' = turn
               /\ \A b \in Item : Fate(ws'.st[b]) = IF b \in Standing THEN "stands" ELSE "gone"
            \/ \A b \in Item :
                 /\ FateSteps(Fate(ws.st[b]), Fate(ws'.st[b]))
                 /\ ws'.src[b] # ws.src[b] =>
                      ws.src[b] = NoSource /\ ws'.hp[b] < ws.hp[b] /\ ws'.hp[b] > 0
  <1>1. /\ level \in Levels /\ turn \in 1 .. Turns /\ level' = level
        /\ Alike(ws, fj) /\ \A b \in Item : GoodAt(ws, b)
    BY InStepIs DEF Next
  <1>2. CASE Restart
    <2>1. PICK p \in Phases : ws' = StartWs(p) /\ fj' = StartFj(p)
      BY <1>2 DEF Restart
    <2>2. turn' = turn
      BY <1>2 DEF Restart
    <2>3. Alike(ws', fj') /\ \A b \in Item : GoodAt(ws', b)
      BY <1>1, <2>1, StartsWell
    <2>4. \A b \in Item : Fate(ws'.st[b]) = IF b \in Standing THEN "stands" ELSE "gone"
      BY <1>1, <2>1, StartsWell
    <2>5. BarrelsInStep'
      BY <1>1, <2>2, <2>3, InStepNext
    <2> QED BY <2>2, <2>4, <2>5
  <1>3. CASE Frame
    <2>1. Alike(ws', fj') /\ turn' \in 1 .. Turns /\ \A b \in Item : Does(ws, ws', b)
      BY <1>1, <1>3, FrameDoes
    <2>2. ws \in BarrelCells /\ ws' \in BarrelCells
      BY <1>1, <2>1 DEF Alike
    <2>3. ASSUME NEW b \in Item
          PROVE  /\ GoodAt(ws', b) /\ FateSteps(Fate(ws.st[b]), Fate(ws'.st[b]))
                 /\ ws'.src[b] # ws.src[b] =>
                      ws.src[b] = NoSource /\ ws'.hp[b] < ws.hp[b] /\ ws'.hp[b] > 0
      BY <1>1, <2>1, <2>2, DoesWell
    <2>4. BarrelsInStep'
      BY <1>1, <2>1, <2>3, InStepNext
    <2> QED BY <2>3, <2>4
  <1> QED BY <1>2, <1>3 DEF Next

(* A level starts in step.                                                 *)
LEMMA InitInStep ==
  ASSUME Init
  PROVE  BarrelsInStep
  <1>1. PICK p \in Phases : ws = StartWs(p) /\ fj = StartFj(p)
    BY DEF Init
  <1>2. level \in Levels /\ turn = 1
    BY DEF Init
  <1>3. turn \in 1 .. Turns
    <2>1. WorldLen \in Nat /\ MonsterTics \in Nat
      BY <1>2, LevelFacts DEF WorldLen
    <2> DEFINE mt == MonsterTics
               wl == WorldLen
    <2> HIDE DEF mt, wl
    <2>2. mt * wl \in Nat
      BY <2>1 DEF mt, wl
    <2>3. Turns = 1 + mt * wl
      BY DEF Turns, mt, wl
    <2> QED BY <1>2, <2>2, <2>3
  <1>4. Alike(ws, fj) /\ \A b \in Item : GoodAt(ws, b)
    BY <1>1, <1>2, StartsWell
  <1> QED BY <1>2, <1>3, <1>4, InStepIs

(* Through every volley, stray shot, rocket and chain of blasts, with any  *)
(* number of barrels and any reach, the emitted barrels hold what the      *)
(* model's do and a barrel burns exactly when its health is out.           *)
THEOREM BarrelsFollow == Spec => []BarrelsInStep
  <1>1. Init => BarrelsInStep
    BY InitInStep
  <1>2. BarrelsInStep /\ [Next]_vars => BarrelsInStep'
    <2>1. CASE Next
      BY <2>1, StepDoes
    <2>2. CASE UNCHANGED vars
      BY <2>2 DEF vars, BarrelsInStep, TypeOK, HealthTellsState, BinaryIsModel, BarrelCells, EmittedCells,
                  Window, Item, Standing, Turns, WorldLen, Barrels, MonsterTics, Sources, Monsters
    <2> QED BY <2>1, <2>2
  <1> QED BY <1>1, <1>2, PTL DEF Spec

(* Whoever a barrel is blamed on hurt it first and did not finish it, in   *)
(* every chain of blasts (combat.damage_barrel, _radius_attack).           *)
THEOREM BlameIsTheFirsts == Spec => [][BlameIsFirst]_vars
  <1>1. BarrelsInStep /\ [Next]_vars => [BlameIsFirst]_vars
    <2> SUFFICES ASSUME BarrelsInStep, Next PROVE BlameIsFirst
      OBVIOUS
    <2> QED BY StepDoes, Zenon DEF BlameIsFirst
  <1> QED BY <1>1, BarrelsFollow, PTL DEF Spec

(***************************************************************************)
(* The refinement                                                          *)
(***************************************************************************)

(* FateOf is the fate of a barrel's state.                                 *)
LEMMA FateIs ==
  \A b : FateOf(b) = Fate(ws.st[b])
  BY Zenon DEF FateOf, Fate

(* Every barrel is the one Barrel describes: it stands, burns once it is   *)
(* killed, blasts once and is gone, and only a new game puts it back.      *)
THEOREM BarrelsImplementBarrel == Spec => ImplementsBarrel
  <1>1. Init => BarrelsStart
    <2> SUFFICES ASSUME Init, NEW b \in Item PROVE FateOf(b) = IF b \in Standing THEN "stands" ELSE "gone"
      BY Zenon DEF BarrelsStart, BarrelAt!Placed
    <2>1. PICK p \in Phases : ws = StartWs(p) /\ fj = StartFj(p)
      BY DEF Init
    <2>2. level \in Levels
      BY DEF Init
    <2> QED BY <2>1, <2>2, StartsWell, FateIs
  <1>2. BarrelsInStep /\ [Next]_vars => [BarrelsStep]_vars
    <2> SUFFICES ASSUME BarrelsInStep, Next PROVE BarrelsStep
      OBVIOUS
    <2>1. level' = level
      BY DEF Next
    <2>2. Standing' = Standing
      BY <2>1, SameLevel
    <2>3. \A b : FateOf(b)' = Fate(ws'.st[b])
      BY Zenon DEF FateOf, Fate
    <2>4. CASE /\ turn' = turn
               /\ \A b \in Item : Fate(ws'.st[b]) = IF b \in Standing THEN "stands" ELSE "gone"
      <3>1. ASSUME NEW b \in Item PROVE BarrelAt(b)!Reborn
        BY <2>2, <2>3, <2>4, Zenon DEF BarrelAt!Reborn
      <3> QED BY <2>4, <3>1, Zenon DEF BarrelsStep
    <2>5. CASE \A b \in Item : FateSteps(Fate(ws.st[b]), Fate(ws'.st[b]))
      <3>1. ASSUME NEW b \in Item PROVE BarrelAt(b)!Ends \/ UNCHANGED BarrelAt(b)!barrel
        <4>1. FateSteps(FateOf(b), FateOf(b)')
          BY <2>3, <2>5, FateIs
        <4> QED BY <2>2, <4>1, Zenon
                DEF FateSteps, BarrelAt!Ends, BarrelAt!Kill, BarrelAt!Blast, BarrelAt!Go, BarrelAt!barrel
      <3> QED BY <3>1, Zenon DEF BarrelsStep
    <2> QED BY <2>4, <2>5, StepDoes
  <1> QED BY <1>1, <1>2, BarrelsFollow, PTL DEF Spec, ImplementsBarrel

(***************************************************************************)
(* The leaf lists                                                          *)
(***************************************************************************)

(* The lists of N things in the leaves of Lv, each thing in row's leaf.    *)
ListShape(ls, N, Lv) == ls \in [head : [Lv -> 0 .. N], next : [1 .. N -> 0 .. N]]

(* The things that stand in a leaf.                                        *)
In(row, leaf) == {t \in DOMAIN row : row[t] = leaf}

(* Every leaf's list is what a rebuild from the rows gives.                *)
ListsHold(ls, N, Lv, row) ==
  ListShape(ls, N, Lv) /\ \A leaf \in Lv : IsListOf(ls, leaf, In(row, leaf))

(* The first of a set of things.                                           *)
LEMMA FirstIs ==
  ASSUME NEW N \in Nat, NEW S \in SUBSET (1 .. N)
  PROVE  /\ FirstOf(S) \in 0 .. N
         /\ FirstOf(S) = 0 => S = {}
         /\ FirstOf(S) # 0 => FirstOf(S) \in S
         /\ \A u \in S : FirstOf(S) # 0 /\ FirstOf(S) <= u
  <1>1. CASE S = {}
    BY <1>1 DEF FirstOf
  <1>2. CASE S # {}
    <2>0. S \subseteq Nat
      OBVIOUS
    <2>1. PICK m \in S : \A k \in S : <<k, m>> \notin OpToRel(<, Nat)
      BY <1>2, <2>0, WFMin, NatLessThanWellFounded
    <2>2. ASSUME NEW k \in S PROVE m <= k
      <3>1. k \in Nat /\ m \in Nat
        BY <2>0
      <3>2. ~(k < m)
        BY <2>1, <3>1 DEF OpToRel
      <3> QED BY <3>1, <3>2
    <2>3. FirstOf(S) \in S /\ \A u \in S : FirstOf(S) <= u
      BY <1>2, <2>2 DEF FirstOf
    <2>4. FirstOf(S) \in 1 .. N
      BY <2>3
    <2> QED BY <1>2, <2>3, <2>4
  <1> QED BY <1>1, <1>2

(* It is the only one.                                                     *)
LEMMA FirstOnly ==
  ASSUME NEW N \in Nat, NEW S \in SUBSET (1 .. N), NEW m \in S, \A u \in S : m <= u
  PROVE  FirstOf(S) = m
  <1>1. FirstOf(S) \in S /\ FirstOf(S) <= m /\ m <= FirstOf(S)
    BY FirstIs
  <1>2. FirstOf(S) \in 1 .. N /\ m \in 1 .. N
    BY <1>1
  <1> QED BY <1>1, <1>2

(* A walk starts at the head and follows the links.                        *)
WalkOf(w, N, ls, leaf) ==
  /\ w \in [0 .. N -> 0 .. N] /\ w[0] = ls.head[leaf]
  /\ \A j \in 1 .. N : w[j] = IF w[j - 1] = 0 THEN 0 ELSE ls.next[w[j - 1]]

(* What the fold of Walk CHOOSEs is such a walk.                           *)
LEMMA WalkIs ==
  ASSUME NEW N \in Nat, NEW Lv, NEW ls, ListShape(ls, N, Lv), NEW leaf \in Lv
  PROVE  WalkOf(Walk(ls, leaf), N, ls, leaf)
  <1> DEFINE On == [at \in 0 .. N |-> IF at = 0 THEN 0 ELSE ls.next[at]]
             G  == [i \in 1 .. N |-> On]
  <1>1. ls.head[leaf] \in 0 .. N /\ ls.next \in [1 .. N -> 0 .. N] /\ {0} \union DOMAIN ls.next = 0 .. N
    BY DEF ListShape
  <1>2. On \in [0 .. N -> 0 .. N]
    BY <1>1
  <1>3. Maps(G, N, 0 .. N)
    <2> HIDE DEF On
    <2> QED BY <1>2 DEF Maps
  <1>4. PICK h : Iterate(h, N, 0 .. N, ls.head[leaf], G)
    <2> HIDE DEF G
    <2> QED BY <1>1, <1>3, Iterates
  <1>5. h \in [0 .. N -> 0 .. N] /\ h[0] = ls.head[leaf]
    BY <1>4 DEF Iterate
  <1>6. ASSUME NEW i \in 1 .. N PROVE h[i] = IF h[i - 1] = 0 THEN 0 ELSE ls.next[h[i - 1]]
    <2>1. i - 1 \in 0 .. N /\ h[i - 1] \in 0 .. N
      BY <1>5
    <2>2. h[i] = G[i][h[i - 1]]
      BY <1>4 DEF Iterate
    <2>3. G[i][h[i - 1]] = On[h[i - 1]]
      OBVIOUS
    <2> QED BY <2>1, <2>2, <2>3
  <1> DEFINE Def(g) == [i \in {0} \union DOMAIN ls.next |->
                          IF i = 0 THEN ls.head[leaf] ELSE IF g[i - 1] = 0 THEN 0 ELSE ls.next[g[i - 1]]]
             after == CHOOSE g : g = Def(g)
  <1>7. Walk(ls, leaf) = after
    BY DEF Walk
  <1>8. h = Def(h)
    <2>1. \A i \in 0 .. N : h[i] = Def(h)[i]
      BY <1>1, <1>5, <1>6
    <2> QED BY <1>1, <1>5, <2>1
  <1>9. after = Def(after)
    <2> HIDE DEF Def
    <2> QED BY <1>8
  <1> HIDE DEF after
  <1>10. after = [i \in 0 .. N |-> after[i]]
    BY <1>1, <1>9
  <1>11. after[0] = ls.head[leaf]
    BY <1>1, <1>9
  <1>12. ASSUME NEW i \in 1 .. N
         PROVE  after[i] = IF after[i - 1] = 0 THEN 0 ELSE ls.next[after[i - 1]]
    <2>1. i \in 0 .. N /\ i # 0
      OBVIOUS
    <2> QED BY <1>1, <1>9, <2>1
  <1> DEFINE T == {i \in 0 .. N : after[i] = h[i]}
  <1>13. 0 \in T
    BY <1>5, <1>11
  <1>14. ASSUME NEW i \in 1 .. N, i - 1 \in T PROVE i \in T
    BY <1>6, <1>12, <1>14
  <1>15. \A i \in 0 .. N : i \in T
    <2> HIDE DEF T
    <2> QED BY <1>13, <1>14, UpTo
  <1>16. \A i \in 0 .. N : after[i] \in 0 .. N
    BY <1>5, <1>15
  <1>17. after \in [0 .. N -> 0 .. N]
    BY <1>10, <1>16
  <1>18. WalkOf(after, N, ls, leaf)
    BY <1>11, <1>12, <1>17 DEF WalkOf
  <1> QED BY <1>7, <1>18, Zenon

(* A walk of a list passes its things in order: where it stands, what is   *)
(* behind it are the lesser ones, and after as many steps as there are     *)
(* things it is at the end.                                                *)
LEMMA WalkPasses ==
  ASSUME NEW N \in Nat, NEW Lv, NEW ls, ListShape(ls, N, Lv), NEW leaf \in Lv,
         NEW S \in SUBSET (1 .. N), IsListOf(ls, leaf, S)
  PROVE  /\ Walk(ls, leaf)[0] = FirstOf(S)
         /\ \A i \in 0 .. N : Walk(ls, leaf)[i] # 0 => Walk(ls, leaf)[i] \in S
         /\ \A i \in 1 .. N :
              Walk(ls, leaf)[i - 1] # 0 => Walk(ls, leaf)[i] = FirstOf(Past(S, Walk(ls, leaf)[i - 1]))
         /\ Walk(ls, leaf)[N] = 0
  <1> DEFINE w == Walk(ls, leaf)
  <1>1. /\ w \in [0 .. N -> 0 .. N] /\ w[0] = ls.head[leaf]
        /\ \A i \in 1 .. N : w[i] = IF w[i - 1] = 0 THEN 0 ELSE ls.next[w[i - 1]]
    <2>1. WalkOf(w, N, ls, leaf)
      BY WalkIs
    <2> HIDE DEF w
    <2> QED BY <2>1 DEF WalkOf
  <1> HIDE DEF w
  <1>2. w[0] = FirstOf(S)
    BY <1>1 DEF IsListOf
  <1> DEFINE T == {i \in 0 .. N : w[i] # 0 => w[i] \in S /\ w[i] > i}
  <1>3. 0 \in T
    <2>1. w[0] # 0 => w[0] \in S /\ w[0] \in 1 .. N
      BY <1>2, FirstIs
    <2> QED BY <2>1
  <1>4. ASSUME NEW i \in 1 .. N, i - 1 \in T PROVE i \in T
    <2>1. CASE w[i - 1] = 0
      BY <1>1, <2>1
    <2>2. CASE w[i - 1] # 0
      <3> DEFINE Rest == Past(S, w[i - 1])
      <3>1. w[i - 1] \in S /\ w[i - 1] > i - 1
        BY <1>4, <2>2
      <3>2. w[i] = FirstOf(Rest)
        BY <1>1, <2>2, <3>1 DEF IsListOf
      <3>3. Rest \in SUBSET (1 .. N)
        BY DEF Past
      <3>4. w[i] # 0 => w[i] \in Rest
        <4> HIDE DEF Rest
        <4> QED BY <3>2, <3>3, FirstIs
      <3>5. w[i] # 0 => w[i] \in S /\ w[i] > w[i - 1]
        BY <3>4 DEF Past
      <3>6. w[i] \in 0 .. N /\ w[i - 1] \in 0 .. N
        BY <1>1
      <3> QED BY <3>1, <3>5, <3>6
    <2> QED BY <2>1, <2>2
  <1>5. \A i \in 0 .. N : i \in T
    <2> HIDE DEF T
    <2> QED BY <1>3, <1>4, UpTo
  <1>6. ASSUME NEW i \in 1 .. N, w[i - 1] # 0
        PROVE  w[i] = FirstOf(Past(S, w[i - 1]))
    <2>1. i - 1 \in 0 .. N /\ w[i - 1] \in S
      BY <1>5, <1>6
    <2> QED BY <1>1, <1>6, <2>1 DEF IsListOf
  <1>7. w[N] = 0
    <2>1. N \in 0 .. N /\ w[N] \in 0 .. N
      BY <1>1
    <2> QED BY <1>5, <2>1
  <1>8. \A i \in 0 .. N : w[i] # 0 => w[i] \in S
    BY <1>5
  <1> QED BY <1>2, <1>6, <1>7, <1>8 DEF w

(* A walk that ends finds its first stop.                                  *)
LEMMA StepFound ==
  ASSUME NEW N \in Nat, NEW w \in [0 .. N -> 0 .. N], w[N] = 0, NEW stops, 0 \in stops
  PROVE  /\ FirstStep(w, stops) \in 0 .. N /\ w[FirstStep(w, stops)] \in stops
         /\ \A j \in 0 .. FirstStep(w, stops) - 1 : w[j] \notin stops
  <1> DEFINE Stood == {k \in 0 .. N : w[k] \in stops}
  <1>1. Stood \in SUBSET Nat /\ N \in Stood
    OBVIOUS
  <1>2. PICK m \in Stood : \A k \in Stood : <<k, m>> \notin OpToRel(<, Nat)
    BY <1>1, WFMin, NatLessThanWellFounded
  <1>3. ASSUME NEW j \in 0 .. m - 1 PROVE w[j] \notin stops
    <2>1. m \in 0 .. N /\ j \in 0 .. N /\ j < m /\ j \in Nat /\ m \in Nat
      OBVIOUS
    <2>2. <<j, m>> \in OpToRel(<, Nat)
      BY <2>1 DEF OpToRel
    <2>3. j \notin Stood
      BY <1>2, <2>2
    <2> QED BY <2>1, <2>3
  <1>4. DOMAIN w = 0 .. N
    OBVIOUS
  <1>5. m \in DOMAIN w /\ w[m] \in stops
    BY <1>2
  <1> QED BY <1>3, <1>4, <1>5 DEF FirstStep

(* Whether p is the last of S before t; 0: S has none before t.            *)
Before(S, t, p) == IF p = 0 THEN Past(S, t) = S ELSE p \in S /\ p < t /\ Past(S, p) = Past(S, t)

(* A new thing past one of the set is not its first.                       *)
LEMMA FirstKept ==
  ASSUME NEW N \in Nat, NEW S \in SUBSET (1 .. N), NEW t \in 1 .. N, NEW p \in S, p < t
  PROVE  FirstOf(S \union {t}) = FirstOf(S)
  <1>1. FirstOf(S) \in S /\ \A u \in S : FirstOf(S) <= u
    BY FirstIs
  <1>2. FirstOf(S) \in 1 .. N /\ p \in 1 .. N /\ FirstOf(S) <= p
    BY <1>1
  <1>3. FirstOf(S) <= t
    BY <1>2
  <1>4. S \union {t} \in SUBSET (1 .. N)
    OBVIOUS
  <1>5. FirstOf(S) \in S \union {t} /\ \A u \in S \union {t} : FirstOf(S) <= u
    BY <1>1, <1>3
  <1> DEFINE m == FirstOf(S)
             U == S \union {t}
  <1> HIDE DEF m, U
  <1> QED BY <1>4, <1>5, FirstOnly DEF m, U

(* A list of S and one of S and t agree but around t: t points to the      *)
(* first past it, and what points to that, points to t.                    *)
LEMMA AgreeButAround ==
  ASSUME NEW N \in Nat, NEW Lv, NEW without, NEW with, NEW leaf \in Lv,
         ListShape(without, N, Lv), ListShape(with, N, Lv),
         NEW S \in SUBSET (1 .. N), NEW t \in 1 .. N, t \notin S, NEW p, Before(S, t, p),
         with.head[leaf] = IF p = 0 THEN t ELSE without.head[leaf],
         p = 0 => without.head[leaf] = FirstOf(Past(S, t)),
         p # 0 => with.next[p] = t,
         p # 0 => without.next[p] = FirstOf(Past(S, t)),
         with.next[t] = FirstOf(Past(S, t)),
         \A q \in S : q # p => with.next[q] = without.next[q]
  PROVE  IsListOf(without, leaf, S) <=> IsListOf(with, leaf, S \union {t})
  <1> DEFINE U == S \union {t}
  <1>a. U \in SUBSET (1 .. N) /\ Past(S, t) \in SUBSET (1 .. N)
    BY DEF Past
  <1>1. Past(U, t) = Past(S, t)
    BY DEF Past
  <1>2. ASSUME p = 0 PROVE FirstOf(U) = t /\ FirstOf(Past(S, t)) = FirstOf(S)
    <2>1. Past(S, t) = S
      BY <1>2 DEF Before
    <2>2. t \in U /\ \A u \in U : t <= u
      BY <2>1 DEF Past
    <2> HIDE DEF U
    <2> QED BY <1>a, <2>1, <2>2, FirstOnly
  <1>3. ASSUME p # 0 PROVE FirstOf(U) = FirstOf(S)
    BY <1>3, FirstKept DEF Before
  <1>4. ASSUME NEW q \in S, q # p PROVE FirstOf(Past(U, q)) = FirstOf(Past(S, q))
    <2>1. q \in 1 .. N /\ q # t
      OBVIOUS
    <2>2. CASE q > t
      <3>1. Past(U, q) = Past(S, q)
        BY <2>1, <2>2 DEF Past
      <3> QED BY <3>1
    <2>3. CASE q < t
      <3>1. p # 0 /\ p \in S /\ p < t /\ p \in 1 .. N
        <4>1. q \notin Past(S, t)
          BY <2>1, <2>3 DEF Past
        <4> QED BY <4>1 DEF Before
      <3>2. q \notin Past(S, p)
        BY <2>1, <2>3, <3>1 DEF Before, Past
      <3>3. q < p
        BY <1>4, <2>1, <3>1, <3>2 DEF Past
      <3>4. p \in Past(S, q) /\ Past(S, q) \in SUBSET (1 .. N) /\ Past(U, q) = Past(S, q) \union {t}
        BY <2>1, <2>3, <3>1, <3>3 DEF Past
      <3> DEFINE V == Past(S, q)
      <3>5. FirstOf(V \union {t}) = FirstOf(V)
        <4>1. V \in SUBSET (1 .. N) /\ p \in V /\ p < t
          BY <3>1, <3>4
        <4> HIDE DEF V
        <4> QED BY <4>1, FirstKept
      <3> QED BY <3>4, <3>5
    <2> QED BY <2>1, <2>2, <2>3
  <1>5. ASSUME p # 0 PROVE FirstOf(Past(U, p)) = t /\ Past(S, p) = Past(S, t)
    <2>1. p \in S /\ p < t /\ Past(S, p) = Past(S, t) /\ p \in 1 .. N
      BY <1>5 DEF Before
    <2>2. Past(U, p) = Past(S, t) \union {t}
      BY <2>1 DEF Past
    <2>3. t \in Past(U, p) /\ \A u \in Past(U, p) : t <= u
      BY <2>2 DEF Past
    <2>4. Past(U, p) \in SUBSET (1 .. N)
      BY DEF Past
    <2> QED BY <2>1, <2>3, <2>4, FirstOnly
  <1>6. IsListOf(without, leaf, S) <=>
          without.head[leaf] = FirstOf(S) /\ \A q \in S : without.next[q] = FirstOf(Past(S, q))
    BY DEF IsListOf, Past
  <1>7. IsListOf(with, leaf, U) <=>
          with.head[leaf] = FirstOf(U) /\ \A q \in U : with.next[q] = FirstOf(Past(U, q))
    BY DEF IsListOf, Past
  <1>8. with.head[leaf] = FirstOf(U) <=> without.head[leaf] = FirstOf(S)
    BY <1>2, <1>3
  <1>9. with.next[t] = FirstOf(Past(U, t))
    BY <1>1
  <1>10. ASSUME NEW q \in S
         PROVE  with.next[q] = FirstOf(Past(U, q)) <=> without.next[q] = FirstOf(Past(S, q))
    <2>1. CASE q = p
      <3>1. p # 0
        BY <2>1
      <3> QED BY <1>5, <2>1, <3>1
    <2>2. CASE q # p
      <3>1. with.next[q] = without.next[q]
        BY <2>2
      <3> QED BY <1>4, <2>2, <3>1
    <2> QED BY <2>1, <2>2
  <1> HIDE DEF U
  <1>11. U = S \union {t}
    BY DEF U
  <1> QED BY <1>6, <1>7, <1>8, <1>9, <1>10, <1>11

(* The lists with t put into leaf's after p, and taken out of it.          *)
Spliced(ls, leaf, t, p, rest) ==
  [head |-> IF p = 0 THEN [ls.head EXCEPT ![leaf] = t] ELSE ls.head,
   next |-> IF p = 0 THEN [ls.next EXCEPT ![t] = rest] ELSE [ls.next EXCEPT ![t] = rest, ![p] = t]]

Unspliced(ls, leaf, t, p, rest) ==
  [head |-> IF p = 0 THEN [ls.head EXCEPT ![leaf] = rest] ELSE ls.head,
   next |-> IF p = 0 THEN [ls.next EXCEPT ![t] = 0] ELSE [ls.next EXCEPT ![p] = rest, ![t] = 0]]

(* Where a link goes: before the first thing past t.                       *)
LEMMA LinkFinds ==
  ASSUME NEW N \in Nat, NEW Lv, NEW ls, ListShape(ls, N, Lv), NEW leaf \in Lv,
         NEW S \in SUBSET (1 .. N), IsListOf(ls, leaf, S), NEW t \in 1 .. N, t \notin S
  PROVE  \E p \in 0 .. N :
           /\ Before(S, t, p)
           /\ FirstOf(Past(S, t)) = IF p = 0 THEN ls.head[leaf] ELSE ls.next[p]
           /\ Link(ls, leaf, t) = Spliced(ls, leaf, t, p, FirstOf(Past(S, t)))
  <1> DEFINE w == Walk(ls, leaf)
  <1>1. /\ w \in [0 .. N -> 0 .. N] /\ w[0] = ls.head[leaf]
        /\ \A j \in 1 .. N : w[j] = IF w[j - 1] = 0 THEN 0 ELSE ls.next[w[j - 1]]
    <2>1. WalkOf(w, N, ls, leaf)
      BY WalkIs
    <2> HIDE DEF w
    <2> QED BY <2>1 DEF WalkOf
  <1>2. /\ w[0] = FirstOf(S)
        /\ \A j \in 0 .. N : w[j] # 0 => w[j] \in S
        /\ \A j \in 1 .. N : w[j - 1] # 0 => w[j] = FirstOf(Past(S, w[j - 1]))
        /\ w[N] = 0
    BY WalkPasses
  <1>3. ls = [head |-> ls.head, next |-> ls.next] /\ DOMAIN ls.next = 1 .. N
    BY DEF ListShape
  <1> HIDE DEF w
  <1> DEFINE stops == {0} \union {u \in DOMAIN ls.next : u > t}
             i == FirstStep(w, stops)
  <1>w. Link(ls, leaf, t) = IF i = 0 THEN [ls EXCEPT !.next[t] = w[0], !.head[leaf] = t]
                            ELSE [ls EXCEPT !.next = [@ EXCEPT ![t] = w[i], ![w[i - 1]] = t]]
    BY DEF Link, w
  <1>4. i \in 0 .. N /\ w[i] \in stops /\ \A j \in 0 .. i - 1 : w[j] \notin stops
    <2>1. 0 \in stops
      OBVIOUS
    <2> HIDE DEF stops
    <2> QED BY <1>1, <1>2, <2>1, StepFound
  <1> HIDE DEF i
  <1>s. \A u \in S : u \in 1 .. N /\ u # t
    OBVIOUS
  <1>5. w[i] = 0 \/ w[i] > t
    BY <1>4
  <1>6. w[i] \in 0 .. N
    BY <1>1, <1>4
  <1>7. CASE i = 0
    <2>1. w[0] = 0 => S = {}
      BY <1>2, FirstIs
    <2>2. w[0] # 0 => \A u \in S : w[0] <= u
      BY <1>2, FirstIs
    <2>3. Past(S, t) = S
      <3>1. \A u \in S : u > t
        BY <1>s, <1>5, <1>6, <1>7, <2>1, <2>2
      <3> QED BY <3>1 DEF Past
    <2>4. w[0] = FirstOf(Past(S, t))
      BY <1>2, <2>3
    <2>5. Link(ls, leaf, t) = Spliced(ls, leaf, t, 0, FirstOf(Past(S, t)))
      BY <1>3, <1>7, <1>w, <2>4 DEF Spliced
    <2> QED BY <1>1, <2>3, <2>4, <2>5 DEF Before
  <1>8. CASE i # 0
    <2> DEFINE p == w[i - 1]
    <2>1. i \in 1 .. N /\ i - 1 \in 0 .. i - 1 /\ i - 1 \in 0 .. N
      BY <1>4, <1>8
    <2>2. p \in 0 .. N /\ p \notin stops
      BY <1>1, <1>4, <2>1
    <2>3. p # 0 /\ p <= t /\ p \in S
      BY <1>2, <1>3, <2>1, <2>2
    <2>4. p < t
      BY <2>2, <2>3
    <2>5. w[i] = FirstOf(Past(S, p))
      BY <1>2, <2>1, <2>3
    <2>6. Past(S, p) \in SUBSET (1 .. N)
      BY DEF Past
    <2>10. w[i] = ls.next[p]
      BY <1>1, <2>1, <2>3
    <2>w. Link(ls, leaf, t) = [ls EXCEPT !.next = [@ EXCEPT ![t] = w[i], ![p] = t]]
      BY <1>w, <1>8
    <2> HIDE DEF p
    <2>7. w[i] = 0 => Past(S, p) = {}
      BY <2>5, <2>6, FirstIs
    <2>8. w[i] # 0 => \A u \in Past(S, p) : w[i] <= u
      BY <2>5, <2>6, FirstIs
    <2>9. Past(S, p) = Past(S, t)
      <3>1. ASSUME NEW u \in S, u > p PROVE u > t
        <4>1. u \in Past(S, p) /\ u \in 1 .. N
          BY <3>1 DEF Past
        <4> QED BY <1>5, <1>6, <2>7, <2>8, <4>1
      <3>2. ASSUME NEW u \in S, u > t PROVE u > p
        BY <2>2, <2>4, <3>2
      <3> QED BY <3>1, <3>2 DEF Past
    <2>11. Link(ls, leaf, t) = Spliced(ls, leaf, t, p, FirstOf(Past(S, t)))
      BY <1>3, <2>3, <2>5, <2>9, <2>w DEF Spliced
    <2> QED BY <2>2, <2>3, <2>4, <2>5, <2>9, <2>10, <2>11 DEF Before
  <1> QED BY <1>7, <1>8

(* A link puts a thing that stands nowhere into its leaf's list, and no    *)
(* other list is touched.                                                  *)
LEMMA LinkHolds ==
  ASSUME NEW N \in Nat, NEW Lv, 0 \notin Lv, NEW ls, NEW row \in [1 .. N -> Lv \union {0}],
         ListsHold(ls, N, Lv, row), NEW leaf \in Lv, NEW t \in 1 .. N, row[t] = 0
  PROVE  ListsHold(Link(ls, leaf, t), N, Lv, [row EXCEPT ![t] = leaf])
  <1> DEFINE S == In(row, leaf)
             rest == FirstOf(Past(S, t))
             new == Link(ls, leaf, t)
             here == [row EXCEPT ![t] = leaf]
  <1>1. ListShape(ls, N, Lv) /\ \A l \in Lv : IsListOf(ls, l, In(row, l))
    BY DEF ListsHold
  <1>2. S \in SUBSET (1 .. N) /\ t \notin S /\ IsListOf(ls, leaf, S) /\ Past(S, t) \in SUBSET (1 .. N)
    BY <1>1 DEF In, Past
  <1>3. PICK p \in 0 .. N : /\ Before(S, t, p) /\ rest = IF p = 0 THEN ls.head[leaf] ELSE ls.next[p]
                            /\ new = Spliced(ls, leaf, t, p, rest)
    <2> HIDE DEF S
    <2> QED BY <1>1, <1>2, LinkFinds
  <1>5. In(here, leaf) = S \union {t} /\ \A l \in Lv : l # leaf => In(here, l) = In(row, l)
    BY DEF In
  <1>6. rest \in 0 .. N
    <2> DEFINE past == Past(S, t)
    <2> HIDE DEF past
    <2> QED BY <1>2, FirstIs DEF past
  <1>p. p = 0 \/ (p \in S /\ p \in 1 .. N /\ p # t)
    BY <1>2, <1>3 DEF Before
  <1>q. p \in S => row[p] = leaf
    BY DEF In
  <1> HIDE DEF S, new, here, rest
  <1>7. /\ ls = [head |-> ls.head, next |-> ls.next] /\ ls.head \in [Lv -> 0 .. N]
        /\ ls.next \in [1 .. N -> 0 .. N]
    BY <1>1 DEF ListShape
  <1>8. /\ new.head = IF p = 0 THEN [ls.head EXCEPT ![leaf] = t] ELSE ls.head
        /\ new.next = IF p = 0 THEN [ls.next EXCEPT ![t] = rest] ELSE [ls.next EXCEPT ![t] = rest, ![p] = t]
        /\ new = [head |-> new.head, next |-> new.next]
    BY <1>3 DEF Spliced
  <1>9. ListShape(new, N, Lv)
    <2>1. new.head \in [Lv -> 0 .. N]
      BY <1>7, <1>8
    <2>2. new.next \in [1 .. N -> 0 .. N]
      <3>1. CASE p = 0
        BY <1>6, <1>7, <1>8, <3>1
      <3>2. CASE p # 0
        <4>1. p \in 1 .. N /\ t \in 0 .. N
          BY <1>p, <3>2
        <4>2. [ls.next EXCEPT ![t] = rest] \in [1 .. N -> 0 .. N]
          BY <1>6, <1>7
        <4>3. [ls.next EXCEPT ![t] = rest, ![p] = t] \in [1 .. N -> 0 .. N]
          BY <4>1, <4>2
        <4> QED BY <1>8, <3>2, <4>3
      <3> QED BY <3>1, <3>2
    <2> QED BY <1>8, <2>1, <2>2 DEF ListShape
  <1>10. IsListOf(new, leaf, S \union {t})
    <2>2. new.head[leaf] = IF p = 0 THEN t ELSE ls.head[leaf]
      BY <1>7, <1>8
    <2>3. p = 0 => ls.head[leaf] = rest
      BY <1>3
    <2>4. p # 0 => new.next[p] = t /\ ls.next[p] = rest
      BY <1>3, <1>7, <1>8, <1>p
    <2>5. new.next[t] = rest
      BY <1>7, <1>8, <1>p
    <2>6. \A q \in S : q # p => new.next[q] = ls.next[q]
      BY <1>2, <1>7, <1>8, <1>p
    <2> QED BY <1>1, <1>2, <1>3, <1>9, <2>2, <2>3, <2>4, <2>5, <2>6, AgreeButAround DEF rest
  <1>11. ASSUME NEW l \in Lv, l # leaf PROVE IsListOf(new, l, In(row, l))
    <2>1. new.head[l] = ls.head[l]
      BY <1>7, <1>8, <1>11
    <2>2. ASSUME NEW q \in In(row, l) PROVE new.next[q] = ls.next[q]
      <3>1. q \in 1 .. N /\ row[q] = l /\ q # t
        BY DEF In
      <3> QED BY <1>7, <1>8, <1>11, <1>p, <1>q, <3>1
    <2> QED BY <1>1, <2>1, <2>2 DEF IsListOf
  <1>12. ASSUME NEW l \in Lv PROVE IsListOf(new, l, In(here, l))
    BY <1>5, <1>10, <1>11
  <1> QED BY <1>9, <1>12 DEF ListsHold, new, here

(* Where an unlink finds its thing: after p.                               *)
UnlinksAt(ls, leaf, t, S, p) ==
  /\ Before(S, t, p)
  /\ t = IF p = 0 THEN ls.head[leaf] ELSE ls.next[p]
  /\ Unlink(ls, leaf, t) = Unspliced(ls, leaf, t, p, ls.next[t])

(* Where an unlink goes: at the thing before t, or at the head.            *)
LEMMA UnlinkFinds ==
  ASSUME NEW N \in Nat, NEW Lv, NEW ls, ListShape(ls, N, Lv), NEW leaf \in Lv,
         NEW U \in SUBSET (1 .. N), IsListOf(ls, leaf, U), NEW t \in U
  PROVE  \E p \in 0 .. N : UnlinksAt(ls, leaf, t, U \ {t}, p)
  <1> DEFINE w == Walk(ls, leaf)
             i == FirstStep(w, {0, t})
             S == U \ {t}
  <1>1. /\ w \in [0 .. N -> 0 .. N] /\ w[0] = ls.head[leaf]
        /\ \A j \in 1 .. N : w[j] = IF w[j - 1] = 0 THEN 0 ELSE ls.next[w[j - 1]]
    <2> HIDE DEF i, S
    <2>1. WalkOf(w, N, ls, leaf)
      BY WalkIs
    <2> HIDE DEF w
    <2> QED BY <2>1 DEF WalkOf
  <1>2. /\ w[0] = FirstOf(U)
        /\ \A j \in 0 .. N : w[j] # 0 => w[j] \in U
        /\ \A j \in 1 .. N : w[j - 1] # 0 => w[j] = FirstOf(Past(U, w[j - 1]))
        /\ w[N] = 0
    BY WalkPasses
  <1>3. ls = [head |-> ls.head, next |-> ls.next] /\ DOMAIN ls.next = 1 .. N
    BY DEF ListShape
  <1>w. Unlink(ls, leaf, t) =
          IF w[i] = 0 THEN ls
          ELSE IF i = 0 THEN [ls EXCEPT !.head[leaf] = ls.next[t], !.next[t] = 0]
          ELSE [ls EXCEPT !.next = [@ EXCEPT ![w[i - 1]] = ls.next[t], ![t] = 0]]
    BY DEF Unlink
  <1> HIDE DEF w
  <1>4. i \in 0 .. N /\ w[i] \in {0, t} /\ \A j \in 0 .. i - 1 : w[j] \notin {0, t}
    <2>1. 0 \in {0, t}
      OBVIOUS
    <2> QED BY <1>1, <1>2, <2>1, StepFound
  <1> HIDE DEF i
  <1>t. t \in 1 .. N /\ \A u \in U : u \in 1 .. N
    OBVIOUS
  <1> DEFINE T == {j \in 0 .. N : j <= i => w[j] \in U /\ w[j] <= t}
  <1>5. 0 \in T
    <2>1. w[0] # 0 /\ w[0] <= t
      BY <1>2, FirstIs
    <2>2. w[0] \in U
      BY <1>2, <2>1
    <2> QED BY <2>1, <2>2
  <1>6. ASSUME NEW j \in 1 .. N, j - 1 \in T PROVE j \in T
    <2> SUFFICES ASSUME j <= i PROVE w[j] \in U /\ w[j] <= t
      OBVIOUS
    <2>1. j - 1 \in 0 .. i - 1 /\ w[j - 1] \in U /\ w[j - 1] <= t
      BY <1>4, <1>6
    <2>2. w[j - 1] # t /\ w[j - 1] # 0 /\ w[j - 1] \in 1 .. N
      BY <1>4, <2>1
    <2> DEFINE rest == Past(U, w[j - 1])
    <2>3. w[j] = FirstOf(rest)
      BY <1>2, <2>2
    <2>4. t \in rest /\ rest \in SUBSET (1 .. N)
      <3>1. t > w[j - 1]
        BY <1>t, <2>1, <2>2
      <3> QED BY <3>1 DEF Past
    <2>5. w[j] \in rest /\ w[j] <= t
      <3> HIDE DEF rest
      <3> QED BY <2>3, <2>4, FirstIs
    <2> QED BY <2>5 DEF Past
  <1>7. \A j \in 0 .. N : j \in T
    <2> HIDE DEF T
    <2> QED BY <1>5, <1>6, UpTo
  <1>8. w[i] = t /\ t # 0
    BY <1>4, <1>7
  <1>9. CASE i = 0
    <2>1. \A u \in U : t <= u
      BY <1>2, <1>8, <1>9, FirstIs
    <2>2. Past(S, t) = S
      <3>1. \A u \in S : u > t
        BY <1>t, <2>1
      <3> QED BY <3>1 DEF Past
    <2>3. ls.head[leaf] = t
      BY <1>1, <1>8, <1>9
    <2>4. Unlink(ls, leaf, t) = Unspliced(ls, leaf, t, 0, ls.next[t])
      BY <1>3, <1>8, <1>9, <1>w DEF Unspliced
    <2> QED BY <2>2, <2>3, <2>4 DEF Before, UnlinksAt
  <1>10. CASE i # 0
    <2> DEFINE p == w[i - 1]
    <2>1. i \in 1 .. N /\ i - 1 \in 0 .. i - 1 /\ i - 1 \in 0 .. N
      BY <1>4, <1>10
    <2>2. p \in 1 .. N /\ p # t /\ p # 0 /\ p \in U /\ p <= t
      <3>1. i - 1 \in T
        BY <1>7, <2>1
      <3>2. w[i - 1] \in U /\ w[i - 1] <= t
        BY <2>1, <3>1
      <3>3. w[i - 1] \notin {0, t}
        BY <1>4, <2>1
      <3> QED BY <1>t, <3>2, <3>3
    <2> DEFINE rest == Past(U, p)
    <2>3. t = FirstOf(rest)
      BY <1>2, <1>8, <2>1, <2>2
    <2>4. rest \in SUBSET (1 .. N)
      BY DEF Past
    <2>7. ls.next[p] = t
      BY <1>1, <1>8, <2>1, <2>2
    <2>8. Unlink(ls, leaf, t) = Unspliced(ls, leaf, t, p, ls.next[t])
      BY <1>3, <1>8, <1>10, <1>w, <2>2 DEF Unspliced
    <2>5. \A u \in rest : t <= u
      <3> HIDE DEF rest
      <3> QED BY <2>3, <2>4, FirstIs
    <2> HIDE DEF p
    <2>6. Past(S, p) = Past(S, t)
      <3>1. ASSUME NEW u \in S, u > p PROVE u > t
        <4>1. u \in Past(U, p) /\ u # t /\ u \in 1 .. N
          BY <3>1 DEF Past
        <4> QED BY <1>t, <2>5, <4>1
      <3>2. ASSUME NEW u \in S, u > t PROVE u > p
        BY <1>t, <2>2, <3>2
      <3> QED BY <3>1, <3>2 DEF Past
    <2>9. p \in S /\ p < t /\ p \in 0 .. N
      BY <1>t, <2>2
    <2> QED BY <2>2, <2>6, <2>7, <2>8, <2>9 DEF Before, UnlinksAt
  <1> QED BY <1>9, <1>10

(* An unlink takes a thing out of its leaf's list, and no other list is    *)
(* touched.                                                                *)
LEMMA UnlinkHolds ==
  ASSUME NEW N \in Nat, NEW Lv, 0 \notin Lv, NEW ls, NEW row \in [1 .. N -> Lv \union {0}],
         ListsHold(ls, N, Lv, row), NEW leaf \in Lv, NEW t \in 1 .. N, row[t] = leaf
  PROVE  ListsHold(Unlink(ls, leaf, t), N, Lv, [row EXCEPT ![t] = 0])
  <1> DEFINE U == In(row, leaf)
             S == U \ {t}
             rest == FirstOf(Past(S, t))
             new == Unlink(ls, leaf, t)
             gone == [row EXCEPT ![t] = 0]
  <1>1. ListShape(ls, N, Lv) /\ \A l \in Lv : IsListOf(ls, l, In(row, l))
    BY DEF ListsHold
  <1>2. U \in SUBSET (1 .. N) /\ t \in U /\ IsListOf(ls, leaf, U)
    BY <1>1 DEF In
  <1>3. PICK p \in 0 .. N : /\ Before(S, t, p) /\ t = IF p = 0 THEN ls.head[leaf] ELSE ls.next[p]
                            /\ new = Unspliced(ls, leaf, t, p, ls.next[t])
    <2> HIDE DEF U, new, S
    <2>1. PICK p \in 0 .. N : UnlinksAt(ls, leaf, t, U \ {t}, p)
      BY <1>1, <1>2, UnlinkFinds
    <2> QED BY <2>1 DEF new, S, UnlinksAt
  <1>5. In(gone, leaf) = S /\ \A l \in Lv : l # leaf => In(gone, l) = In(row, l)
    BY DEF In
  <1>6. ls.next[t] = rest
    <2>1. Past(S, t) = Past(U, t)
      BY <1>2 DEF Past
    <2> QED BY <1>2, <2>1 DEF IsListOf
  <1>p. p = 0 \/ (p \in U /\ p \in 1 .. N /\ p # t)
    BY <1>2, <1>3 DEF Before
  <1>q. p \in U => row[p] = leaf
    BY DEF In
  <1>s. S \in SUBSET (1 .. N) /\ t \notin S /\ S \union {t} = U
    BY <1>2
  <1> HIDE DEF S, U, new, gone, rest
  <1>7. /\ ls = [head |-> ls.head, next |-> ls.next] /\ ls.head \in [Lv -> 0 .. N]
        /\ ls.next \in [1 .. N -> 0 .. N]
    BY <1>1 DEF ListShape
  <1>r. rest \in 0 .. N
    BY <1>6, <1>7
  <1>8. /\ new.head = IF p = 0 THEN [ls.head EXCEPT ![leaf] = rest] ELSE ls.head
        /\ new.next = IF p = 0 THEN [ls.next EXCEPT ![t] = 0] ELSE [ls.next EXCEPT ![p] = rest, ![t] = 0]
        /\ new = [head |-> new.head, next |-> new.next]
    BY <1>3, <1>6 DEF Unspliced
  <1>9. ListShape(new, N, Lv)
    <2>1. new.head \in [Lv -> 0 .. N] /\ new.next \in [1 .. N -> 0 .. N]
      BY <1>r, <1>7, <1>8, <1>p
    <2> QED BY <1>8, <2>1 DEF ListShape
  <1>10. IsListOf(new, leaf, S)
    <2>2. ls.head[leaf] = IF p = 0 THEN t ELSE new.head[leaf]
      BY <1>3, <1>7, <1>8
    <2>3. p = 0 => new.head[leaf] = rest
      BY <1>7, <1>8
    <2>4. p # 0 => ls.next[p] = t /\ new.next[p] = rest
      BY <1>3, <1>7, <1>8, <1>p
    <2>6. \A q \in S : q # p => ls.next[q] = new.next[q]
      BY <1>s, <1>7, <1>8, <1>p
    <2>5. ListShape(ls, N, Lv) /\ Before(S, t, p)
      BY <1>1, <1>3
    <2>7. IsListOf(new, leaf, S) <=> IsListOf(ls, leaf, S \union {t})
      <3>1. rest = FirstOf(Past(S, t))
        BY DEF rest
      <3>2. ls.next[t] = FirstOf(Past(S, t))
        BY <1>6, <3>1
      <3>3. /\ p = 0 => new.head[leaf] = FirstOf(Past(S, t))
            /\ p # 0 => new.next[p] = FirstOf(Past(S, t))
        BY <2>3, <2>4, <3>1
      <3> QED BY <1>s, <1>9, <2>2, <2>4, <2>5, <2>6, <3>2, <3>3, AgreeButAround
    <2> QED BY <1>2, <1>s, <2>7
  <1>11. ASSUME NEW l \in Lv, l # leaf PROVE IsListOf(new, l, In(row, l))
    <2>1. new.head[l] = ls.head[l]
      BY <1>7, <1>8, <1>11
    <2>2. ASSUME NEW q \in In(row, l) PROVE new.next[q] = ls.next[q]
      <3>1. q \in 1 .. N /\ row[q] = l /\ q # t
        BY <1>11 DEF In
      <3> QED BY <1>7, <1>8, <1>11, <1>p, <1>q, <3>1
    <2> QED BY <1>1, <2>1, <2>2 DEF IsListOf
  <1>12. ASSUME NEW l \in Lv PROVE IsListOf(new, l, In(gone, l))
    BY <1>5, <1>10, <1>11
  <1> QED BY <1>9, <1>12 DEF ListsHold, new, gone

(***************************************************************************)
(* The mobiles                                                             *)
(***************************************************************************)

(* What a level of the constants is.                                       *)
LEMMA StageFacts ==
  ASSUME stage \in Stages
  PROVE  /\ Walkers \in Nat /\ MissilePool \in Nat /\ FxPool \in Nat /\ MaxRoll \in Nat
         /\ 0 \notin Leaf /\ stage.start \in [Monster -> Leaf]
         /\ Shooter \subseteq Monster /\ Dropper \subseteq Monster
         /\ PlayerMissile \subseteq {"rocket", "plasma"}
         /\ \A k \in MissileKind \union FxKind : Run[k] \in Nat \ {0} /\ BurstTics[k] \in 1 .. 15
         /\ Run["puff"] >= 3 /\ Run["blood"] >= 3
         /\ \A k \in MissileKind : FlightTics[k] \in 1 .. 15
         /\ \A k \in {"blood", "puff"} \union MissileKind : BurstTics[k] > MaxRoll
         /\ \A k \in MissileKind : k # "rocket" => FlightTics[k] > MaxRoll
         /\ "rocket" \in MissileKind => FlightTics["rocket"] = 1
         /\ stage.monsterTics \in Nat \ {0}
  <1> USE DEF Walkers, MissilePool, FxPool, MaxRoll, Leaf, Shooter, Dropper, PlayerMissile, Run,
              FlightTics, BurstTics, MissileKind, Monster
  <1>1. stage \in Stages
    OBVIOUS
  <1>2. /\ Walkers \in Nat /\ MissilePool \in Nat /\ FxPool \in Nat /\ MaxRoll \in Nat
        /\ 0 \notin Leaf /\ stage.start \in [Monster -> Leaf]
        /\ Shooter \subseteq Monster /\ Dropper \subseteq Monster
        /\ PlayerMissile \subseteq {"rocket", "plasma"}
        /\ \A k \in MissileKind \union FxKind : Run[k] \in Nat \ {0} /\ BurstTics[k] \in 1 .. 15
        /\ Run["puff"] >= 3 /\ Run["blood"] >= 3
        /\ \A k \in MissileKind : FlightTics[k] \in 1 .. 15
        /\ stage.monsterTics \in Nat \ {0}
    BY <1>1, MobilesAssumption
  <1>3. /\ \A k \in {"blood", "puff"} \union MissileKind : BurstTics[k] > MaxRoll
        /\ \A k \in MissileKind : IF k = "rocket" THEN FlightTics[k] = 1 ELSE FlightTics[k] > MaxRoll
    BY <1>1, NoClamp
  <1> QED BY <1>2, <1>3

(* The things of a level, by what they are.                                *)
LEMMA ThingFacts ==
  ASSUME stage \in Stages
  PROVE  /\ Things \in Nat /\ 0 \notin Leaf /\ Monster \subseteq Thing
         /\ \A s \in Missile : MissileThing(s) \in Thing
         /\ \A s \in Fx : FxThing(s) \in Thing
         /\ \A m \in Monster : DropThing(m) \in Thing
         /\ \A s \in Missile : MissileThing(s) \notin Monster
         /\ \A s \in Missile, m \in Monster : MissileThing(s) # DropThing(m)
         /\ \A m, n \in Monster : DropThing(m) # n
  <1>1. Walkers \in Nat /\ MissilePool \in Nat /\ FxPool \in Nat /\ 0 \notin Leaf
    BY StageFacts
  <1> QED BY <1>1 DEF Things, Thing, Monster, Missile, Fx, MissileThing, FxThing, DropThing

(* What a slot of a pool holds.                                            *)
MissileCells ==
  {FreeMissile}
  \union {p \in [act : {TRUE}, st : MissileKind \X Nat, tics : Nat, src : Nat, mom : BOOLEAN, leaf : Leaf] :
            /\ p.st[2] \in 0 .. Run[p.st[1]] /\ p.tics \in 1 .. Tics(p.st)
            /\ p.src \in (IF p.st[1] = "ball" THEN Shooter ELSE {0})}

FxCells ==
  {FreeFx}
  \union {p \in [act : {TRUE}, st : FxKind \X Nat, tics : Nat, leaf : Leaf] :
            p.st[2] \in 1 .. Run[p.st[1]] /\ p.tics \in 1 .. BurstTics[p.st[1]]}

(* The leaf of each thing, those of D having left an item.                 *)
Row(mon, proj, fx, D) ==
  [t \in Thing |->
     IF t <= Walkers THEN mon[t]
     ELSE IF t <= Walkers + MissilePool THEN proj[t - Walkers].leaf
     ELSE IF t <= PassLen THEN fx[t - Walkers - MissilePool].leaf
     ELSE IF t - PassLen \in D THEN mon[t - PassLen] ELSE 0]

(* The cells of the pools.                                                 *)
Pools(mon, proj, fx) ==
  mon \in [Monster -> Leaf] /\ proj \in [Missile -> MissileCells] /\ fx \in [Fx -> FxCells]

(* A missile's cells, in use and free.                                     *)
Flies(p) ==
  /\ p = [act |-> TRUE, st |-> p.st, tics |-> p.tics, src |-> p.src, mom |-> p.mom, leaf |-> p.leaf]
  /\ p.st \in MissileKind \X Nat /\ p.st[2] \in 0 .. Run[p.st[1]]
  /\ p.tics \in Nat /\ p.tics \in 1 .. Tics(p.st) /\ p.leaf \in Leaf /\ p.mom \in BOOLEAN
  /\ p.src \in Nat /\ p.src \in (IF p.st[1] = "ball" THEN Shooter ELSE {0})

(* A slot's cells are those of a free slot, or of one that flies.          *)
LEMMA MissileIs ==
  ASSUME NEW p
  PROVE  p \in MissileCells <=> p = FreeMissile \/ Flies(p)
  <1>1. ASSUME p \in MissileCells, p # FreeMissile PROVE Flies(p)
    <2>1. p \in [act : {TRUE}, st : MissileKind \X Nat, tics : Nat, src : Nat, mom : BOOLEAN, leaf : Leaf]
          /\ p.st[2] \in 0 .. Run[p.st[1]] /\ p.tics \in 1 .. Tics(p.st)
          /\ p.src \in (IF p.st[1] = "ball" THEN Shooter ELSE {0})
      BY <1>1 DEF MissileCells
    <2>2. p = [act |-> TRUE, st |-> p.st, tics |-> p.tics, src |-> p.src, mom |-> p.mom, leaf |-> p.leaf]
      BY <2>1
    <2> QED BY <2>1, <2>2 DEF Flies
  <1>2. ASSUME Flies(p) PROVE p \in MissileCells
    <2> DEFINE States == MissileKind \X Nat
    <2>a. p = [act |-> TRUE, st |-> p.st, tics |-> p.tics, src |-> p.src, mom |-> p.mom, leaf |-> p.leaf]
          /\ p.st \in States /\ p.tics \in Nat /\ p.src \in Nat /\ p.mom \in BOOLEAN /\ p.leaf \in Leaf
      BY <1>2 DEF Flies
    <2>b. \A st \in States, tics \in Nat, src \in Nat, mom \in BOOLEAN, leaf \in Leaf :
            [act |-> TRUE, st |-> st, tics |-> tics, src |-> src, mom |-> mom, leaf |-> leaf]
              \in [act : {TRUE}, st : States, tics : Nat, src : Nat, mom : BOOLEAN, leaf : Leaf]
      <3> HIDE DEF States
      <3> QED OBVIOUS
    <2> DEFINE q == [act |-> TRUE, st |-> p.st, tics |-> p.tics, src |-> p.src, mom |-> p.mom, leaf |-> p.leaf]
    <2>c. q \in [act : {TRUE}, st : States, tics : Nat, src : Nat, mom : BOOLEAN, leaf : Leaf]
      <3> HIDE DEF States
      <3> QED BY <2>a, <2>b
    <2>d. p = q
      BY <2>a
    <2>1. p \in [act : {TRUE}, st : States, tics : Nat, src : Nat, mom : BOOLEAN, leaf : Leaf]
      <3> HIDE DEF States, q
      <3> QED BY <2>c, <2>d
    <2> QED BY <1>2, <2>1 DEF Flies, MissileCells
  <1>3. FreeMissile \in MissileCells
    BY DEF MissileCells
  <1> QED BY <1>1, <1>2, <1>3

(* An effect's.                                                            *)
Shows(p) ==
  /\ p = [act |-> TRUE, st |-> p.st, tics |-> p.tics, leaf |-> p.leaf]
  /\ p.st \in FxKind \X Nat /\ p.st[2] \in 1 .. Run[p.st[1]]
  /\ p.tics \in Nat /\ p.tics \in 1 .. BurstTics[p.st[1]] /\ p.leaf \in Leaf

(* A slot's cells are those of a free slot, or of one that shows.          *)
LEMMA FxIs ==
  ASSUME NEW p
  PROVE  p \in FxCells <=> p = FreeFx \/ Shows(p)
  <1>1. ASSUME p \in FxCells, p # FreeFx PROVE Shows(p)
    <2>1. p \in [act : {TRUE}, st : FxKind \X Nat, tics : Nat, leaf : Leaf]
          /\ p.st[2] \in 1 .. Run[p.st[1]] /\ p.tics \in 1 .. BurstTics[p.st[1]]
      BY <1>1 DEF FxCells
    <2>2. p = [act |-> TRUE, st |-> p.st, tics |-> p.tics, leaf |-> p.leaf]
      BY <2>1
    <2> QED BY <2>1, <2>2 DEF Shows
  <1>2. ASSUME Shows(p) PROVE p \in FxCells
    <2> DEFINE States == FxKind \X Nat
    <2>a. p = [act |-> TRUE, st |-> p.st, tics |-> p.tics, leaf |-> p.leaf]
          /\ p.st \in States /\ p.tics \in Nat /\ p.leaf \in Leaf
      BY <1>2 DEF Shows
    <2>b. \A st \in States, tics \in Nat, leaf \in Leaf :
            [act |-> TRUE, st |-> st, tics |-> tics, leaf |-> leaf]
              \in [act : {TRUE}, st : States, tics : Nat, leaf : Leaf]
      <3> HIDE DEF States
      <3> QED OBVIOUS
    <2>1. p \in [act : {TRUE}, st : States, tics : Nat, leaf : Leaf]
      <3> HIDE DEF States
      <3> QED BY <2>a, <2>b, Zenon
    <2> QED BY <1>2, <2>1 DEF Shows, FxCells
  <1>3. FreeFx \in FxCells
    BY DEF FxCells
  <1> QED BY <1>1, <1>2, <1>3

(* Nothing stands but in a leaf, or nowhere.                               *)
LEMMA CellLeaf ==
  /\ \A p \in MissileCells : p.leaf \in Leaf \union {0}
  /\ \A p \in FxCells : p.leaf \in Leaf \union {0}
  <1>1. FreeMissile.leaf = 0 /\ FreeFx.leaf = 0
    BY DEF FreeMissile, FreeFx
  <1>2. /\ \A p : Flies(p) => p.leaf \in Leaf
        /\ \A p : Shows(p) => p.leaf \in Leaf
    BY DEF Flies, Shows
  <1> QED BY <1>1, <1>2, MissileIs, FxIs

(* The rows of the things, kind by kind.                                   *)
LEMMA RowIs ==
  ASSUME stage \in Stages, NEW mon, NEW proj, NEW fx, Pools(mon, proj, fx), NEW D \in SUBSET Monster
  PROVE  /\ Row(mon, proj, fx, D) \in [Thing -> Leaf \union {0}]
         /\ \A m \in Monster : Row(mon, proj, fx, D)[m] = mon[m]
         /\ \A s \in Missile : Row(mon, proj, fx, D)[MissileThing(s)] = proj[s].leaf
         /\ \A s \in Fx : Row(mon, proj, fx, D)[FxThing(s)] = fx[s].leaf
         /\ \A m \in Monster : Row(mon, proj, fx, D)[DropThing(m)] = IF m \in D THEN mon[m] ELSE 0
  <1>1. Walkers \in Nat /\ MissilePool \in Nat /\ FxPool \in Nat
    BY StageFacts
  <1>2. /\ \A m \in Monster : mon[m] \in Leaf \union {0}
        /\ \A s \in Missile : proj[s].leaf \in Leaf \union {0}
        /\ \A s \in Fx : fx[s].leaf \in Leaf \union {0}
    BY CellLeaf DEF Pools
  <1> USE DEF Things, Thing, Monster, Missile, Fx, MissileThing, FxThing, DropThing, PassLen
  <1>3. Row(mon, proj, fx, D) \in [Thing -> Leaf \union {0}]
    <2>1. ASSUME NEW t \in Thing PROVE Row(mon, proj, fx, D)[t] \in Leaf \union {0}
      <3>1. CASE t <= Walkers
        BY <1>1, <1>2, <3>1 DEF Row
      <3>2. CASE t > Walkers /\ t <= Walkers + MissilePool
        <4>1. t - Walkers \in Missile
          BY <1>1, <3>2
        <4> QED BY <1>1, <1>2, <3>2, <4>1 DEF Row
      <3>3. CASE t > Walkers + MissilePool /\ t <= PassLen
        <4>1. t - Walkers - MissilePool \in Fx
          BY <1>1, <3>3
        <4> QED BY <1>1, <1>2, <3>3, <4>1 DEF Row
      <3>4. CASE t > PassLen
        <4>1. t - PassLen \in Monster
          BY <1>1, <3>4
        <4> QED BY <1>1, <1>2, <3>4, <4>1 DEF Row
      <3> QED BY <1>1, <3>1, <3>2, <3>3, <3>4
    <2> QED BY <2>1 DEF Row
  <1>4. ASSUME NEW m \in Monster PROVE Row(mon, proj, fx, D)[m] = mon[m]
    BY <1>1 DEF Row
  <1>5. ASSUME NEW s \in Missile PROVE Row(mon, proj, fx, D)[MissileThing(s)] = proj[s].leaf
    <2>1. Walkers + s \in Thing /\ ~(Walkers + s <= Walkers) /\ (Walkers + s) - Walkers = s
          /\ Walkers + s <= Walkers + MissilePool
      BY <1>1
    <2> QED BY <2>1 DEF Row
  <1>6. ASSUME NEW s \in Fx PROVE Row(mon, proj, fx, D)[FxThing(s)] = fx[s].leaf
    <2> DEFINE t == Walkers + MissilePool + s
    <2>1. t \in Thing /\ ~(t <= Walkers) /\ t - Walkers - MissilePool = s
          /\ ~(t <= Walkers + MissilePool) /\ t <= PassLen
      BY <1>1
    <2> QED BY <2>1 DEF Row
  <1>7. ASSUME NEW m \in Monster PROVE Row(mon, proj, fx, D)[DropThing(m)] = IF m \in D THEN mon[m] ELSE 0
    <2> DEFINE t == Walkers + MissilePool + FxPool + m
    <2>1. t \in Thing /\ ~(t <= Walkers) /\ ~(t <= PassLen)
          /\ ~(t <= Walkers + MissilePool) /\ t - PassLen = m
      BY <1>1
    <2> QED BY <2>1 DEF Row
  <1> QED BY <1>3, <1>4, <1>5, <1>6, <1>7

(* A slot, a monster's leaf or an item that changes is one cell of the row. *)
LEMMA RowChanges ==
  ASSUME stage \in Stages, NEW mon, NEW proj, NEW fx, Pools(mon, proj, fx), NEW D \in SUBSET Monster
  PROVE  /\ \A s \in Missile, p \in MissileCells :
              Row(mon, [proj EXCEPT ![s] = p], fx, D) = [Row(mon, proj, fx, D) EXCEPT ![MissileThing(s)] = p.leaf]
         /\ \A s \in Fx, p \in FxCells :
              Row(mon, proj, [fx EXCEPT ![s] = p], D) = [Row(mon, proj, fx, D) EXCEPT ![FxThing(s)] = p.leaf]
         /\ \A m \in Monster \ D, leaf \in Leaf :
              Row([mon EXCEPT ![m] = leaf], proj, fx, D) = [Row(mon, proj, fx, D) EXCEPT ![m] = leaf]
         /\ \A m \in Monster :
              Row(mon, proj, fx, D \union {m}) = [Row(mon, proj, fx, D) EXCEPT ![DropThing(m)] = mon[m]]
         /\ \A m \in Monster :
              Row(mon, proj, fx, D \ {m}) = [Row(mon, proj, fx, D) EXCEPT ![DropThing(m)] = 0]
  <1>1. Walkers \in Nat /\ MissilePool \in Nat /\ FxPool \in Nat
    BY StageFacts
  <1>2. DOMAIN mon = Monster /\ DOMAIN proj = Missile /\ DOMAIN fx = Fx
    BY DEF Pools
  <1>r. /\ Row(mon, proj, fx, D) = [t \in Thing |-> Row(mon, proj, fx, D)[t]]
        /\ \A t \in Thing : Row(mon, proj, fx, D)[t] =
             IF t <= Walkers THEN mon[t]
             ELSE IF t <= Walkers + MissilePool THEN proj[t - Walkers].leaf
             ELSE IF t <= PassLen THEN fx[t - Walkers - MissilePool].leaf
             ELSE IF t - PassLen \in D THEN mon[t - PassLen] ELSE 0
    BY DEF Row
  <1> DEFINE r == Row(mon, proj, fx, D)
  <1> HIDE DEF r
  <1> USE DEF Things, Thing, Monster, Missile, Fx, MissileThing, FxThing, DropThing, PassLen
  <1>3. ASSUME NEW s \in Missile, NEW p \in MissileCells
        PROVE  Row(mon, [proj EXCEPT ![s] = p], fx, D) = [r EXCEPT ![MissileThing(s)] = p.leaf]
    <2> DEFINE new == [proj EXCEPT ![s] = p]
    <2>1. \A x \in Missile : new[x] = IF x = s THEN p ELSE proj[x]
      BY <1>2
    <2> HIDE DEF new
    <2>2. ASSUME NEW t \in Thing
          PROVE  Row(mon, new, fx, D)[t] = IF t = MissileThing(s) THEN p.leaf ELSE r[t]
      <3>1. CASE t <= Walkers \/ t > Walkers + MissilePool
        BY <1>1, <1>r, <3>1 DEF Row, r
      <3>2. CASE t > Walkers /\ t <= Walkers + MissilePool
        <4>1. t - Walkers \in Missile /\ ~(t <= Walkers) /\ (t = Walkers + s <=> t - Walkers = s)
          BY <1>1, <3>2
        <4>2. Row(mon, new, fx, D)[t] = new[t - Walkers].leaf /\ r[t] = proj[t - Walkers].leaf
          BY <1>1, <1>r, <3>2, <4>1 DEF Row, r
        <4> QED BY <2>1, <4>1, <4>2
      <3> QED BY <1>1, <3>1, <3>2
    <2>3. Row(mon, new, fx, D) = [t \in Thing |-> Row(mon, new, fx, D)[t]]
      BY DEF Row
    <2> QED BY <1>r, <2>2, <2>3 DEF new, r
  <1>4. ASSUME NEW s \in Fx, NEW p \in FxCells
        PROVE  Row(mon, proj, [fx EXCEPT ![s] = p], D) = [r EXCEPT ![FxThing(s)] = p.leaf]
    <2> DEFINE new == [fx EXCEPT ![s] = p]
    <2>1. \A x \in Fx : new[x] = IF x = s THEN p ELSE fx[x]
      BY <1>2
    <2> HIDE DEF new
    <2>2. ASSUME NEW t \in Thing
          PROVE  Row(mon, proj, new, D)[t] = IF t = FxThing(s) THEN p.leaf ELSE r[t]
      <3>1. CASE t <= Walkers + MissilePool \/ t > PassLen
        BY <1>1, <1>r, <3>1 DEF Row, r
      <3>2. CASE t > Walkers + MissilePool /\ t <= PassLen
        <4>1. t - Walkers - MissilePool \in Fx /\ ~(t <= Walkers) /\ ~(t <= Walkers + MissilePool)
              /\ (t = Walkers + MissilePool + s <=> t - Walkers - MissilePool = s)
          BY <1>1, <3>2
        <4>2. Row(mon, proj, new, D)[t] = new[t - Walkers - MissilePool].leaf
              /\ r[t] = fx[t - Walkers - MissilePool].leaf
          BY <1>1, <1>r, <3>2, <4>1 DEF Row, r
        <4> QED BY <2>1, <4>1, <4>2
      <3> QED BY <1>1, <3>1, <3>2
    <2>3. Row(mon, proj, new, D) = [t \in Thing |-> Row(mon, proj, new, D)[t]]
      BY DEF Row
    <2> QED BY <1>r, <2>2, <2>3 DEF new, r
  <1>5. ASSUME NEW m \in Monster \ D, NEW leaf \in Leaf
        PROVE  Row([mon EXCEPT ![m] = leaf], proj, fx, D) = [r EXCEPT ![m] = leaf]
    <2> DEFINE new == [mon EXCEPT ![m] = leaf]
    <2>1. \A x \in Monster : new[x] = IF x = m THEN leaf ELSE mon[x]
      BY <1>2
    <2> HIDE DEF new
    <2>2. ASSUME NEW t \in Thing
          PROVE  Row(new, proj, fx, D)[t] = IF t = m THEN leaf ELSE r[t]
      <3>1. CASE t <= Walkers
        BY <1>1, <1>r, <2>1, <3>1 DEF Row, r
      <3>2. CASE t > Walkers /\ t <= PassLen
        BY <1>1, <1>r, <3>2 DEF Row, r
      <3>3. CASE t > PassLen
        <4>1. /\ t - PassLen \in Monster /\ ~(t <= Walkers)
              /\ ~(t <= Walkers + MissilePool) /\ ~(t <= PassLen)
          BY <1>1, <3>3
        <4>2. Row(new, proj, fx, D)[t] = (IF t - PassLen \in D THEN new[t - PassLen] ELSE 0)
              /\ r[t] = (IF t - PassLen \in D THEN mon[t - PassLen] ELSE 0)
          BY <1>r, <4>1 DEF Row, r
        <4>3. t # m
          BY <1>1, <3>3
        <4> QED BY <2>1, <4>1, <4>2, <4>3
      <3> QED BY <1>1, <3>1, <3>2, <3>3
    <2>3. Row(new, proj, fx, D) = [t \in Thing |-> Row(new, proj, fx, D)[t]]
      BY DEF Row
    <2> QED BY <1>r, <2>2, <2>3 DEF new, r
  <1>6. ASSUME NEW m \in Monster, NEW E \in {D \union {m}, D \ {m}}
        PROVE  Row(mon, proj, fx, E) = [r EXCEPT ![DropThing(m)] = IF m \in E THEN mon[m] ELSE 0]
    <2>2. ASSUME NEW t \in Thing
          PROVE  Row(mon, proj, fx, E)[t] = IF t = DropThing(m) THEN IF m \in E THEN mon[m] ELSE 0 ELSE r[t]
      <3>1. CASE t <= PassLen
        BY <1>1, <1>r, <3>1 DEF Row, r
      <3>2. CASE t > PassLen
        <4>1. /\ t - PassLen \in Monster /\ ~(t <= Walkers)
              /\ ~(t <= Walkers + MissilePool) /\ ~(t <= PassLen)
              /\ (t = DropThing(m) <=> t - PassLen = m)
          BY <1>1, <3>2
        <4>2. Row(mon, proj, fx, E)[t] = (IF t - PassLen \in E THEN mon[t - PassLen] ELSE 0)
              /\ r[t] = (IF t - PassLen \in D THEN mon[t - PassLen] ELSE 0)
          BY <1>r, <4>1 DEF Row, r
        <4>3. t - PassLen # m => (t - PassLen \in E <=> t - PassLen \in D)
          OBVIOUS
        <4> QED BY <4>1, <4>2, <4>3
      <3> QED BY <1>1, <3>1, <3>2
    <2>3. Row(mon, proj, fx, E) = [t \in Thing |-> Row(mon, proj, fx, E)[t]]
      BY DEF Row
    <2> QED BY <1>r, <2>2, <2>3 DEF r
  <1> QED BY <1>3, <1>4, <1>5, <1>6 DEF r

(* A thing that goes to another leaf.                                      *)
LEMMA RelinkHolds ==
  ASSUME NEW N \in Nat, NEW Lv, 0 \notin Lv, NEW ls, NEW row \in [1 .. N -> Lv \union {0}],
         ListsHold(ls, N, Lv, row), NEW leaf \in Lv, NEW t \in 1 .. N, row[t] \in Lv
  PROVE  ListsHold(Link(Unlink(ls, row[t], t), leaf, t), N, Lv, [row EXCEPT ![t] = leaf])
  <1> DEFINE out == Unlink(ls, row[t], t)
             away == [row EXCEPT ![t] = 0]
  <1>1. ListsHold(out, N, Lv, away)
    BY UnlinkHolds
  <1>2. /\ away \in [1 .. N -> Lv \union {0}] /\ away[t] = 0
        /\ [away EXCEPT ![t] = leaf] = [row EXCEPT ![t] = leaf]
    OBVIOUS
  <1> HIDE DEF out, away
  <1>3. ListsHold(Link(out, leaf, t), N, Lv, [away EXCEPT ![t] = leaf])
    BY <1>1, <1>2, LinkHolds
  <1> QED BY <1>2, <1>3 DEF out

(***************************************************************************)
(* States and tics                                                         *)
(***************************************************************************)

(* No roll is clamped, so the nibble's wrap is the model's max.            *)
LEMMA RollIs ==
  ASSUME stage \in Stages, NEW v \in 0 .. MaxRoll
  PROVE  /\ \A k \in {"blood", "puff"} \union MissileKind :
              Rolled(<<k, 1>>, v) = (BurstTics[k] - v) % 16 /\ Rolled(<<k, 1>>, v) \in 1 .. BurstTics[k]
         /\ \A k \in MissileKind :
              /\ Rolled(<<k, 0>>, v) = IF k = "rocket" THEN FlightTics[k] ELSE (FlightTics[k] - v) % 16
              /\ Rolled(<<k, 0>>, v) \in 1 .. FlightTics[k]
  <1>1. MaxRoll \in Nat
    BY StageFacts
  <1>2. \A b \in 1 .. 15 : b > v => (b - v) % 16 = b - v /\ b - v \in 1 .. b
    BY <1>1
  <1>3. ASSUME NEW k \in {"blood", "puff"} \union MissileKind
        PROVE  Rolled(<<k, 1>>, v) = (BurstTics[k] - v) % 16 /\ Rolled(<<k, 1>>, v) \in 1 .. BurstTics[k]
    <2>1. BurstTics[k] \in 1 .. 15 /\ BurstTics[k] > MaxRoll
      BY StageFacts DEF FxKind
    <2>2. BurstTics[k] > v
      BY <1>1, <2>1
    <2>3. Rolled(<<k, 1>>, v) = BurstTics[k] - v
      BY <2>2 DEF Rolled, Tics
    <2> QED BY <1>2, <2>1, <2>2, <2>3
  <1>4. ASSUME NEW k \in MissileKind
        PROVE  /\ Rolled(<<k, 0>>, v) = IF k = "rocket" THEN FlightTics[k] ELSE (FlightTics[k] - v) % 16
               /\ Rolled(<<k, 0>>, v) \in 1 .. FlightTics[k]
    <2>1. FlightTics[k] \in 1 .. 15
      BY StageFacts
    <2>2. CASE k = "rocket"
      <3>1. FlightTics[k] = 1
        BY <2>2, StageFacts
      <3>2. Rolled(<<k, 0>>, v) = 1
        BY <3>1 DEF Rolled, Tics
      <3> QED BY <2>2, <3>1, <3>2
    <2>3. CASE k # "rocket"
      <3>1. FlightTics[k] > MaxRoll
        BY <2>3, StageFacts
      <3>2. FlightTics[k] > v
        BY <1>1, <2>1, <3>1
      <3>3. Rolled(<<k, 0>>, v) = FlightTics[k] - v
        BY <3>2 DEF Rolled, Tics
      <3> QED BY <1>2, <2>1, <2>3, <3>2, <3>3
    <2> QED BY <2>2, <2>3
  <1> QED BY <1>3, <1>4

(* The free slot's state is no kind's.                                     *)
LEMMA KindFacts ==
  ASSUME stage \in Stages
  PROVE  "none" \notin MissileKind \union FxKind
  BY StageFacts DEF MissileKind, FxKind

(* The state after a missile's, if there is one.                           *)
LEMMA MissileNext ==
  ASSUME stage \in Stages, NEW st \in MissileKind \X Nat, st[2] \in 0 .. Run[st[1]]
  PROVE  /\ Tics(st) \in 1 .. 15
         /\ NextOf(st) # Null =>
              /\ NextOf(st) \in MissileKind \X Nat /\ NextOf(st)[1] = st[1]
              /\ NextOf(st)[2] \in 0 .. Run[st[1]] /\ Tics(NextOf(st)) \in 1 .. 15
              /\ NextOf(st)[2] \in {st[2], st[2] + 1} /\ (st[2] > 0 => NextOf(st)[2] = st[2] + 1)
  <1>1. PICK k \in MissileKind, n \in Nat : st = <<k, n>>
    OBVIOUS
  <1>2. n \in 0 .. Run[k] /\ Run[k] \in Nat /\ BurstTics[k] \in 1 .. 15 /\ FlightTics[k] \in 1 .. 15
    BY <1>1, StageFacts
  <1>3. Tics(st) \in 1 .. 15
    BY <1>1, <1>2 DEF Tics
  <1>4. CASE n = 0
    <2>1. NextOf(st) = st
      BY <1>1, <1>4 DEF NextOf
    <2> QED BY <1>1, <1>2, <1>3, <1>4, <2>1
  <1>5. CASE n # 0 /\ n < Run[k]
    <2>1. NextOf(st) = <<k, n + 1>>
      BY <1>1, <1>5 DEF NextOf
    <2>2. Tics(<<k, n + 1>>) = BurstTics[k]
      BY DEF Tics
    <2>3. <<k, n + 1>> \in MissileKind \X Nat /\ n + 1 \in 0 .. Run[k]
      BY <1>2, <1>5
    <2> QED BY <1>1, <1>2, <1>3, <1>5, <2>1, <2>2, <2>3
  <1>6. CASE n # 0 /\ ~(n < Run[k])
    <2>1. NextOf(st) = Null
      BY <1>1, <1>6 DEF NextOf
    <2> QED BY <1>3, <2>1
  <1> QED BY <1>4, <1>5, <1>6

(* And after an effect's.                                                  *)
LEMMA FxNext ==
  ASSUME stage \in Stages, NEW st \in FxKind \X Nat, st[2] \in 1 .. Run[st[1]]
  PROVE  /\ Tics(st) = BurstTics[st[1]] /\ BurstTics[st[1]] \in 1 .. 15
         /\ NextOf(st) # Null =>
              /\ NextOf(st) \in FxKind \X Nat /\ NextOf(st)[1] = st[1]
              /\ NextOf(st)[2] \in 1 .. Run[st[1]] /\ Tics(NextOf(st)) = BurstTics[st[1]]
  <1>1. PICK k \in FxKind, n \in Nat : st = <<k, n>>
    OBVIOUS
  <1>2. n \in 1 .. Run[k] /\ Run[k] \in Nat /\ BurstTics[k] \in 1 .. 15
    BY <1>1, StageFacts
  <1>3. Tics(st) = BurstTics[k]
    BY <1>1, <1>2 DEF Tics
  <1>5. CASE n < Run[k]
    <2>1. NextOf(st) = <<k, n + 1>>
      BY <1>1, <1>2, <1>5 DEF NextOf
    <2>2. Tics(<<k, n + 1>>) = BurstTics[k]
      BY <1>2 DEF Tics
    <2>3. <<k, n + 1>> \in FxKind \X Nat /\ n + 1 \in 1 .. Run[k]
      BY <1>2, <1>5
    <2> QED BY <1>1, <1>2, <1>3, <2>1, <2>2, <2>3
  <1>6. CASE ~(n < Run[k])
    <2>1. NextOf(st) = Null
      BY <1>1, <1>2, <1>6 DEF NextOf
    <2> QED BY <1>1, <1>2, <1>3, <2>1
  <1> QED BY <1>5, <1>6

(***************************************************************************)
(* The model's cells and the emitted ones                                  *)
(***************************************************************************)

RowOf(w, D) == Row(w.mon, w.proj, w.fx, D)

(* The model's cells tell of one level, and its lists hold what stands in  *)
(* each leaf.                                                              *)
Sound(w) ==
  /\ w = [mon |-> w.mon, proj |-> w.proj, fx |-> w.fx, list |-> w.list]
  /\ Pools(w.mon, w.proj, w.fx)
  /\ ListsHold(w.list, Things, Leaf, RowOf(w, {}))

PjOf(proj) ==
  [s \in Missile |-> [act |-> proj[s].act, st |-> proj[s].st, tics |-> proj[s].tics,
                      src |-> proj[s].src, mom |-> proj[s].mom]]

FxOf(fx) == [s \in Fx |-> [act |-> fx[s].act, st |-> fx[s].st, tics |-> fx[s].tics]]

IsEmitted(f) ==
  f = [pj |-> f.pj, fx |-> f.fx, row |-> f.row, list |-> f.list, live |-> f.live, win |-> f.win,
       ptss |-> f.ptss]

IsWindow(x) ==
  x = [t |-> x.t, act |-> x.act, st |-> x.st, tics |-> x.tics, src |-> x.src, mom |-> x.mom, leaf |-> x.leaf]

WindowOf(t, p) ==
  [t |-> t, act |-> p.act, st |-> p.st, tics |-> p.tics, src |-> p.src, mom |-> p.mom, leaf |-> p.leaf]

(* The emitted cells hold what the model's do, the items of D lying about. *)
Follows(w, f, D) ==
  /\ IsEmitted(f) /\ IsWindow(f.win)
  /\ f.pj = PjOf(w.proj) /\ f.fx = FxOf(w.fx) /\ f.row = RowOf(w, D)
  /\ ListsHold(f.list, Things, Leaf, RowOf(w, D)) /\ f.live = Cardinality(D)

(* While missile s is in the window, its slot and row are stale.           *)
Mid(w, g, s, D) ==
  /\ IsEmitted(g) /\ g.win = WindowOf(MissileThing(s), w.proj[s])
  /\ g.pj = [PjOf(w.proj) EXCEPT ![s] = g.pj[s]] /\ g.fx = FxOf(w.fx)
  /\ g.row = [RowOf(w, D) EXCEPT ![MissileThing(s)] = g.row[MissileThing(s)]]
  /\ ListsHold(g.list, Things, Leaf, RowOf(w, D)) /\ g.live = Cardinality(D)

(* The rows the emitted code must hold, kind by kind.                      *)
LEMMA RowOfIs ==
  ASSUME stage \in Stages, NEW w, Sound(w), NEW D \in SUBSET Monster
  PROVE  /\ RowOf(w, D) \in [Thing -> Leaf \union {0}]
         /\ \A m \in Monster : RowOf(w, D)[m] = w.mon[m] /\ RowOf(w, D)[m] \in Leaf
         /\ \A s \in Missile : RowOf(w, D)[MissileThing(s)] = w.proj[s].leaf
         /\ \A s \in Fx : RowOf(w, D)[FxThing(s)] = w.fx[s].leaf
         /\ \A m \in Monster : RowOf(w, D)[DropThing(m)] = IF m \in D THEN w.mon[m] ELSE 0
  <1>1. Pools(w.mon, w.proj, w.fx) /\ \A m \in Monster : w.mon[m] \in Leaf
    BY DEF Sound, Pools
  <1> QED BY <1>1, RowIs DEF RowOf

(* A missile's slot with new cells.                                        *)
WithMissile(w, s, p, ls) == [mon |-> w.mon, proj |-> [w.proj EXCEPT ![s] = p], fx |-> w.fx, list |-> ls]

(* A missile's slot changes with its thing's row and list.                 *)
LEMMA WithMissileSound ==
  ASSUME stage \in Stages, NEW w, Sound(w), NEW s \in Missile, NEW p \in MissileCells, NEW ls,
         ListsHold(ls, Things, Leaf, [RowOf(w, {}) EXCEPT ![MissileThing(s)] = p.leaf])
  PROVE  /\ Sound(WithMissile(w, s, p, ls))
         /\ \A D \in SUBSET Monster :
              RowOf(WithMissile(w, s, p, ls), D) = [RowOf(w, D) EXCEPT ![MissileThing(s)] = p.leaf]
  <1> DEFINE v == WithMissile(w, s, p, ls)
  <1>1. v.mon = w.mon /\ v.proj = [w.proj EXCEPT ![s] = p] /\ v.fx = w.fx /\ v.list = ls
        /\ v = [mon |-> v.mon, proj |-> v.proj, fx |-> v.fx, list |-> v.list]
    BY DEF WithMissile
  <1>2. Pools(w.mon, w.proj, w.fx)
    BY DEF Sound
  <1> HIDE DEF v
  <1>3. Pools(v.mon, v.proj, v.fx)
    BY <1>1, <1>2 DEF Pools
  <1>4. ASSUME NEW D \in SUBSET Monster
        PROVE  RowOf(v, D) = [RowOf(w, D) EXCEPT ![MissileThing(s)] = p.leaf]
    BY <1>1, <1>2, RowChanges DEF RowOf
  <1>5. Sound(v)
    <2>1. {} \in SUBSET Monster
      OBVIOUS
    <2> QED BY <1>1, <1>3, <1>4, <2>1 DEF Sound
  <1> QED BY <1>4, <1>5 DEF v

(* The emitted window follows it.                                          *)
LEMMA MidStep ==
  ASSUME stage \in Stages, NEW w, Sound(w), NEW s \in Missile, NEW p \in MissileCells, NEW ls,
         ListsHold(ls, Things, Leaf, [RowOf(w, {}) EXCEPT ![MissileThing(s)] = p.leaf]),
         NEW D \in SUBSET Monster, NEW g, NEW h, Mid(w, g, s, D), IsEmitted(h),
         h.pj = g.pj, h.fx = g.fx, h.row = g.row, h.live = g.live, h.win = WindowOf(MissileThing(s), p),
         ListsHold(h.list, Things, Leaf, [RowOf(w, D) EXCEPT ![MissileThing(s)] = p.leaf])
  PROVE  Mid(WithMissile(w, s, p, ls), h, s, D)
  <1> DEFINE v == WithMissile(w, s, p, ls)
             t == MissileThing(s)
  <1>1. v.mon = w.mon /\ v.proj = [w.proj EXCEPT ![s] = p] /\ v.fx = w.fx /\ v.list = ls
    BY DEF WithMissile
  <1>2. RowOf(v, D) = [RowOf(w, D) EXCEPT ![t] = p.leaf]
    BY WithMissileSound
  <1>3. /\ w.proj \in [Missile -> MissileCells] /\ RowOf(w, D) \in [Thing -> Leaf \union {0}]
        /\ t \in Thing
    BY RowOfIs, ThingFacts DEF Sound, Pools
  <1> HIDE DEF v, t
  <1>4. v.proj[s] = p
    BY <1>1, <1>3
  <1>5. h.pj = [PjOf(v.proj) EXCEPT ![s] = h.pj[s]]
    <2>1. g.pj = [PjOf(w.proj) EXCEPT ![s] = g.pj[s]]
      BY DEF Mid
    <2>2. \A x \in Missile : x # s => v.proj[x] = w.proj[x]
      BY <1>1, <1>3
    <2>3. \A x \in Missile : x # s => PjOf(v.proj)[x] = PjOf(w.proj)[x]
      BY <2>2 DEF PjOf
    <2>4. DOMAIN PjOf(v.proj) = Missile /\ DOMAIN PjOf(w.proj) = Missile
      BY DEF PjOf
    <2> DEFINE a == PjOf(v.proj)
               b == PjOf(w.proj)
    <2>5. a = [x \in Missile |-> a[x]] /\ b = [x \in Missile |-> b[x]]
      BY DEF PjOf
    <2> HIDE DEF a, b
    <2>6. [a EXCEPT ![s] = g.pj[s]] = [b EXCEPT ![s] = g.pj[s]]
      BY <2>3, <2>5 DEF a, b
    <2> QED BY <2>1, <2>6 DEF a, b
  <1>6. h.row = [RowOf(v, D) EXCEPT ![t] = h.row[t]]
    <2>1. g.row = [RowOf(w, D) EXCEPT ![t] = g.row[t]]
      BY DEF Mid, t
    <2>2. [[RowOf(w, D) EXCEPT ![t] = p.leaf] EXCEPT ![t] = g.row[t]] = [RowOf(w, D) EXCEPT ![t] = g.row[t]]
      BY <1>3
    <2> QED BY <1>2, <2>1, <2>2
  <1>7. h.fx = FxOf(v.fx) /\ h.live = Cardinality(D)
    BY <1>1 DEF Mid
  <1>8. ListsHold(h.list, Things, Leaf, RowOf(v, D))
    BY <1>2 DEF t
  <1> QED BY <1>4, <1>5, <1>6, <1>7, <1>8 DEF Mid, v, t

(***************************************************************************)
(* What the dead drop                                                      *)
(***************************************************************************)

(* A run of drops from f, in the order of their monsters.                  *)
DropRun(h, f, K) ==
  h[0] = f /\ \A m \in 1 .. Walkers : h[m] = IF m \in K THEN DropLink(h[m - 1], m) ELSE h[m - 1]

(* The drops are a run of DropLink over the monsters.                      *)
LEMMA DropLinksUnfold ==
  ASSUME stage \in Stages, NEW f, NEW killed
  PROVE  \E h : DropRun(h, f, killed \cap Dropper) /\ DropLinks(f, killed) = h[Walkers]
  <1> DEFINE N == Walkers
             K == killed \cap Dropper
             Def(d) == [m \in 0 .. N |-> IF m = 0 THEN f ELSE IF m \in K THEN DropLink(d[m - 1], m) ELSE d[m - 1]]
             Runs(h, m) == h[0] = f /\ \A n \in 1 .. m : h[n] = IF n \in K THEN DropLink(h[n - 1], n) ELSE h[n - 1]
             T == {m \in 0 .. N : \E h : Runs(h, m)}
             after == CHOOSE d : d = Def(d)
  <1>0. N \in Nat
    BY StageFacts
  <1>1. DropLinks(f, killed) = after[N]
    BY DEF DropLinks
  <1> HIDE DEF N, K
  <1>2. 0 \in T
    <2>1. Runs([n \in 0 .. 0 |-> f], 0)
      OBVIOUS
    <2>2. \E h : Runs(h, 0)
      <3> HIDE DEF Runs
      <3> QED BY <2>1
    <2> HIDE DEF Runs
    <2> QED BY <1>0, <2>2
  <1>3. ASSUME NEW m \in 1 .. N, m - 1 \in T PROVE m \in T
    <2>1. PICK h : Runs(h, m - 1)
      BY <1>3
    <2> DEFINE next == IF m \in K THEN DropLink(h[m - 1], m) ELSE h[m - 1]
               g == [n \in 0 .. m |-> IF n = m THEN next ELSE h[n]]
    <2> HIDE DEF next
    <2>2. g[0] = f
      BY <2>1
    <2>3. ASSUME NEW n \in 1 .. m PROVE g[n] = IF n \in K THEN DropLink(g[n - 1], n) ELSE g[n - 1]
      <3>1. g[n - 1] = h[n - 1]
        OBVIOUS
      <3>2. CASE n = m
        <4>1. g[n] = next
          BY <3>2
        <4> QED BY <3>1, <3>2, <4>1 DEF next
      <3>3. CASE n # m
        <4>1. n \in 1 .. m - 1 /\ g[n] = h[n]
          BY <3>3
        <4> HIDE DEF g
        <4> QED BY <2>1, <3>1, <4>1
      <3> QED BY <3>2, <3>3
    <2>4. Runs(g, m)
      <3> HIDE DEF g
      <3> QED BY <2>2, <2>3
    <2>5. \E x : Runs(x, m)
      <3> HIDE DEF Runs, g
      <3> QED BY <2>4
    <2> HIDE DEF Runs
    <2> QED BY <2>5
  <1>4. N \in T
    <2>1. \A m \in 0 .. N : m \in T
      <3> HIDE DEF T
      <3> QED BY <1>0, <1>2, <1>3, UpTo
    <2> HIDE DEF T
    <2> QED BY <1>0, <2>1
  <1>5. PICK h : Runs(h, N)
    BY <1>4
  <1>6. \E d : d = Def(d)
    <2> DEFINE g == [m \in 0 .. N |-> h[m]]
    <2>1. ASSUME NEW m \in 0 .. N PROVE g[m] = Def(g)[m]
      <3>1. CASE m = 0
        BY <1>5, <3>1
      <3>2. CASE m # 0
        <4>1. m \in 1 .. N /\ m - 1 \in 0 .. N
          BY <1>0, <3>2
        <4>2. g[m] = h[m] /\ g[m - 1] = h[m - 1]
          BY <4>1
        <4>3. h[m] = IF m \in K THEN DropLink(h[m - 1], m) ELSE h[m - 1]
          BY <1>5, <4>1
        <4>4. Def(g)[m] = IF m \in K THEN DropLink(g[m - 1], m) ELSE g[m - 1]
          <5> HIDE DEF g
          <5> QED BY <3>2
        <4> HIDE DEF g, Def
        <4> QED BY <4>2, <4>3, <4>4
      <3> QED BY <3>1, <3>2
    <2>2. g = Def(g)
      <3>1. g = [m \in 0 .. N |-> g[m]] /\ Def(g) = [m \in 0 .. N |-> Def(g)[m]]
        OBVIOUS
      <3> HIDE DEF g, Def
      <3> QED BY <2>1, <3>1
    <2> HIDE DEF g, Def
    <2> QED BY <2>2
  <1>7. after = Def(after)
    <2> HIDE DEF Def
    <2> QED BY <1>6
  <1> HIDE DEF after
  <1>8. Runs(after, N)
    <2>1. after[0] = f
      BY <1>0, <1>7
    <2>2. ASSUME NEW m \in 1 .. N
          PROVE  after[m] = IF m \in K THEN DropLink(after[m - 1], m) ELSE after[m - 1]
      <3>1. m \in 0 .. N /\ m # 0
        BY <1>0
      <3>2. after[m] = Def(after)[m]
        BY <1>7
      <3>3. Def(after)[m] = IF m \in K THEN DropLink(after[m - 1], m) ELSE after[m - 1]
        BY <3>1
      <3> QED BY <3>2, <3>3
    <2> QED BY <2>1, <2>2
  <1> QED BY <1>1, <1>8 DEF DropRun, N, K

(* drop_link<k>, cell by cell.                                             *)
LEMMA DropLinkTold ==
  ASSUME NEW f, IsEmitted(f), IsWindow(f.win), NEW m
  PROVE  DropLink(f, m) =
           [pj |-> f.pj, fx |-> f.fx, row |-> [f.row EXCEPT ![DropThing(m)] = f.row[m]],
            list |-> Link(f.list, f.row[m], DropThing(m)), live |-> f.live + 1,
            win |-> [t |-> DropThing(m), act |-> f.win.act, st |-> f.win.st, tics |-> f.win.tics,
                     src |-> f.win.src, mom |-> f.win.mom, leaf |-> f.row[m]],
            ptss |-> f.ptss]
  <1> DEFINE t == DropThing(m)
             e == [f EXCEPT !.row[t] = f.row[m], !.live = @ + 1, !.win.t = t, !.win.leaf = f.row[m]]
             x == [f.win EXCEPT !.t = t, !.leaf = f.row[m]]
  <1>1. DropLink(f, m) = PwLink(e)
    BY DEF DropLink
  <1>2. e = [f EXCEPT !.row[t] = f.row[m], !.live = @ + 1, !.win.t = t, !.win.leaf = f.row[m]]
    OBVIOUS
  <1> HIDE DEF e, t
  <1>3. e = [pj |-> f.pj, fx |-> f.fx, row |-> [f.row EXCEPT ![t] = f.row[m]],
             list |-> f.list, live |-> f.live + 1, win |-> x, ptss |-> f.ptss]
    BY <1>2 DEF IsEmitted
  <1>4. x = [f.win EXCEPT !.t = t, !.leaf = f.row[m]]
    OBVIOUS
  <1> HIDE DEF x
  <1>5. x = [t |-> t, act |-> f.win.act, st |-> f.win.st, tics |-> f.win.tics,
             src |-> f.win.src, mom |-> f.win.mom, leaf |-> f.row[m]]
    BY <1>4 DEF IsWindow
  <1>6. PwLink(e) = [pj |-> f.pj, fx |-> f.fx, row |-> [f.row EXCEPT ![t] = f.row[m]],
                     list |-> Link(f.list, f.row[m], t), live |-> f.live + 1, win |-> x, ptss |-> f.ptss]
    BY <1>3, <1>5 DEF PwLink
  <1> QED BY <1>1, <1>5, <1>6 DEF t

(* What drops leave alone, from f to g; the row of t is stale, 0 for none. *)
Dropped(w, f, g, t, E) ==
  /\ IsEmitted(g) /\ IsWindow(g.win)
  /\ g.win.act = f.win.act /\ g.win.st = f.win.st /\ g.win.tics = f.win.tics
  /\ g.win.src = f.win.src /\ g.win.mom = f.win.mom
  /\ g.pj = f.pj /\ g.fx = f.fx /\ g.ptss = f.ptss
  /\ g.row = [RowOf(w, E) EXCEPT ![t] = f.row[t]]
  /\ ListsHold(g.list, Things, Leaf, RowOf(w, E)) /\ g.live = Cardinality(E)

(* dr_live's counts.                                                       *)
LEMMA Counted ==
  ASSUME stage \in Stages, NEW D \in SUBSET Monster, NEW m \in Monster
  PROVE  /\ Cardinality(D) \in Nat
         /\ m \notin D => Cardinality(D \union {m}) = Cardinality(D) + 1
         /\ m \in D => Cardinality(D \ {m}) = Cardinality(D) - 1
  <1>1. Walkers \in Nat
    BY StageFacts
  <1>2. IsFiniteSet(Monster)
    BY <1>1, FS_Interval DEF Monster
  <1>3. IsFiniteSet(D)
    BY <1>2, FS_Subset
  <1> QED BY <1>3, FS_CardinalityType, FS_AddElement, FS_RemoveElement

(* One more drop of the run.                                               *)
LEMMA OneDrop ==
  ASSUME stage \in Stages, NEW w, Sound(w), NEW f, NEW g, NEW t \in 0 .. PassLen, t \notin Monster,
         NEW E \in SUBSET Monster, Dropped(w, f, g, t, E), NEW m \in Monster, m \notin E
  PROVE  Dropped(w, f, DropLink(g, m), t, E \union {m})
  <1> DEFINE d == DropThing(m)
             x == DropLink(g, m)
             r == RowOf(w, E)
             r2 == RowOf(w, E \union {m})
  <1>1. IsEmitted(g) /\ IsWindow(g.win)
        /\ g.row = [r EXCEPT ![t] = f.row[t]] /\ ListsHold(g.list, Things, Leaf, r)
        /\ g.live = Cardinality(E) /\ g.pj = f.pj /\ g.fx = f.fx /\ g.ptss = f.ptss
    BY DEF Dropped
  <1>2. r \in [Thing -> Leaf \union {0}] /\ r[m] = w.mon[m] /\ w.mon[m] \in Leaf /\ r[d] = 0
    BY RowOfIs
  <1>3. d \in Thing /\ d # t /\ m # t /\ m \in Thing /\ Things \in Nat /\ 0 \notin Leaf
    <2>1. Walkers \in Nat /\ MissilePool \in Nat /\ FxPool \in Nat
      BY StageFacts
    <2>2. d # t
      BY <2>1 DEF DropThing, PassLen, Monster
    <2> QED BY <2>2, ThingFacts
  <1>4. r2 = [r EXCEPT ![d] = w.mon[m]]
    <2>1. Pools(w.mon, w.proj, w.fx)
      BY DEF Sound
    <2> QED BY <2>1, RowChanges DEF RowOf
  <1>5. Cardinality(E \union {m}) = Cardinality(E) + 1
    BY Counted
  <1>6. x = [pj |-> g.pj, fx |-> g.fx, row |-> [g.row EXCEPT ![d] = g.row[m]],
             list |-> Link(g.list, g.row[m], d), live |-> g.live + 1,
             win |-> [t |-> d, act |-> g.win.act, st |-> g.win.st, tics |-> g.win.tics,
                      src |-> g.win.src, mom |-> g.win.mom, leaf |-> g.row[m]],
             ptss |-> g.ptss]
    BY <1>1, DropLinkTold
  <1> HIDE DEF d, x, r, r2
  <1>7. g.row[m] = w.mon[m]
    BY <1>1, <1>2, <1>3
  <1>8. x.row = [r2 EXCEPT ![t] = f.row[t]]
    <2>1. x.row = [g.row EXCEPT ![d] = w.mon[m]]
      BY <1>6, <1>7
    <2> QED BY <1>1, <1>2, <1>3, <1>4, <2>1
  <1>9. ListsHold(x.list, Things, Leaf, r2)
    <2>1. ListsHold(Link(g.list, w.mon[m], d), Things, Leaf, [r EXCEPT ![d] = w.mon[m]])
      BY <1>1, <1>2, <1>3, LinkHolds DEF Thing
    <2> QED BY <1>4, <1>6, <1>7, <2>1
  <1>10. /\ x.win.act = f.win.act /\ x.win.st = f.win.st /\ x.win.tics = f.win.tics
         /\ x.win.src = f.win.src /\ x.win.mom = f.win.mom /\ IsWindow(x.win)
    <2>1. /\ x.win.act = g.win.act /\ x.win.st = g.win.st /\ x.win.tics = g.win.tics
          /\ x.win.src = g.win.src /\ x.win.mom = g.win.mom /\ IsWindow(x.win)
      BY <1>6 DEF IsWindow
    <2> QED BY <2>1 DEF Dropped
  <1>11. /\ IsEmitted(x) /\ x.pj = f.pj /\ x.fx = f.fx
         /\ x.ptss = f.ptss /\ x.live = Cardinality(E \union {m})
    BY <1>1, <1>5, <1>6 DEF IsEmitted
  <1> QED BY <1>8, <1>9, <1>10, <1>11 DEF Dropped, x, r2

(* Killed at once, the droppers among them leave their items.              *)
LEMMA Drops ==
  ASSUME stage \in Stages, NEW w, Sound(w), NEW f, NEW t \in 0 .. PassLen, t \notin Monster,
         NEW D \in SUBSET Monster, Dropped(w, f, f, t, D),
         NEW killed \in SUBSET Monster, killed \cap D = {}
  PROVE  Dropped(w, f, DropLinks(f, killed), t, D \union (killed \cap Dropper))
  <1> DEFINE K == killed \cap Dropper
             At(m) == D \union (K \cap (1 .. m))
  <1>1. PICK h : DropRun(h, f, K) /\ DropLinks(f, killed) = h[Walkers]
    BY DropLinksUnfold
  <1>2. Walkers \in Nat /\ K \subseteq Monster /\ K \cap D = {}
    BY StageFacts
  <1> DEFINE T == {m \in 0 .. Walkers : Dropped(w, f, h[m], t, At(m))}
  <1> HIDE DEF K
  <1>3. 0 \in T
    <2>1. At(0) = D /\ h[0] = f
      BY <1>1 DEF DropRun
    <2> HIDE DEF At
    <2> QED BY <1>2, <2>1
  <1>4. ASSUME NEW m \in 1 .. Walkers, m - 1 \in T PROVE m \in T
    <2>1. Dropped(w, f, h[m - 1], t, At(m - 1))
      BY <1>4
    <2>2. h[m] = IF m \in K THEN DropLink(h[m - 1], m) ELSE h[m - 1]
      BY <1>1 DEF DropRun
    <2>3. CASE m \in K
      <3>1. m \in Monster /\ m \notin At(m - 1) /\ At(m - 1) \in SUBSET Monster
        BY <1>2, <2>3
      <3>2. At(m) = At(m - 1) \union {m}
        <4>1. 1 .. m = (1 .. m - 1) \union {m}
          BY <1>2
        <4> QED BY <2>3, <4>1
      <3> HIDE DEF At
      <3>3. Dropped(w, f, DropLink(h[m - 1], m), t, At(m - 1) \union {m})
        <4> DEFINE E == At(m - 1)
                   g == h[m - 1]
        <4> HIDE DEF E, g
        <4>1. E \in SUBSET Monster /\ m \in Monster /\ m \notin E /\ Dropped(w, f, g, t, E)
          BY <2>1, <3>1 DEF E, g
        <4>2. Dropped(w, f, DropLink(g, m), t, E \union {m})
          BY <4>1, OneDrop
        <4> QED BY <4>2 DEF E, g
      <3>4. Dropped(w, f, h[m], t, At(m))
        BY <2>2, <2>3, <3>2, <3>3
      <3>5. m \in 0 .. Walkers
        BY <1>2
      <3> QED BY <3>4, <3>5
    <2>4. CASE m \notin K
      <3>1. At(m) = At(m - 1)
        <4>1. 1 .. m = (1 .. m - 1) \union {m}
          BY <1>2
        <4> QED BY <2>4, <4>1
      <3> HIDE DEF At
      <3> QED BY <1>2, <2>1, <2>2, <2>4, <3>1
    <2> QED BY <2>3, <2>4
  <1>5. \A m \in 0 .. Walkers : m \in T
    <2> HIDE DEF T
    <2> QED BY <1>2, <1>3, <1>4, UpTo
  <1>6. Dropped(w, f, h[Walkers], t, At(Walkers))
    BY <1>2, <1>5
  <1>7. At(Walkers) = D \union K
    BY <1>2 DEF Monster
  <1> HIDE DEF At
  <1> QED BY <1>1, <1>6, <1>7 DEF K

(***************************************************************************)
(* A missile through the window                                            *)
(***************************************************************************)

(* What a sound missile slot holds.                                        *)
LEMMA MissileOf ==
  ASSUME NEW w, Sound(w), NEW s \in Missile
  PROVE  /\ w.proj \in [Missile -> MissileCells] /\ w.proj[s] \in MissileCells
         /\ w.proj[s].act \in BOOLEAN
         /\ w.proj[s].act => Flies(w.proj[s])
         /\ ~w.proj[s].act => w.proj[s] = FreeMissile
  <1>1. w.proj \in [Missile -> MissileCells] /\ w.proj[s] \in MissileCells
    BY DEF Sound, Pools
  <1>2. w.proj[s] = FreeMissile \/ Flies(w.proj[s])
    BY <1>1, MissileIs
  <1>3. Flies(w.proj[s]) => w.proj[s].act = TRUE
    BY DEF Flies
  <1>4. w.proj[s] = FreeMissile => w.proj[s].act = FALSE
    BY DEF FreeMissile
  <1> QED BY <1>1, <1>2, <1>3, <1>4

(* The hit of a shot or of a blast, through the window it keeps.           *)
LEMMA MidHit ==
  ASSUME stage \in Stages, NEW w, Sound(w), NEW s \in Missile, NEW D \in SUBSET Monster,
         NEW g, Mid(w, g, s, D), NEW killed \in SUBSET Monster, killed \cap D = {}
  PROVE  Mid(w, Hit(g, killed), s, D \union (killed \cap Dropper))
  <1> DEFINE t == MissileThing(s)
             d == DropLinks(g, killed)
             E == D \union (killed \cap Dropper)
             h == [d EXCEPT !.win.t = g.win.t, !.win.leaf = g.win.leaf]
  <1>1. t \in 0 .. PassLen /\ t \notin Monster
    BY StageFacts DEF MissileThing, PassLen, Monster, Missile
  <1>w. IsWindow(g.win) /\ g.win.t = t
    BY DEF Mid, WindowOf, IsWindow
  <1>2. Dropped(w, g, g, t, D)
    BY <1>w DEF Mid, Dropped
  <1>3. Dropped(w, g, d, t, E)
    BY <1>1, <1>2, Drops
  <1>4. h = Hit(g, killed)
    BY DEF Hit
  <1>5. h = [d EXCEPT !.win.t = g.win.t, !.win.leaf = g.win.leaf]
    OBVIOUS
  <1> HIDE DEF h, d, t, E
  <1>6. IsEmitted(d) /\ IsWindow(d.win)
    BY <1>3 DEF Dropped
  <1>7. /\ IsEmitted(h) /\ h.pj = d.pj /\ h.fx = d.fx /\ h.row = d.row /\ h.list = d.list /\ h.live = d.live
        /\ h.win = [d.win EXCEPT !.t = g.win.t, !.leaf = g.win.leaf]
    BY <1>5, <1>6 DEF IsEmitted
  <1>8. h.win = [t |-> g.win.t, act |-> d.win.act, st |-> d.win.st, tics |-> d.win.tics,
                 src |-> d.win.src, mom |-> d.win.mom, leaf |-> g.win.leaf]
    BY <1>6, <1>7 DEF IsWindow
  <1>9. h.win = g.win
    BY <1>3, <1>8, <1>w DEF IsWindow, Dropped
  <1>10. h.row = [RowOf(w, E) EXCEPT ![t] = h.row[t]]
    <2>1. d.row = [RowOf(w, E) EXCEPT ![t] = g.row[t]]
      BY <1>3 DEF Dropped
    <2>2. h.row = [RowOf(w, E) EXCEPT ![t] = g.row[t]]
      BY <1>7, <2>1
    <2>3. t \in DOMAIN RowOf(w, E)
      BY ThingFacts DEF RowOf, Row, t
    <2>4. h.row[t] = g.row[t]
      BY <2>2, <2>3
    <2> QED BY <2>2, <2>4
  <1>11. h.pj = [PjOf(w.proj) EXCEPT ![s] = h.pj[s]] /\ h.fx = FxOf(w.fx)
    <2>1. h.pj = g.pj /\ h.fx = g.fx
      BY <1>3, <1>7 DEF Dropped
    <2> QED BY <2>1 DEF Mid
  <1>12. ListsHold(h.list, Things, Leaf, RowOf(w, E)) /\ h.live = Cardinality(E)
    BY <1>3, <1>7 DEF Dropped
  <1>13. h.win = WindowOf(MissileThing(s), w.proj[s])
    BY <1>9 DEF Mid
  <1> QED BY <1>4, <1>7, <1>10, <1>11, <1>12, <1>13 DEF Mid, t, E

(* The relink through the window, cell by cell.                            *)
LEMMA PwMoved ==
  ASSUME NEW g, IsEmitted(g), IsWindow(g.win), NEW leaf
  PROVE  LET h == PwLink([PwUnlink(g) EXCEPT !.win.leaf = leaf]) IN
         /\ IsEmitted(h) /\ h.pj = g.pj /\ h.fx = g.fx /\ h.row = g.row /\ h.live = g.live /\ h.ptss = g.ptss
         /\ h.list = Link(Unlink(g.list, g.win.leaf, g.win.t), leaf, g.win.t)
         /\ h.win = [t |-> g.win.t, act |-> g.win.act, st |-> g.win.st, tics |-> g.win.tics,
                     src |-> g.win.src, mom |-> g.win.mom, leaf |-> leaf]
  <1> DEFINE a == PwUnlink(g)
             b == [a EXCEPT !.win.leaf = leaf]
             h == PwLink(b)
  <1>1. a = [g EXCEPT !.list = Unlink(g.list, g.win.leaf, g.win.t)]
    BY DEF PwUnlink
  <1>2. b = [a EXCEPT !.win.leaf = leaf]
    OBVIOUS
  <1>3. h = [b EXCEPT !.list = Link(b.list, b.win.leaf, b.win.t)]
    BY DEF PwLink
  <1> HIDE DEF a, b, h
  <1>4. /\ IsEmitted(a) /\ a.pj = g.pj /\ a.fx = g.fx
        /\ a.row = g.row /\ a.live = g.live /\ a.ptss = g.ptss
        /\ a.list = Unlink(g.list, g.win.leaf, g.win.t) /\ a.win = g.win
    BY <1>1 DEF IsEmitted
  <1>5. /\ IsEmitted(b) /\ b.pj = a.pj /\ b.fx = a.fx
        /\ b.row = a.row /\ b.live = a.live /\ b.ptss = a.ptss
        /\ b.list = a.list /\ b.win = [a.win EXCEPT !.leaf = leaf]
    BY <1>2, <1>4 DEF IsEmitted
  <1>6. b.win = [t |-> g.win.t, act |-> g.win.act, st |-> g.win.st, tics |-> g.win.tics,
                 src |-> g.win.src, mom |-> g.win.mom, leaf |-> leaf]
    BY <1>4, <1>5 DEF IsWindow
  <1>7. /\ IsEmitted(h) /\ h.pj = b.pj /\ h.fx = b.fx
        /\ h.row = b.row /\ h.live = b.live /\ h.ptss = b.ptss
        /\ h.list = Link(b.list, b.win.leaf, b.win.t) /\ h.win = b.win
    BY <1>3, <1>5 DEF IsEmitted
  <1>8. b.win.leaf = leaf /\ b.win.t = g.win.t
    BY <1>6
  <1>9. h.list = Link(Unlink(g.list, g.win.leaf, g.win.t), leaf, g.win.t)
    BY <1>4, <1>5, <1>7, <1>8
  <1> QED BY <1>4, <1>5, <1>6, <1>7, <1>9 DEF a, b, h

(* _missile_try's relink changes one slot.                                 *)
LEMMA MovedTold ==
  ASSUME NEW w, Sound(w), NEW s \in Missile, w.proj[s].act, NEW leaf \in Leaf
  PROVE  LET p  == w.proj[s]
             p2 == [act |-> TRUE, st |-> p.st, tics |-> p.tics, src |-> p.src, mom |-> p.mom, leaf |-> leaf]
         IN  /\ p2 \in MissileCells
             /\ Moved(w, s, leaf) =
                  IF leaf = p.leaf THEN w
                  ELSE WithMissile(w, s, p2, Link(Unlink(w.list, p.leaf, MissileThing(s)), leaf, MissileThing(s)))
  <1> DEFINE p  == w.proj[s]
             p2 == [act |-> TRUE, st |-> p.st, tics |-> p.tics, src |-> p.src, mom |-> p.mom, leaf |-> leaf]
             ls == Link(Unlink(w.list, p.leaf, MissileThing(s)), leaf, MissileThing(s))
             e  == [w EXCEPT !.proj[s].leaf = leaf, !.list = ls]
  <1>1. Flies(p) /\ w.proj \in [Missile -> MissileCells]
    BY MissileOf
  <1>2. Moved(w, s, leaf) = IF leaf = p.leaf THEN w ELSE e
    BY DEF Moved
  <1>3. e = [w EXCEPT !.proj[s].leaf = leaf, !.list = ls]
    OBVIOUS
  <1>4. w = [mon |-> w.mon, proj |-> w.proj, fx |-> w.fx, list |-> w.list]
    BY DEF Sound
  <1>5. p2 \in MissileCells
    <2>1. Flies(p2)
      BY <1>1 DEF Flies
    <2> HIDE DEF p2
    <2> QED BY <2>1, MissileIs
  <1> DEFINE p3 == [p EXCEPT !.leaf = leaf]
  <1>6. p3 = [p EXCEPT !.leaf = leaf]
    OBVIOUS
  <1> HIDE DEF e, ls, p3
  <1>7. /\ e.mon = w.mon /\ e.fx = w.fx
        /\ e.list = ls /\ e = [mon |-> e.mon, proj |-> e.proj, fx |-> e.fx, list |-> e.list]
    BY <1>3, <1>4
  <1>8. e.proj = [w.proj EXCEPT ![s] = p3]
    BY <1>3, <1>4, <1>6
  <1> HIDE DEF p
  <1>9. p3 = p2
    <2>1. p = [act |-> TRUE, st |-> p.st, tics |-> p.tics, src |-> p.src, mom |-> p.mom, leaf |-> p.leaf]
      BY <1>1 DEF Flies
    <2> HIDE DEF p2
    <2>2. p3 = [act |-> p3.act, st |-> p3.st, tics |-> p3.tics, src |-> p3.src, mom |-> p3.mom, leaf |-> p3.leaf]
      BY <1>6, <2>1
    <2>3. /\ p3.act = TRUE /\ p3.st = p.st /\ p3.tics = p.tics
          /\ p3.src = p.src /\ p3.mom = p.mom /\ p3.leaf = leaf
      BY <1>6, <2>1
    <2> QED BY <2>2, <2>3 DEF p2
  <1>10. e = WithMissile(w, s, p2, ls)
    <2> HIDE DEF p2
    <2> QED BY <1>7, <1>8, <1>9 DEF WithMissile
  <1> QED BY <1>2, <1>5, <1>10 DEF ls, p

(* The relink of both sides.                                               *)
LEMMA MidMoved ==
  ASSUME stage \in Stages, NEW w, Sound(w), NEW s \in Missile, NEW D \in SUBSET Monster,
         NEW g, Mid(w, g, s, D), w.proj[s].act, NEW leaf \in Leaf
  PROVE  /\ Sound(Moved(w, s, leaf))
         /\ Mid(Moved(w, s, leaf),
                IF leaf = g.win.leaf THEN g ELSE PwLink([PwUnlink(g) EXCEPT !.win.leaf = leaf]), s, D)
  <1> DEFINE t  == MissileThing(s)
             p  == w.proj[s]
             p2 == [act |-> TRUE, st |-> p.st, tics |-> p.tics, src |-> p.src, mom |-> p.mom, leaf |-> leaf]
             ls == Link(Unlink(w.list, p.leaf, t), leaf, t)
             h  == PwLink([PwUnlink(g) EXCEPT !.win.leaf = leaf])
  <1>1. p2 \in MissileCells /\ Moved(w, s, leaf) = IF leaf = p.leaf THEN w ELSE WithMissile(w, s, p2, ls)
    BY MovedTold
  <1>2. Flies(p) /\ p.leaf \in Leaf
    BY MissileOf DEF Flies
  <1>3. g.win = WindowOf(t, p) /\ IsEmitted(g)
    BY DEF Mid
  <1>4. IsWindow(g.win) /\ g.win.leaf = p.leaf /\ g.win.t = t
    BY <1>3 DEF WindowOf, IsWindow
  <1>5. /\ IsEmitted(h) /\ h.pj = g.pj /\ h.fx = g.fx /\ h.row = g.row /\ h.live = g.live
        /\ h.list = Link(Unlink(g.list, p.leaf, t), leaf, t)
        /\ h.win = [t |-> g.win.t, act |-> g.win.act, st |-> g.win.st, tics |-> g.win.tics,
                    src |-> g.win.src, mom |-> g.win.mom, leaf |-> leaf]
    BY <1>3, <1>4, PwMoved
  <1> HIDE DEF h
  <1>6. h.win = WindowOf(t, p2)
    BY <1>2, <1>3, <1>5 DEF WindowOf, Flies
  <1>7. ASSUME NEW E \in SUBSET Monster, NEW l, ListsHold(l, Things, Leaf, RowOf(w, E))
        PROVE  ListsHold(Link(Unlink(l, p.leaf, t), leaf, t), Things, Leaf, [RowOf(w, E) EXCEPT ![t] = leaf])
    <2> DEFINE r == RowOf(w, E)
    <2>1. /\ r \in [Thing -> Leaf \union {0}] /\ r[t] = p.leaf /\ t \in Thing
          /\ Things \in Nat /\ 0 \notin Leaf
      BY RowOfIs, ThingFacts
    <2> HIDE DEF r, t, p
    <2>2. ListsHold(Link(Unlink(l, r[t], t), leaf, t), Things, Leaf, [r EXCEPT ![t] = leaf])
      BY <1>2, <1>7, <2>1, RelinkHolds DEF Thing, r
    <2> QED BY <2>1, <2>2 DEF r
  <1>8. p2.leaf = leaf
    OBVIOUS
  <1>9. ListsHold(ls, Things, Leaf, [RowOf(w, {}) EXCEPT ![t] = p2.leaf])
    <2>1. {} \in SUBSET Monster /\ ListsHold(w.list, Things, Leaf, RowOf(w, {}))
      BY DEF Sound
    <2> QED BY <1>7, <1>8, <2>1
  <1>10. ListsHold(h.list, Things, Leaf, [RowOf(w, D) EXCEPT ![t] = p2.leaf])
    <2>1. ListsHold(g.list, Things, Leaf, RowOf(w, D))
      BY DEF Mid
    <2> QED BY <1>5, <1>7, <1>8, <2>1
  <1> HIDE DEF p2, ls, t
  <1>11. CASE leaf = p.leaf
    BY <1>1, <1>4, <1>11
  <1>12. CASE leaf # p.leaf
    <2>1. Sound(WithMissile(w, s, p2, ls))
      BY <1>1, <1>9, WithMissileSound DEF t
    <2>2. Mid(WithMissile(w, s, p2, ls), h, s, D)
      BY <1>1, <1>5, <1>6, <1>9, <1>10, MidStep DEF t
    <2> QED BY <1>1, <1>4, <1>12, <2>1, <2>2 DEF h
  <1> QED BY <1>11, <1>12

(* A missile's cells that change where it stands.                          *)
LEMMA StaysLists ==
  ASSUME stage \in Stages, NEW w, Sound(w), NEW s \in Missile, NEW D \in SUBSET Monster
  PROVE  RowOf(w, D) = [RowOf(w, D) EXCEPT ![MissileThing(s)] = w.proj[s].leaf]
  <1>1. RowOf(w, D) \in [Thing -> Leaf \union {0}] /\ RowOf(w, D)[MissileThing(s)] = w.proj[s].leaf
    BY RowOfIs
  <1> DEFINE r == RowOf(w, D)
  <1> HIDE DEF r
  <1>2. r \in [Thing -> Leaf \union {0}] /\ r[MissileThing(s)] = w.proj[s].leaf
    BY <1>1 DEF r
  <1> QED BY <1>2 DEF r

(* _explode changes one slot: its tics are the nibble's.                   *)
LEMMA ExplodedTold ==
  ASSUME stage \in Stages, NEW w, Sound(w), NEW s \in Missile, w.proj[s].act, NEW v \in 0 .. MaxRoll
  PROVE  LET p  == w.proj[s]
             p2 == [act |-> TRUE, st |-> <<p.st[1], 1>>, tics |-> (BurstTics[p.st[1]] - v) % 16,
                    src |-> p.src, mom |-> FALSE, leaf |-> p.leaf]
         IN  /\ p2 \in MissileCells
             /\ Exploded(w, s, v) = WithMissile(w, s, p2, w.list)
  <1> DEFINE p  == w.proj[s]
             k  == p.st[1]
             p2 == [act |-> TRUE, st |-> <<k, 1>>, tics |-> (BurstTics[k] - v) % 16,
                    src |-> p.src, mom |-> FALSE, leaf |-> p.leaf]
             roll == Rolled(<<k, 1>>, v)
             p3 == [p EXCEPT !.st = <<k, 1>>, !.tics = roll, !.mom = FALSE]
             e  == [w EXCEPT !.proj[s].st = <<k, 1>>, !.proj[s].tics = roll, !.proj[s].mom = FALSE]
  <1>1. Flies(p) /\ w.proj \in [Missile -> MissileCells]
    BY MissileOf
  <1>2. Exploded(w, s, v) = e
    BY DEF Exploded
  <1>3. w = [mon |-> w.mon, proj |-> w.proj, fx |-> w.fx, list |-> w.list]
    BY DEF Sound
  <1>4. e = [w EXCEPT !.proj[s].st = <<k, 1>>, !.proj[s].tics = roll, !.proj[s].mom = FALSE]
    OBVIOUS
  <1>5. p3 = [p EXCEPT !.st = <<k, 1>>, !.tics = roll, !.mom = FALSE]
    OBVIOUS
  <1>6. k \in MissileKind
    BY <1>1 DEF Flies
  <1>7. /\ roll = (BurstTics[k] - v) % 16 /\ roll \in 1 .. BurstTics[k]
        /\ BurstTics[k] \in 1 .. 15 /\ Run[k] \in Nat \ {0}
    BY <1>6, RollIs, StageFacts
  <1> HIDE DEF e, p3, roll, k
  <1>8. e.mon = w.mon /\ e.fx = w.fx /\ e.list = w.list
        /\ e = [mon |-> e.mon, proj |-> e.proj, fx |-> e.fx, list |-> e.list]
    BY <1>3, <1>4
  <1>9. e.proj = [w.proj EXCEPT ![s] = p3]
    <2>1. e.proj = [[[w.proj EXCEPT ![s].st = <<k, 1>>] EXCEPT ![s].tics = roll] EXCEPT ![s].mom = FALSE]
      BY <1>3, <1>4
    <2>2. s \in DOMAIN w.proj /\ w.proj = [x \in Missile |-> w.proj[x]]
      BY <1>1
    <2>3. [w.proj EXCEPT ![s].st = <<k, 1>>] = [w.proj EXCEPT ![s] = [p EXCEPT !.st = <<k, 1>>]]
      OBVIOUS
    <2> QED BY <1>5, <2>1, <2>2, <2>3
  <1>10. p = [act |-> TRUE, st |-> p.st, tics |-> p.tics, src |-> p.src, mom |-> p.mom, leaf |-> p.leaf]
    BY <1>1 DEF Flies
  <1> HIDE DEF p
  <1>11. p3 = p2
    <2> HIDE DEF p2
    <2>2. p3 = [act |-> p3.act, st |-> p3.st, tics |-> p3.tics, src |-> p3.src, mom |-> p3.mom, leaf |-> p3.leaf]
      BY <1>5, <1>10
    <2>3. /\ p3.act = TRUE /\ p3.st = <<k, 1>> /\ p3.tics = roll
          /\ p3.src = p.src /\ p3.mom = FALSE /\ p3.leaf = p.leaf
      BY <1>5, <1>10
    <2> QED BY <1>7, <2>2, <2>3 DEF p2
  <1>12. p2 \in MissileCells
    <2>1. <<k, 1>> \in MissileKind \X Nat /\ <<k, 1>>[1] = k /\ <<k, 1>>[2] = 1
      BY <1>6
    <2>2. Tics(<<k, 1>>) = BurstTics[k]
      BY DEF Tics
    <2>3. p.src \in Nat /\ p.src \in (IF k = "ball" THEN Shooter ELSE {0}) /\ p.leaf \in Leaf
      BY <1>1 DEF Flies, k, p
    <2>4. Flies(p2)
      BY <1>7, <2>1, <2>2, <2>3 DEF Flies
    <2> HIDE DEF p2
    <2> QED BY <2>4, MissileIs
  <1>13. e = WithMissile(w, s, p2, w.list)
    <2> HIDE DEF p2
    <2> QED BY <1>8, <1>9, <1>11 DEF WithMissile
  <1> QED BY <1>2, <1>12, <1>13 DEF p, k

(* A missile that explodes, through the window.                            *)
LEMMA MidExploded ==
  ASSUME stage \in Stages, NEW w, Sound(w), NEW s \in Missile, NEW D \in SUBSET Monster,
         NEW g, Mid(w, g, s, D), w.proj[s].act, NEW v \in 0 .. MaxRoll, NEW h, IsEmitted(h),
         h.pj = g.pj, h.fx = g.fx, h.row = g.row, h.list = g.list, h.live = g.live,
         h.win = [t |-> g.win.t, act |-> g.win.act, st |-> <<g.win.st[1], 1>>,
                  tics |-> (BurstTics[g.win.st[1]] - v) % 16, src |-> g.win.src, mom |-> FALSE, leaf |-> g.win.leaf]
  PROVE  Sound(Exploded(w, s, v)) /\ Mid(Exploded(w, s, v), h, s, D)
  <1> DEFINE t  == MissileThing(s)
             p  == w.proj[s]
             p2 == [act |-> TRUE, st |-> <<p.st[1], 1>>, tics |-> (BurstTics[p.st[1]] - v) % 16,
                    src |-> p.src, mom |-> FALSE, leaf |-> p.leaf]
  <1>1. p2 \in MissileCells /\ Exploded(w, s, v) = WithMissile(w, s, p2, w.list)
    BY ExplodedTold
  <1>2. p2.leaf = p.leaf
    OBVIOUS
  <1>3. g.win = WindowOf(t, p)
    BY DEF Mid
  <1>4. p.act = TRUE
    BY MissileOf DEF Flies
  <1>5. g.win.t = t /\ g.win.act = TRUE /\ g.win.st = p.st /\ g.win.src = p.src /\ g.win.leaf = p.leaf
    BY <1>3, <1>4 DEF WindowOf
  <1>6. h.win = WindowOf(t, p2)
    <2>1. /\ p2.act = TRUE /\ p2.st = <<p.st[1], 1>> /\ p2.tics = (BurstTics[p.st[1]] - v) % 16
          /\ p2.src = p.src /\ p2.mom = FALSE /\ p2.leaf = p.leaf
      OBVIOUS
    <2> HIDE DEF p2, p
    <2> QED BY <1>5, <2>1 DEF WindowOf
  <1> HIDE DEF p2
  <1>7. \A E \in SUBSET Monster : RowOf(w, E) = [RowOf(w, E) EXCEPT ![t] = p2.leaf]
    BY <1>2, StaysLists
  <1>8. ListsHold(w.list, Things, Leaf, [RowOf(w, {}) EXCEPT ![t] = p2.leaf])
    <2>1. {} \in SUBSET Monster
      OBVIOUS
    <2> QED BY <1>7, <2>1 DEF Sound
  <1>9. ListsHold(h.list, Things, Leaf, [RowOf(w, D) EXCEPT ![t] = p2.leaf])
    BY <1>7 DEF Mid
  <1>10. Sound(WithMissile(w, s, p2, w.list))
    BY <1>1, <1>8, WithMissileSound
  <1>11. Mid(WithMissile(w, s, p2, w.list), h, s, D)
    BY <1>1, <1>6, <1>8, <1>9, MidStep
  <1> QED BY <1>1, <1>10, <1>11

(* An explosion's state does not depend on an earlier one.                 *)
LEMMA ExplodeAgain ==
  ASSUME stage \in Stages, NEW w, Sound(w), NEW s \in Missile, w.proj[s].act,
         NEW u \in 0 .. MaxRoll, NEW v \in 0 .. MaxRoll, Sound(Exploded(w, s, u))
  PROVE  /\ Exploded(w, s, u).proj[s].act /\ Exploded(w, s, u).proj[s].st = <<w.proj[s].st[1], 1>>
         /\ Exploded(Exploded(w, s, u), s, v) = Exploded(w, s, v)
  <1> DEFINE p == w.proj[s]
             Q(r) == [act |-> TRUE, st |-> <<p.st[1], 1>>, tics |-> (BurstTics[p.st[1]] - r) % 16,
                      src |-> p.src, mom |-> FALSE, leaf |-> p.leaf]
             x == Exploded(w, s, u)
  <1>1. x = WithMissile(w, s, Q(u), w.list) /\ Exploded(w, s, v) = WithMissile(w, s, Q(v), w.list)
    <2>1. x = WithMissile(w, s, Q(u), w.list)
      BY ExplodedTold
    <2>2. Exploded(w, s, v) = WithMissile(w, s, Q(v), w.list)
      BY ExplodedTold
    <2> QED BY <2>1, <2>2
  <1>2. DOMAIN w.proj = Missile
    BY MissileOf
  <1>3. x.mon = w.mon /\ x.fx = w.fx /\ x.list = w.list /\ x.proj = [w.proj EXCEPT ![s] = Q(u)]
    BY <1>1 DEF WithMissile
  <1>4. x.proj[s] = Q(u)
    BY <1>2, <1>3
  <1>5. Q(u).act = TRUE /\ Q(u).st = <<p.st[1], 1>> /\ Q(u).src = p.src /\ Q(u).leaf = p.leaf
    OBVIOUS
  <1> HIDE DEF x
  <1>6. x.proj[s].act /\ x.proj[s].st[1] = p.st[1] /\ x.proj[s].src = p.src /\ x.proj[s].leaf = p.leaf
    <2> HIDE DEF Q
    <2> QED BY <1>4, <1>5
  <1>7. Exploded(x, s, v) =
          WithMissile(x, s, [act |-> TRUE, st |-> <<x.proj[s].st[1], 1>>,
                             tics |-> (BurstTics[x.proj[s].st[1]] - v) % 16,
                             src |-> x.proj[s].src, mom |-> FALSE, leaf |-> x.proj[s].leaf], x.list)
    BY <1>6, ExplodedTold DEF x
  <1>8. Exploded(x, s, v) = WithMissile(x, s, Q(v), x.list)
    BY <1>6, <1>7
  <1>9. [x.proj EXCEPT ![s] = Q(v)] = [w.proj EXCEPT ![s] = Q(v)]
    <2> HIDE DEF Q
    <2> QED BY <1>3
  <1>10. WithMissile(x, s, Q(v), x.list) = WithMissile(w, s, Q(v), w.list)
    <2> HIDE DEF Q
    <2> QED BY <1>3, <1>9 DEF WithMissile
  <1> QED BY <1>1, <1>4, <1>5, <1>6, <1>8, <1>10 DEF x

(* pj_explode does what _explode does, whoever its blast kills.            *)
LEMMA MidExplode ==
  ASSUME stage \in Stages, NEW w, Sound(w), NEW s \in Missile, NEW D \in SUBSET Monster,
         NEW g, Mid(w, g, s, D), w.proj[s].act, NEW v \in 0 .. MaxRoll,
         NEW blast \in SUBSET Monster, blast \cap D = {}, w.proj[s].st[1] # "rocket" => blast = {}
  PROVE  /\ Sound(Exploded(w, s, v))
         /\ Mid(Exploded(w, s, v), EmittedExplode(g, v, blast), s, D \union (blast \cap Dropper))
  <1> DEFINE kind == g.win.st[1]
             x == Exploded(w, s, 0)
             E == D \union (blast \cap Dropper)
             dead1 == [g EXCEPT !.win.mom = FALSE, !.win.st = <<kind, 1>>, !.win.tics = BurstTics[kind]]
             after == IF kind = "rocket" THEN Hit(dead1, blast) ELSE dead1
             h == [after EXCEPT !.win.tics = (@ - v) % 16]
  <1>1. IsEmitted(g) /\ g.win = WindowOf(MissileThing(s), w.proj[s])
    BY DEF Mid
  <1>2. IsWindow(g.win) /\ kind = w.proj[s].st[1]
    BY <1>1 DEF WindowOf, IsWindow
  <1>3. kind \in MissileKind /\ BurstTics[kind] \in 1 .. 15 /\ 0 \in 0 .. MaxRoll
    <2>1. Flies(w.proj[s])
      BY MissileOf
    <2>2. kind \in MissileKind
      BY <1>2, <2>1 DEF Flies
    <2> QED BY <2>2, StageFacts
  <1>4. dead1 = [g EXCEPT !.win.mom = FALSE, !.win.st = <<kind, 1>>, !.win.tics = BurstTics[kind]]
    OBVIOUS
  <1>5. h = [after EXCEPT !.win.tics = (@ - v) % 16]
    OBVIOUS
  <1>6. EmittedExplode(g, v, blast) = h
    BY DEF EmittedExplode
  <1> HIDE DEF dead1, after, h, kind
  <1>7. /\ IsEmitted(dead1) /\ dead1.pj = g.pj /\ dead1.fx = g.fx /\ dead1.row = g.row /\ dead1.list = g.list
        /\ dead1.live = g.live
        /\ dead1.win = [[[g.win EXCEPT !.mom = FALSE] EXCEPT !.st = <<kind, 1>>] EXCEPT !.tics = BurstTics[kind]]
    BY <1>1, <1>4 DEF IsEmitted
  <1> DEFINE dw == dead1.win
             tk == (BurstTics[kind] - 0) % 16
  <1>8. tk = BurstTics[kind]
    BY <1>3
  <1>9. dw = [t |-> g.win.t, act |-> g.win.act, st |-> <<kind, 1>>,
                     tics |-> tk, src |-> g.win.src, mom |-> FALSE, leaf |-> g.win.leaf]
    <2> HIDE DEF dw, tk
    <2>1. dw = [t |-> dw.t, act |-> dw.act, st |-> dw.st, tics |-> dw.tics, src |-> dw.src, mom |-> dw.mom,
                leaf |-> dw.leaf]
      BY <1>2, <1>7 DEF IsWindow, dw
    <2>2. /\ dw.t = g.win.t /\ dw.act = g.win.act /\ dw.st = <<kind, 1>> /\ dw.tics = BurstTics[kind]
          /\ dw.src = g.win.src /\ dw.mom = FALSE /\ dw.leaf = g.win.leaf
      BY <1>2, <1>7 DEF IsWindow, dw
    <2> QED BY <1>8, <2>1, <2>2
  <1>10. Sound(x) /\ Mid(x, dead1, s, D)
    <2> HIDE DEF x
    <2>1. Sound(Exploded(w, s, 0)) /\ Mid(Exploded(w, s, 0), dead1, s, D)
      BY <1>3, <1>7, <1>9, MidExploded DEF kind
    <2> QED BY <2>1 DEF x
  <1>11. x.proj[s].act /\ x.proj[s].st = <<kind, 1>> /\ Exploded(x, s, v) = Exploded(w, s, v)
    BY <1>2, <1>3, <1>10, ExplodeAgain DEF x
  <1> HIDE DEF x
  <1>12. Mid(x, after, s, E)
    <2>1. CASE kind = "rocket"
      <3>1. Mid(x, Hit(dead1, blast), s, E)
        BY <1>10, MidHit
      <3> QED BY <2>1, <3>1 DEF after
    <2>2. CASE kind # "rocket"
      <3>1. E = D
        BY <1>2, <2>2
      <3> HIDE DEF E
      <3> QED BY <1>10, <2>2, <3>1 DEF after
    <2> QED BY <2>1, <2>2
  <1>13. IsEmitted(after) /\ after.win = WindowOf(MissileThing(s), x.proj[s])
    BY <1>12 DEF Mid
  <1>14. IsWindow(after.win) /\ after.win.st = <<kind, 1>> /\ after.win.tics = x.proj[s].tics
         /\ after.win.mom = x.proj[s].mom
    BY <1>11, <1>13 DEF WindowOf, IsWindow
  <1>15. x.proj[s].tics = BurstTics[kind] /\ x.proj[s].mom = FALSE
    <2>1. dw.tics = BurstTics[kind] /\ dw.mom = FALSE
      <3> HIDE DEF dw, tk
      <3> QED BY <1>8, <1>9
    <2>2. dead1.win = WindowOf(MissileThing(s), x.proj[s])
      BY <1>10 DEF Mid
    <2> QED BY <2>1, <2>2 DEF WindowOf
  <1>16. /\ IsEmitted(h) /\ h.pj = after.pj /\ h.fx = after.fx /\ h.row = after.row /\ h.list = after.list
         /\ h.live = after.live /\ h.win = [after.win EXCEPT !.tics = (after.win.tics - v) % 16]
    BY <1>5, <1>13 DEF IsEmitted
  <1> DEFINE hw == h.win
             tv == (BurstTics[after.win.st[1]] - v) % 16
  <1>17. tv = (after.win.tics - v) % 16
    BY <1>14, <1>15
  <1>18. hw = [t |-> after.win.t, act |-> after.win.act, st |-> <<after.win.st[1], 1>>,
               tics |-> tv, src |-> after.win.src, mom |-> FALSE, leaf |-> after.win.leaf]
    <2> HIDE DEF hw, tv
    <2>1. hw = [t |-> hw.t, act |-> hw.act, st |-> hw.st, tics |-> hw.tics, src |-> hw.src, mom |-> hw.mom,
                leaf |-> hw.leaf]
      BY <1>14, <1>16 DEF IsWindow, hw
    <2>2. /\ hw.t = after.win.t /\ hw.act = after.win.act /\ hw.st = after.win.st /\ hw.tics = tv
          /\ hw.src = after.win.src /\ hw.mom = after.win.mom /\ hw.leaf = after.win.leaf
      BY <1>14, <1>16, <1>17 DEF IsWindow, hw
    <2>3. after.win.st = <<after.win.st[1], 1>> /\ after.win.mom = FALSE
      BY <1>14, <1>15
    <2> QED BY <2>1, <2>2, <2>3
  <1>19. Sound(Exploded(x, s, v)) /\ Mid(Exploded(x, s, v), h, s, E)
    <2>1. E \in SUBSET Monster
      BY StageFacts
    <2> HIDE DEF E
    <2> QED BY <1>10, <1>11, <1>12, <1>16, <1>18, <2>1, MidExploded
  <1> QED BY <1>6, <1>11, <1>19

(* What the window's tic does.                                             *)
Pooled(g, h) ==
  /\ IsEmitted(h) /\ h.pj = g.pj /\ h.fx = g.fx /\ h.row = g.row /\ h.live = g.live /\ h.ptss = g.ptss
  /\ IsWindow(h.win) /\ h.win.t = g.win.t
  /\ g.win.tics # 1 =>
       /\ h.list = g.list /\ h.win.act = g.win.act /\ h.win.st = g.win.st /\ h.win.tics = g.win.tics - 1
       /\ h.win.src = g.win.src /\ h.win.mom = g.win.mom /\ h.win.leaf = g.win.leaf
  /\ g.win.tics = 1 /\ NextOf(g.win.st) # Null =>
       /\ h.list = g.list /\ h.win.act = g.win.act /\ h.win.st = NextOf(g.win.st) /\ h.win.tics = Tics(NextOf(g.win.st))
       /\ h.win.src = g.win.src /\ h.win.mom = g.win.mom /\ h.win.leaf = g.win.leaf
  /\ g.win.tics = 1 /\ NextOf(g.win.st) = Null =>
       /\ h.list = Unlink(g.list, g.win.leaf, g.win.t) /\ h.win.act = FALSE /\ h.win.st = Null /\ h.win.tics = 0
       /\ h.win.src = 0 /\ h.win.mom = FALSE /\ h.win.leaf = 0

(* pool_tic, cell by cell.                                                 *)
LEMMA PoolTicTold ==
  ASSUME NEW g, IsEmitted(g), IsWindow(g.win), g.win.tics \in 1 .. 15
  PROVE  Pooled(g, PoolTic(g))
  <1> DEFINE x == g.win
             h == PoolTic(g)
             n == NextOf(x.st)
             tk == (x.tics - 1) % 16
             y == [x EXCEPT !.tics = tk]
             z1 == [y EXCEPT !.st = n, !.tics = Tics(n)]
             z2 == [y EXCEPT !.act = FALSE, !.st = Null, !.mom = FALSE, !.leaf = 0, !.src = 0]
             u == PwUnlink(g)
  <1>1. tk = x.tics - 1
    OBVIOUS
  <1>2. y = [x EXCEPT !.tics = tk]
    OBVIOUS
  <1>3. z1 = [y EXCEPT !.st = n, !.tics = Tics(n)]
    OBVIOUS
  <1>4. z2 = [y EXCEPT !.act = FALSE, !.st = Null, !.mom = FALSE, !.leaf = 0, !.src = 0]
    OBVIOUS
  <1>5. y.st = x.st
    BY DEF IsWindow
  <1>6. y.tics = tk
    BY DEF IsWindow
  <1>7. h = IF y.tics # 0 THEN [g EXCEPT !.win = y]
            ELSE IF NextOf(y.st) # Null THEN [g EXCEPT !.win = [y EXCEPT !.st = NextOf(y.st), !.tics = Tics(NextOf(y.st))]]
            ELSE [u EXCEPT !.win = z2]
    BY DEF PoolTic
  <1>8. h = IF x.tics # 1 THEN [g EXCEPT !.win = y]
            ELSE IF n # Null THEN [g EXCEPT !.win = z1]
            ELSE [u EXCEPT !.win = z2]
    BY <1>1, <1>5, <1>6, <1>7
  <1> HIDE DEF y, z1, z2, tk, h, u, n
  <1>9. IsWindow(y) /\ y.t = x.t /\ y.act = x.act /\ y.src = x.src /\ y.mom = x.mom /\ y.leaf = x.leaf
    BY <1>2 DEF IsWindow
  <1>10. /\ IsWindow(z1) /\ z1.t = x.t /\ z1.act = x.act
         /\ z1.src = x.src /\ z1.mom = x.mom /\ z1.leaf = x.leaf
         /\ z1.st = n /\ z1.tics = Tics(n)
    BY <1>3, <1>9 DEF IsWindow
  <1>11. IsWindow(z2) /\ z2.t = x.t /\ z2.act = FALSE /\ z2.src = 0 /\ z2.mom = FALSE /\ z2.leaf = 0
         /\ z2.st = Null /\ z2.tics = y.tics
    BY <1>4, <1>9 DEF IsWindow
  <1>12. u = [g EXCEPT !.list = Unlink(g.list, x.leaf, x.t)]
    BY DEF PwUnlink, u
  <1>13. /\ IsEmitted(u) /\ u.pj = g.pj /\ u.fx = g.fx
         /\ u.row = g.row /\ u.live = g.live /\ u.ptss = g.ptss
         /\ u.list = Unlink(g.list, x.leaf, x.t)
    BY <1>12 DEF IsEmitted
  <1>14. CASE x.tics # 1
    <2>1. h = [g EXCEPT !.win = y]
      BY <1>8, <1>14
    <2>2. /\ IsEmitted(h) /\ h.pj = g.pj /\ h.fx = g.fx
          /\ h.row = g.row /\ h.live = g.live /\ h.ptss = g.ptss
          /\ h.list = g.list /\ h.win = y
      BY <2>1 DEF IsEmitted
    <2>3. h.win.tics = x.tics - 1 /\ h.win.st = x.st
      BY <1>1, <1>5, <1>6, <2>2
    <2> QED BY <1>9, <1>14, <2>2, <2>3 DEF h, Pooled
  <1>15. CASE x.tics = 1 /\ n # Null
    <2>1. h = [g EXCEPT !.win = z1]
      BY <1>8, <1>15
    <2>2. /\ IsEmitted(h) /\ h.pj = g.pj /\ h.fx = g.fx
          /\ h.row = g.row /\ h.live = g.live /\ h.ptss = g.ptss
          /\ h.list = g.list /\ h.win = z1
      BY <2>1 DEF IsEmitted
    <2> QED BY <1>10, <1>15, <2>2 DEF h, n, Pooled
  <1>16. CASE x.tics = 1 /\ n = Null
    <2>1. h = [u EXCEPT !.win = z2]
      BY <1>8, <1>16
    <2>2. /\ IsEmitted(h) /\ h.pj = u.pj /\ h.fx = u.fx
          /\ h.row = u.row /\ h.live = u.live /\ h.ptss = u.ptss
          /\ h.list = u.list /\ h.win = z2
      BY <1>13, <2>1 DEF IsEmitted
    <2>3. h.win.tics = 0
      BY <1>1, <1>6, <1>11, <1>16, <2>2
    <2> QED BY <1>11, <1>13, <1>16, <2>2, <2>3 DEF h, n, Pooled
  <1>17. x.tics = 1 \/ x.tics # 1
    OBVIOUS
  <1> QED BY <1>14, <1>15, <1>16, <1>17

(* The model's tic of a missile.                                           *)
TickedMissile(p) ==
  IF p.tics # 1 THEN [act |-> TRUE, st |-> p.st, tics |-> p.tics - 1, src |-> p.src, mom |-> p.mom, leaf |-> p.leaf]
  ELSE IF NextOf(p.st) # Null
       THEN [act |-> TRUE, st |-> NextOf(p.st), tics |-> Tics(NextOf(p.st)), src |-> p.src, mom |-> p.mom,
             leaf |-> p.leaf]
       ELSE FreeMissile

(* A missile's tic.                                                        *)
LEMMA TickedIs ==
  ASSUME stage \in Stages, NEW p, Flies(p)
  PROVE  /\ p.tics \in 1 .. 15 /\ TickedMissile(p) \in MissileCells
         /\ p.tics # 1 \/ NextOf(p.st) # Null =>
              /\ TickedMissile(p).act = TRUE /\ TickedMissile(p).leaf = p.leaf
              /\ TickedMissile(p).src = p.src /\ TickedMissile(p).mom = p.mom
  <1>1. /\ p.st \in MissileKind \X Nat /\ p.st[2] \in 0 .. Run[p.st[1]]
        /\ p.tics \in Nat /\ p.tics \in 1 .. Tics(p.st) /\ p.leaf \in Leaf /\ p.mom \in BOOLEAN
        /\ p.src \in Nat /\ p.src \in (IF p.st[1] = "ball" THEN Shooter ELSE {0})
    BY DEF Flies
  <1>2. Tics(p.st) \in 1 .. 15
    BY <1>1, MissileNext
  <1>3. p.tics \in 1 .. 15
    BY <1>1, <1>2
  <1> DEFINE q == TickedMissile(p)
             n == NextOf(p.st)
  <1>4. CASE p.tics # 1
    <2>1. q = [act |-> TRUE, st |-> p.st, tics |-> p.tics - 1, src |-> p.src, mom |-> p.mom, leaf |-> p.leaf]
      BY <1>4 DEF TickedMissile
    <2>2. p.tics - 1 \in Nat /\ p.tics - 1 \in 1 .. Tics(p.st)
      BY <1>1, <1>3, <1>2, <1>4
    <2> HIDE DEF q
    <2>3. Flies(q)
      BY <1>1, <2>1, <2>2 DEF Flies
    <2> QED BY <1>3, <2>1, <2>3, MissileIs DEF q
  <1>5. CASE p.tics = 1 /\ n # Null
    <2>1. q = [act |-> TRUE, st |-> n, tics |-> Tics(n), src |-> p.src, mom |-> p.mom, leaf |-> p.leaf]
      BY <1>5 DEF TickedMissile
    <2>2. /\ n \in MissileKind \X Nat /\ n[1] = p.st[1]
          /\ n[2] \in 0 .. Run[p.st[1]] /\ Tics(n) \in 1 .. 15
      BY <1>1, <1>5, MissileNext
    <2> HIDE DEF q, n
    <2>3. Flies(q)
      BY <1>1, <2>1, <2>2 DEF Flies
    <2> QED BY <1>3, <2>1, <2>3, MissileIs DEF q
  <1>6. CASE p.tics = 1 /\ n = Null
    <2>1. q = FreeMissile
      BY <1>6 DEF TickedMissile
    <2> QED BY <1>3, <1>6, <2>1, MissileIs
  <1> QED BY <1>4, <1>5, <1>6

(* A missile's tic changes one slot.                                       *)
LEMMA MissileTicTold ==
  ASSUME stage \in Stages, NEW w, Sound(w), NEW s \in Missile, w.proj[s].act
  PROVE  MissileTic(w, s) =
           WithMissile(w, s, TickedMissile(w.proj[s]),
                       IF w.proj[s].tics = 1 /\ NextOf(w.proj[s].st) = Null
                       THEN Unlink(w.list, w.proj[s].leaf, MissileThing(s)) ELSE w.list)
  <1> DEFINE p == w.proj[s]
             q == [p EXCEPT !.tics = @ - 1]
             n == NextOf(q.st)
             r == [q EXCEPT !.st = n, !.tics = Tics(n)]
             h == MissileTic(w, s)
             gone == [w EXCEPT !.proj[s] = FreeMissile, !.list = Unlink(@, q.leaf, MissileThing(s))]
  <1>1. Flies(p)
    BY MissileOf
  <1>2. w = [mon |-> w.mon, proj |-> w.proj, fx |-> w.fx, list |-> w.list]
    BY DEF Sound
  <1>3. h = IF q.tics > 0 THEN [w EXCEPT !.proj[s] = q]
            ELSE IF n # Null THEN [w EXCEPT !.proj[s] = r] ELSE gone
    BY DEF MissileTic
  <1>4. q = [p EXCEPT !.tics = p.tics - 1]
    OBVIOUS
  <1>5. r = [q EXCEPT !.st = n, !.tics = Tics(n)]
    OBVIOUS
  <1>6. gone = [w EXCEPT !.proj[s] = FreeMissile, !.list = Unlink(@, q.leaf, MissileThing(s))]
    OBVIOUS
  <1>7. p = [act |-> p.act, st |-> p.st, tics |-> p.tics, src |-> p.src, mom |-> p.mom, leaf |-> p.leaf]
        /\ p.act = TRUE /\ p.tics \in 1 .. 15
    <2>1. p = [act |-> TRUE, st |-> p.st, tics |-> p.tics, src |-> p.src, mom |-> p.mom, leaf |-> p.leaf]
      BY <1>1 DEF Flies
    <2>2. p.act = TRUE
      BY <1>1 DEF Flies
    <2>3. p.tics \in 1 .. 15
      BY <1>1, TickedIs
    <2> HIDE DEF p
    <2> QED BY <2>1, <2>2, <2>3
  <1> HIDE DEF q, n, r, h, gone, p
  <1>8. q = [act |-> q.act, st |-> q.st, tics |-> q.tics, src |-> q.src, mom |-> q.mom, leaf |-> q.leaf]
        /\ q.act = TRUE /\ q.st = p.st /\ q.tics = p.tics - 1 /\ q.src = p.src /\ q.mom = p.mom /\ q.leaf = p.leaf
    BY <1>4, <1>7
  <1>9. r = [act |-> r.act, st |-> r.st, tics |-> r.tics, src |-> r.src, mom |-> r.mom, leaf |-> r.leaf]
        /\ r.act = TRUE /\ r.st = n /\ r.tics = Tics(n) /\ r.src = p.src /\ r.mom = p.mom /\ r.leaf = p.leaf
    BY <1>5, <1>8
  <1>10. n = NextOf(p.st)
    BY <1>8 DEF n
  <1>11. CASE p.tics # 1
    <2>1. TickedMissile(p) =
            [act |-> TRUE, st |-> p.st, tics |-> p.tics - 1, src |-> p.src, mom |-> p.mom, leaf |-> p.leaf]
      BY <1>11 DEF TickedMissile
    <2>2. q = TickedMissile(p)
      BY <1>8, <2>1
    <2>3. h = [w EXCEPT !.proj[s] = q]
      BY <1>3, <1>7, <1>8, <1>11
    <2>4. h = [mon |-> w.mon, proj |-> [w.proj EXCEPT ![s] = q], fx |-> w.fx, list |-> w.list]
      BY <1>2, <2>3
    <2> QED BY <1>11, <2>2, <2>4 DEF WithMissile, p, h
  <1>12. CASE p.tics = 1 /\ n # Null
    <2>1. TickedMissile(p) =
            [act |-> TRUE, st |-> n, tics |-> Tics(n), src |-> p.src, mom |-> p.mom, leaf |-> p.leaf]
      BY <1>10, <1>12 DEF TickedMissile
    <2>2. r = TickedMissile(p)
      BY <1>9, <2>1
    <2>3. h = [w EXCEPT !.proj[s] = r]
      BY <1>3, <1>7, <1>8, <1>12
    <2>4. h = [mon |-> w.mon, proj |-> [w.proj EXCEPT ![s] = r], fx |-> w.fx, list |-> w.list]
      BY <1>2, <2>3
    <2> QED BY <1>10, <1>12, <2>2, <2>4 DEF WithMissile, p, h
  <1>13. CASE p.tics = 1 /\ n = Null
    <2>1. TickedMissile(p) = FreeMissile
      BY <1>10, <1>13 DEF TickedMissile
    <2>2. h = gone
      BY <1>3, <1>7, <1>8, <1>13
    <2>3. h = [mon |-> w.mon, proj |-> [w.proj EXCEPT ![s] = FreeMissile], fx |-> w.fx,
               list |-> Unlink(w.list, p.leaf, MissileThing(s))]
      BY <1>2, <1>6, <1>8, <2>2
    <2> QED BY <1>10, <1>13, <2>1, <2>3 DEF WithMissile, p, h
  <1> QED BY <1>11, <1>12, <1>13

(* The window's tic is the model's.                                        *)
LEMMA MidTic ==
  ASSUME stage \in Stages, NEW w, Sound(w), NEW s \in Missile, NEW D \in SUBSET Monster,
         NEW g, Mid(w, g, s, D), w.proj[s].act
  PROVE  Sound(MissileTic(w, s)) /\ Mid(MissileTic(w, s), PoolTic(g), s, D)
  <1> DEFINE t == MissileThing(s)
             p == w.proj[s]
             q == TickedMissile(p)
             n == NextOf(p.st)
             ls == IF p.tics = 1 /\ n = Null THEN Unlink(w.list, p.leaf, t) ELSE w.list
             h == PoolTic(g)
  <1>1. MissileTic(w, s) = WithMissile(w, s, q, ls)
    BY MissileTicTold
  <1>2. Flies(p)
    BY MissileOf
  <1>3. p.tics \in 1 .. 15 /\ q \in MissileCells /\ p.leaf \in Leaf /\ p.act = TRUE
    BY <1>2, TickedIs DEF Flies
  <1>4. IsEmitted(g) /\ g.win = WindowOf(t, p)
    BY DEF Mid
  <1>5. IsWindow(g.win) /\ g.win.t = t /\ g.win.act = TRUE /\ g.win.st = p.st /\ g.win.tics = p.tics
        /\ g.win.src = p.src /\ g.win.mom = p.mom /\ g.win.leaf = p.leaf
    BY <1>3, <1>4 DEF WindowOf, IsWindow
  <1>6. /\ IsEmitted(h) /\ h.pj = g.pj /\ h.fx = g.fx /\ h.row = g.row /\ h.live = g.live
        /\ IsWindow(h.win) /\ h.win.t = t
        /\ p.tics # 1 =>
             /\ h.list = g.list /\ h.win.act = TRUE /\ h.win.st = p.st /\ h.win.tics = p.tics - 1
             /\ h.win.src = p.src /\ h.win.mom = p.mom /\ h.win.leaf = p.leaf
        /\ p.tics = 1 /\ n # Null =>
             /\ h.list = g.list /\ h.win.act = TRUE /\ h.win.st = n /\ h.win.tics = Tics(n)
             /\ h.win.src = p.src /\ h.win.mom = p.mom /\ h.win.leaf = p.leaf
        /\ p.tics = 1 /\ n = Null =>
             /\ h.list = Unlink(g.list, p.leaf, t) /\ h.win.act = FALSE /\ h.win.st = Null /\ h.win.tics = 0
             /\ h.win.src = 0 /\ h.win.mom = FALSE /\ h.win.leaf = 0
    <2> HIDE DEF p, t
    <2>1. g.win.tics \in 1 .. 15
      BY <1>3, <1>5
    <2>2. Pooled(g, h)
      BY <1>4, <1>5, <2>1, PoolTicTold
    <2> HIDE DEF h, n
    <2>3. n = NextOf(g.win.st)
      BY <1>5 DEF n
    <2> QED BY <1>5, <2>2, <2>3 DEF Pooled
  <1>7. /\ p.tics # 1 => q = [act |-> TRUE, st |-> p.st, tics |-> p.tics - 1, src |-> p.src, mom |-> p.mom, leaf |-> p.leaf]
        /\ p.tics = 1 /\ n # Null =>
             q = [act |-> TRUE, st |-> n, tics |-> Tics(n), src |-> p.src, mom |-> p.mom, leaf |-> p.leaf]
        /\ p.tics = 1 /\ n = Null => q = FreeMissile
    BY DEF TickedMissile
  <1> HIDE DEF h, q, n, p, t
  <1>8. h.win = WindowOf(t, q)
    <2>1. h.win = [t |-> h.win.t, act |-> h.win.act, st |-> h.win.st, tics |-> h.win.tics, src |-> h.win.src,
                   mom |-> h.win.mom, leaf |-> h.win.leaf]
      BY <1>6 DEF IsWindow
    <2>2. /\ h.win.act = q.act /\ h.win.st = q.st /\ h.win.tics = q.tics
          /\ h.win.src = q.src /\ h.win.mom = q.mom
          /\ h.win.leaf = q.leaf
      <3>1. CASE p.tics # 1
        <4>1. /\ q.act = TRUE /\ q.st = p.st /\ q.tics = p.tics - 1
              /\ q.src = p.src /\ q.mom = p.mom /\ q.leaf = p.leaf
          BY <1>7, <3>1
        <4> QED BY <1>6, <3>1, <4>1
      <3>2. CASE p.tics = 1 /\ n # Null
        <4>1. /\ q.act = TRUE /\ q.st = n /\ q.tics = Tics(n)
              /\ q.src = p.src /\ q.mom = p.mom /\ q.leaf = p.leaf
          BY <1>7, <3>2
        <4> QED BY <1>6, <3>2, <4>1
      <3>3. CASE p.tics = 1 /\ n = Null
        <4>1. q.act = FALSE /\ q.st = Null /\ q.tics = 0 /\ q.src = 0 /\ q.mom = FALSE /\ q.leaf = 0
          BY <1>7, <3>3 DEF FreeMissile
        <4> QED BY <1>6, <3>3, <4>1
      <3> QED BY <3>1, <3>2, <3>3
    <2> QED BY <1>6, <2>1, <2>2 DEF WindowOf
  <1>9. ASSUME NEW E \in SUBSET Monster, NEW l, ListsHold(l, Things, Leaf, RowOf(w, E))
        PROVE  ListsHold(IF p.tics = 1 /\ n = Null THEN Unlink(l, p.leaf, t) ELSE l, Things, Leaf,
                         [RowOf(w, E) EXCEPT ![t] = q.leaf])
    <2> DEFINE r == RowOf(w, E)
    <2>1. /\ r \in [Thing -> Leaf \union {0}] /\ r[t] = p.leaf /\ t \in Thing
          /\ Things \in Nat /\ 0 \notin Leaf
      BY RowOfIs, ThingFacts DEF t, p
    <2>2. r = [r EXCEPT ![t] = p.leaf]
      BY StaysLists DEF t, p
    <2>3. CASE p.tics = 1 /\ n = Null
      <3>1. q.leaf = 0
        BY <1>7, <2>3 DEF FreeMissile
      <3> HIDE DEF r
      <3>2. ListsHold(Unlink(l, p.leaf, t), Things, Leaf, [r EXCEPT ![t] = 0])
        BY <1>3, <1>9, <2>1, UnlinkHolds DEF Thing, r
      <3> QED BY <2>3, <3>1, <3>2 DEF r
    <2>4. CASE ~(p.tics = 1 /\ n = Null)
      <3>1. q.leaf = p.leaf
        BY <1>7, <2>4
      <3> QED BY <1>9, <2>2, <2>4, <3>1
    <2> QED BY <2>3, <2>4
  <1>10. ListsHold(ls, Things, Leaf, [RowOf(w, {}) EXCEPT ![t] = q.leaf])
    <2>1. {} \in SUBSET Monster /\ ListsHold(w.list, Things, Leaf, RowOf(w, {}))
      BY DEF Sound
    <2> QED BY <1>9, <2>1
  <1>11. ListsHold(h.list, Things, Leaf, [RowOf(w, D) EXCEPT ![t] = q.leaf])
    <2>1. ListsHold(g.list, Things, Leaf, RowOf(w, D))
      BY DEF Mid
    <2>2. h.list = IF p.tics = 1 /\ n = Null THEN Unlink(g.list, p.leaf, t) ELSE g.list
      BY <1>6
    <2> QED BY <1>9, <2>1, <2>2
  <1> HIDE DEF ls
  <1>12. Sound(WithMissile(w, s, q, ls))
    BY <1>3, <1>10, WithMissileSound DEF t
  <1>13. Mid(WithMissile(w, s, q, ls), h, s, D)
    BY <1>3, <1>6, <1>8, <1>10, <1>11, MidStep DEF t
  <1> QED BY <1>1, <1>12, <1>13 DEF h

(* A try and what comes of it.                                             *)
TryMade(w, s, o, v) == IF o.at = "clear" THEN Moved(w, s, o.leaf) ELSE Exploded(w, s, v)

(* Who may die of a try, none of whom has left an item before.             *)
MayKill(w, s, o, killed, blast, D) ==
  /\ killed \in SUBSET Monster /\ blast \in SUBSET Monster
  /\ killed \cap D = {} /\ blast \cap (D \union killed) = {}
  /\ o.at = "clear" => o.leaf \in Leaf /\ killed = {} /\ blast = {}
  /\ w.proj[s].st[1] # "rocket" => blast = {}

(* A try, and what it meets, on both sides.                                *)
LEMMA MidTry ==
  ASSUME stage \in Stages, NEW w, Sound(w), NEW s \in Missile, NEW D \in SUBSET Monster,
         NEW g, Mid(w, g, s, D), w.proj[s].act, NEW v \in 0 .. MaxRoll, NEW o, NEW killed, NEW blast,
         MayKill(w, s, o, killed, blast, D)
  PROVE  /\ Sound(TryMade(w, s, o, v)) /\ TryMade(w, s, o, v).proj[s].act
         /\ Mid(TryMade(w, s, o, v), EmittedTry(g, o, killed, blast, v), s, D \union ((killed \union blast) \cap Dropper))
  <1> DEFINE E == D \union ((killed \union blast) \cap Dropper)
             x == TryMade(w, s, o, v)
  <1>0. /\ killed \in SUBSET Monster /\ blast \in SUBSET Monster
        /\ killed \cap D = {} /\ blast \cap (D \union killed) = {}
        /\ o.at = "clear" => o.leaf \in Leaf /\ killed = {} /\ blast = {}
        /\ w.proj[s].st[1] # "rocket" => blast = {}
    BY DEF MayKill
  <1>1. CASE o.at = "clear"
    <2>1. o.leaf \in Leaf /\ E = D
      BY <1>0, <1>1
    <2>2. x = Moved(w, s, o.leaf)
      BY <1>1 DEF TryMade
    <2>3. EmittedTry(g, o, killed, blast, v) =
            IF o.leaf = g.win.leaf THEN g ELSE PwLink([PwUnlink(g) EXCEPT !.win.leaf = o.leaf])
      BY <1>1 DEF EmittedTry
    <2> HIDE DEF E, x
    <2>4. Sound(x) /\ Mid(x, EmittedTry(g, o, killed, blast, v), s, E)
      BY <2>1, <2>2, <2>3, MidMoved
    <2>5. x.proj[s].act
      <3> DEFINE p == w.proj[s]
                 p2 == [act |-> TRUE, st |-> p.st, tics |-> p.tics, src |-> p.src, mom |-> p.mom, leaf |-> o.leaf]
                 ls == Link(Unlink(w.list, p.leaf, MissileThing(s)), o.leaf, MissileThing(s))
      <3>1. x = IF o.leaf = p.leaf THEN w ELSE WithMissile(w, s, p2, ls)
        BY <2>1, <2>2, MovedTold
      <3>2. p2.act = TRUE
        OBVIOUS
      <3> HIDE DEF p2, ls
      <3>3. DOMAIN w.proj = Missile
        BY MissileOf
      <3> QED BY <3>1, <3>2, <3>3 DEF WithMissile
    <2> QED BY <2>4, <2>5 DEF E, x
  <1>2. CASE o.at # "clear"
    <2> DEFINE F == D \union (killed \cap Dropper)
    <2>1. x = Exploded(w, s, v)
      BY <1>2 DEF TryMade
    <2>2. EmittedTry(g, o, killed, blast, v) = EmittedExplode(Hit(g, killed), v, blast)
      BY <1>2 DEF EmittedTry
    <2>3. Mid(w, Hit(g, killed), s, F)
      BY <1>0, MidHit
    <2>4. F \in SUBSET Monster /\ blast \cap F = {} /\ F \union (blast \cap Dropper) = E
      BY <1>0, StageFacts
    <2> DEFINE h == Hit(g, killed)
    <2> HIDE DEF E, x, F, h
    <2>5. Sound(x) /\ Mid(x, EmittedTry(g, o, killed, blast, v), s, E)
      <3>1. Mid(w, h, s, F)
        BY <2>3 DEF h
      <3>2. /\ Sound(Exploded(w, s, v))
            /\ Mid(Exploded(w, s, v), EmittedExplode(h, v, blast), s, F \union (blast \cap Dropper))
        BY <1>0, <2>4, <3>1, MidExplode
      <3> QED BY <2>1, <2>2, <2>4, <3>2 DEF h
    <2>6. x.proj[s].act
      <3>1. 0 \in 0 .. MaxRoll
        BY StageFacts
      <3> QED BY <2>1, <2>5, <3>1, ExplodeAgain
    <2> QED BY <2>5, <2>6 DEF E, x
  <1> QED BY <1>1, <1>2

(* A missile is loaded into the window, and put back.                      *)
LEMMA MidIn ==
  ASSUME stage \in Stages, NEW w, Sound(w), NEW s \in Missile, NEW D \in SUBSET Monster,
         NEW f, Follows(w, f, D), NEW g, g = [f EXCEPT !.win = WindowOf(MissileThing(s), w.proj[s])]
  PROVE  Mid(w, g, s, D)
  <1> DEFINE t == MissileThing(s)
             x == WindowOf(t, w.proj[s])
  <1>1. IsEmitted(f) /\ f.pj = PjOf(w.proj) /\ f.fx = FxOf(w.fx) /\ f.row = RowOf(w, D)
        /\ ListsHold(f.list, Things, Leaf, RowOf(w, D)) /\ f.live = Cardinality(D)
    BY DEF Follows
  <1> HIDE DEF x
  <1>2. /\ IsEmitted(g) /\ g.pj = f.pj /\ g.fx = f.fx
        /\ g.row = f.row /\ g.list = f.list /\ g.live = f.live
        /\ g.win = x
    BY <1>1 DEF IsEmitted, x
  <1>3. g.pj = [PjOf(w.proj) EXCEPT ![s] = g.pj[s]]
    BY <1>1, <1>2 DEF PjOf
  <1>4. g.row = [RowOf(w, D) EXCEPT ![t] = g.row[t]]
    <2>1. RowOf(w, D) = [u \in Thing |-> RowOf(w, D)[u]]
      BY DEF RowOf, Row
    <2> QED BY <1>1, <1>2, <2>1
  <1> QED BY <1>1, <1>2, <1>3, <1>4 DEF Mid, x

(* The window loaded from a slot that flies.                               *)
LEMMA LoadIs ==
  ASSUME stage \in Stages, NEW w, Sound(w), NEW s \in Missile, NEW D \in SUBSET Monster,
         NEW f, Follows(w, f, D), w.proj[s].act
  PROVE  LoadMissile(f, s) = [f EXCEPT !.win = WindowOf(MissileThing(s), w.proj[s])]
  <1> DEFINE t == MissileThing(s)
             p == w.proj[s]
             x == [t |-> t, act |-> TRUE, st |-> f.pj[s].st, tics |-> f.pj[s].tics,
                   src |-> f.pj[s].src, mom |-> f.pj[s].mom, leaf |-> f.row[t]]
  <1>1. LoadMissile(f, s) = [f EXCEPT !.win = x]
    BY DEF LoadMissile
  <1>2. p.act = TRUE
    BY MissileOf DEF Flies
  <1>3. f.row[t] = p.leaf
    BY RowOfIs DEF Follows
  <1>4. f.pj[s].st = p.st /\ f.pj[s].tics = p.tics /\ f.pj[s].src = p.src /\ f.pj[s].mom = p.mom
    BY DEF Follows, PjOf
  <1> HIDE DEF p, t
  <1>5. x = WindowOf(t, p)
    BY <1>2, <1>3, <1>4 DEF WindowOf
  <1> QED BY <1>1, <1>5 DEF p, t

(* pj_out<s> gives the slot what the window holds.                         *)
LEMMA MidOut ==
  ASSUME stage \in Stages, NEW w, Sound(w), NEW s \in Missile, NEW D \in SUBSET Monster,
         NEW g, Mid(w, g, s, D)
  PROVE  Follows(w, CopyOutMissile(g, s), D)
  <1> DEFINE t == MissileThing(s)
             p == w.proj[s]
             h == CopyOutMissile(g, s)
             slot == [act |-> g.win.act, st |-> g.win.st, tics |-> g.win.tics, src |-> g.win.src, mom |-> g.win.mom]
             cell == [act |-> p.act, st |-> p.st, tics |-> p.tics, src |-> p.src, mom |-> p.mom]
  <1>1. IsEmitted(g) /\ g.win = WindowOf(t, p)
        /\ g.pj = [PjOf(w.proj) EXCEPT ![s] = g.pj[s]] /\ g.fx = FxOf(w.fx)
        /\ g.row = [RowOf(w, D) EXCEPT ![t] = g.row[t]]
        /\ ListsHold(g.list, Things, Leaf, RowOf(w, D)) /\ g.live = Cardinality(D)
    BY DEF Mid
  <1>2. h = [g EXCEPT !.pj[s] = slot, !.row[t] = g.win.leaf]
    BY DEF CopyOutMissile
  <1>3. slot = cell /\ g.win.leaf = p.leaf /\ IsWindow(g.win)
    <2>1. /\ g.win.act = p.act /\ g.win.st = p.st /\ g.win.tics = p.tics /\ g.win.src = p.src
          /\ g.win.mom = p.mom /\ g.win.leaf = p.leaf
      BY <1>1 DEF WindowOf
    <2>2. IsWindow(g.win)
      BY <1>1 DEF WindowOf, IsWindow
    <2> QED BY <2>1, <2>2
  <1>4. PjOf(w.proj)[s] = cell
    BY DEF PjOf
  <1>5. RowOf(w, D) \in [Thing -> Leaf \union {0}] /\ RowOf(w, D)[t] = p.leaf /\ t \in Thing
    BY RowOfIs, ThingFacts
  <1> HIDE DEF h, slot, cell, t, p
  <1>6. IsEmitted(h) /\ h.pj = [g.pj EXCEPT ![s] = slot] /\ h.row = [g.row EXCEPT ![t] = g.win.leaf]
        /\ h.fx = g.fx /\ h.list = g.list /\ h.live = g.live /\ h.win = g.win
    BY <1>1, <1>2 DEF IsEmitted
  <1>7. h.pj = PjOf(w.proj)
    <2> DEFINE a == PjOf(w.proj)
    <2>1. a = [x \in Missile |-> a[x]] /\ a[s] = cell /\ g.pj = [a EXCEPT ![s] = g.pj[s]]
      BY <1>1, <1>4 DEF PjOf
    <2> HIDE DEF a
    <2>2. [[a EXCEPT ![s] = g.pj[s]] EXCEPT ![s] = cell] = a
      BY <2>1
    <2> QED BY <1>3, <1>6, <2>1, <2>2 DEF a
  <1>8. h.row = RowOf(w, D)
    <2> DEFINE a == RowOf(w, D)
    <2>1. a = [x \in Thing |-> a[x]] /\ a[t] = p.leaf /\ g.row = [a EXCEPT ![t] = g.row[t]]
      BY <1>1, <1>5
    <2> HIDE DEF a
    <2>2. [[a EXCEPT ![t] = g.row[t]] EXCEPT ![t] = p.leaf] = a
      BY <2>1
    <2> QED BY <1>3, <1>6, <2>1, <2>2 DEF a
  <1> QED BY <1>1, <1>3, <1>6, <1>7, <1>8 DEF Follows, h

(* A missile thinks.                                                       *)
LEMMA ThinksFollows ==
  ASSUME stage \in Stages, NEW w, Sound(w), NEW s \in Missile, NEW D \in SUBSET Monster,
         NEW f, Follows(w, f, D), w.proj[s].act, NEW v \in 0 .. MaxRoll, NEW o, NEW killed, NEW blast,
         MayKill(w, s, o, killed, blast, D), ~w.proj[s].mom => killed = {} /\ blast = {}
  PROVE  /\ Sound(Thinks(w, s, o, v))
         /\ Follows(Thinks(w, s, o, v), EmittedThinks(f, s, o, killed, blast, v),
                    D \union ((killed \union blast) \cap Dropper))
  <1> DEFINE E == D \union ((killed \union blast) \cap Dropper)
             g == LoadMissile(f, s)
             x == IF w.proj[s].mom THEN TryMade(w, s, o, v) ELSE w
             h == IF g.win.mom THEN EmittedTry(g, o, killed, blast, v) ELSE g
  <1>1. Thinks(w, s, o, v) = MissileTic(x, s)
    BY DEF Thinks, TryMade
  <1>2. EmittedThinks(f, s, o, killed, blast, v) = CopyOutMissile(PoolTic(h), s)
    BY DEF EmittedThinks
  <1>3. Mid(w, g, s, D)
    BY LoadIs, MidIn
  <1>4. g.win.mom = w.proj[s].mom
    BY <1>3 DEF Mid, WindowOf
  <1>5. E \in SUBSET Monster
    BY StageFacts DEF MayKill
  <1> HIDE DEF g
  <1>6. Sound(x) /\ x.proj[s].act /\ Mid(x, h, s, E)
    <2>1. CASE w.proj[s].mom
      <3>1. x = TryMade(w, s, o, v) /\ h = EmittedTry(g, o, killed, blast, v)
        BY <1>4, <2>1
      <3> HIDE DEF x, h
      <3> QED BY <1>3, <3>1, MidTry
    <2>2. CASE ~w.proj[s].mom
      <3>1. x = w /\ h = g /\ E = D
        BY <1>4, <2>2
      <3> HIDE DEF x, h, E
      <3> QED BY <1>3, <3>1
    <2> QED BY <2>1, <2>2
  <1> HIDE DEF x, h, E
  <1>7. Sound(MissileTic(x, s)) /\ Mid(MissileTic(x, s), PoolTic(h), s, E)
    BY <1>5, <1>6, MidTic
  <1>8. Follows(MissileTic(x, s), CopyOutMissile(PoolTic(h), s), E)
    BY <1>5, <1>7, MidOut
  <1> QED BY <1>1, <1>2, <1>7, <1>8 DEF E

(* A missile is fired into a free slot.                                    *)
LEMMA LaunchFollows ==
  ASSUME stage \in Stages, NEW w, Sound(w), NEW s \in Missile, NEW D \in SUBSET Monster,
         NEW f, Follows(w, f, D), ~w.proj[s].act,
         NEW kind \in MissileKind, NEW src \in Nat, src \in (IF kind = "ball" THEN Shooter ELSE {0}),
         NEW leaf \in Leaf, NEW v0 \in 0 .. MaxRoll, NEW v \in 0 .. MaxRoll, NEW o, NEW killed, NEW blast,
         killed \in SUBSET Monster, blast \in SUBSET Monster,
         killed \cap D = {}, blast \cap (D \union killed) = {},
         o.at = "clear" => o.leaf = leaf /\ killed = {} /\ blast = {},
         kind # "rocket" => blast = {}
  PROVE  /\ Sound(Launched(w, s, kind, src, leaf, v0, o, v))
         /\ Follows(Launched(w, s, kind, src, leaf, v0, o, v),
                    EmittedLaunch(f, s, kind, src, leaf, v0, o, killed, blast, v),
                    D \union ((killed \union blast) \cap Dropper))
  <1> DEFINE E == D \union ((killed \union blast) \cap Dropper)
             t == MissileThing(s)
             tk == Rolled(<<kind, 0>>, v0)
             p == [act |-> TRUE, st |-> <<kind, 0>>, tics |-> tk, src |-> src, mom |-> TRUE, leaf |-> leaf]
             ls == Link(w.list, leaf, t)
             x == WithMissile(w, s, p, ls)
             g0 == [f EXCEPT !.win = WindowOf(t, w.proj[s])]
             y == [t |-> t, act |-> TRUE, st |-> <<kind, 0>>, tics |-> tk, src |-> src, mom |-> TRUE, leaf |-> leaf]
             g1 == [f EXCEPT !.win = y]
             g == PwLink(g1)
  <1>1. tk = (IF kind = "rocket" THEN FlightTics[kind] ELSE (FlightTics[kind] - v0) % 16)
        /\ tk \in 1 .. FlightTics[kind] /\ FlightTics[kind] \in 1 .. 15 /\ Run[kind] \in Nat
    BY RollIs, StageFacts
  <1>2. EmittedLaunch(f, s, kind, src, leaf, v0, o, killed, blast, v) =
          CopyOutMissile(EmittedTry(g, o, killed, blast, v), s)
    BY <1>1 DEF EmittedLaunch
  <1>3. Launched(w, s, kind, src, leaf, v0, o, v) = IF o.at = "clear" THEN x ELSE Exploded(x, s, v)
    <2> DEFINE flying == [w EXCEPT !.proj[s] = p, !.list = Link(@, leaf, t)]
    <2>1. Launched(w, s, kind, src, leaf, v0, o, v) = IF o.at = "clear" THEN flying ELSE Exploded(flying, s, v)
      BY DEF Launched
    <2>2. w = [mon |-> w.mon, proj |-> w.proj, fx |-> w.fx, list |-> w.list]
      BY DEF Sound
    <2>3. flying = [w EXCEPT !.proj[s] = p, !.list = Link(@, leaf, t)]
      OBVIOUS
    <2> HIDE DEF flying, p
    <2>4. flying = x
      BY <2>2, <2>3 DEF WithMissile
    <2> QED BY <2>1, <2>4
  <1>4. p \in MissileCells
    <2>1. <<kind, 0>> \in MissileKind \X Nat /\ <<kind, 0>>[1] = kind /\ <<kind, 0>>[2] = 0
          /\ Tics(<<kind, 0>>) = FlightTics[kind]
      BY DEF Tics
    <2> HIDE DEF tk
    <2>2. Flies(p)
      BY <1>1, <2>1 DEF Flies
    <2> HIDE DEF p
    <2> QED BY <2>2, MissileIs
  <1>5. p.leaf = leaf /\ p.act = TRUE /\ p.st = <<kind, 0>> /\ y = WindowOf(t, p)
    BY DEF WindowOf
  <1> HIDE DEF p, tk
  <1>6. Mid(w, g0, s, D)
    BY MidIn
  <1>7. IsEmitted(f)
    BY DEF Follows
  <1>8. /\ g0.pj = f.pj /\ g0.fx = f.fx /\ g0.row = f.row /\ g0.live = f.live /\ g0.list = f.list
        /\ IsEmitted(g1) /\ g1.pj = f.pj /\ g1.fx = f.fx /\ g1.row = f.row /\ g1.live = f.live /\ g1.list = f.list
        /\ g1.win = y
    <2> DEFINE x0 == WindowOf(t, w.proj[s])
    <2> HIDE DEF x0, y
    <2>1. g0 = [f EXCEPT !.win = x0] /\ g1 = [f EXCEPT !.win = y]
      BY DEF x0
    <2> HIDE DEF g0, g1
    <2> QED BY <1>7, <2>1 DEF IsEmitted
  <1>9. g = [g1 EXCEPT !.list = Link(g1.list, g1.win.leaf, g1.win.t)]
    BY DEF PwLink
  <1>10. y.leaf = leaf /\ y.t = t
    OBVIOUS
  <1> HIDE DEF g, g0, g1, y
  <1>11. IsEmitted(g) /\ g.pj = g0.pj /\ g.fx = g0.fx /\ g.row = g0.row /\ g.live = g0.live
         /\ g.list = Link(f.list, leaf, t) /\ g.win = WindowOf(t, p)
    BY <1>5, <1>8, <1>9, <1>10 DEF IsEmitted
  <1>12. ASSUME NEW C \in SUBSET Monster, NEW l, ListsHold(l, Things, Leaf, RowOf(w, C))
         PROVE  ListsHold(Link(l, leaf, t), Things, Leaf, [RowOf(w, C) EXCEPT ![t] = p.leaf])
    <2>1. w.proj[s].leaf = 0
      BY MissileOf DEF FreeMissile
    <2>2. /\ RowOf(w, C) \in [Thing -> Leaf \union {0}] /\ RowOf(w, C)[t] = 0 /\ t \in Thing
          /\ Things \in Nat /\ 0 \notin Leaf
      BY <2>1, RowOfIs, ThingFacts
    <2> HIDE DEF t
    <2>3. ListsHold(Link(l, leaf, t), Things, Leaf, [RowOf(w, C) EXCEPT ![t] = leaf])
      BY <1>12, <2>2, LinkHolds DEF Thing
    <2> QED BY <1>5, <2>3
  <1>13. ListsHold(ls, Things, Leaf, [RowOf(w, {}) EXCEPT ![t] = p.leaf])
    <2>1. {} \in SUBSET Monster /\ ListsHold(w.list, Things, Leaf, RowOf(w, {}))
      BY DEF Sound
    <2> QED BY <1>12, <2>1
  <1>14. ListsHold(g.list, Things, Leaf, [RowOf(w, D) EXCEPT ![t] = p.leaf])
    <2>1. ListsHold(f.list, Things, Leaf, RowOf(w, D))
      BY DEF Follows
    <2> QED BY <1>11, <1>12, <2>1
  <1>15. Sound(x)
    BY <1>4, <1>13, WithMissileSound
  <1>16. Mid(x, g, s, D)
    <2> HIDE DEF ls
    <2> QED BY <1>4, <1>6, <1>11, <1>13, <1>14, MidStep DEF ls
  <1>17. x.proj[s] = p
    <2>1. DOMAIN w.proj = Missile
      BY MissileOf
    <2> QED BY <2>1 DEF WithMissile
  <1> HIDE DEF x
  <1>18. MayKill(x, s, o, killed, blast, D) /\ x.proj[s].act
    BY <1>5, <1>17 DEF MayKill
  <1>19. /\ Sound(TryMade(x, s, o, v))
         /\ Mid(TryMade(x, s, o, v), EmittedTry(g, o, killed, blast, v), s, E)
    BY <1>15, <1>16, <1>18, MidTry
  <1>20. TryMade(x, s, o, v) = Launched(w, s, kind, src, leaf, v0, o, v)
    <2>1. x.proj[s].leaf = leaf
      BY <1>5, <1>17
    <2>2. o.at = "clear" => Moved(x, s, o.leaf) = x
      BY <2>1 DEF Moved
    <2> QED BY <1>3, <2>2 DEF TryMade
  <1>21. E \in SUBSET Monster
    BY StageFacts
  <1> HIDE DEF E
  <1>22. Follows(TryMade(x, s, o, v), CopyOutMissile(EmittedTry(g, o, killed, blast, v), s), E)
    BY <1>19, <1>21, MidOut
  <1> QED BY <1>2, <1>19, <1>20, <1>22 DEF E

(***************************************************************************)
(* Effects                                                                 *)
(***************************************************************************)

(* What a sound effect slot holds.                                         *)
LEMMA FxSlotOf ==
  ASSUME NEW w, Sound(w), NEW s \in Fx
  PROVE  /\ w.fx \in [Fx -> FxCells] /\ w.fx[s] \in FxCells
         /\ w.fx[s].act \in BOOLEAN
         /\ w.fx[s].act => Shows(w.fx[s])
         /\ ~w.fx[s].act => w.fx[s] = FreeFx
  <1>1. w.fx \in [Fx -> FxCells] /\ w.fx[s] \in FxCells
    BY DEF Sound, Pools
  <1>2. w.fx[s] = FreeFx \/ Shows(w.fx[s])
    BY <1>1, FxIs
  <1>3. Shows(w.fx[s]) => w.fx[s].act = TRUE
    BY DEF Shows
  <1>4. w.fx[s] = FreeFx => w.fx[s].act = FALSE
    BY DEF FreeFx
  <1> QED BY <1>1, <1>2, <1>3, <1>4

(* An effect's slot with new cells, and the emitted one that follows.      *)
WithSlot(w, s, p, ls) == [mon |-> w.mon, proj |-> w.proj, fx |-> [w.fx EXCEPT ![s] = p], list |-> ls]

SlotFollows(f, h, s, p) ==
  /\ IsEmitted(h) /\ IsWindow(h.win) /\ h.pj = f.pj /\ h.live = f.live
  /\ h.fx = [f.fx EXCEPT ![s] = [act |-> p.act, st |-> p.st, tics |-> p.tics]]
  /\ h.row = [f.row EXCEPT ![FxThing(s)] = p.leaf]

(* An effect's slot changes on both sides.                                 *)
LEMMA WithSlotFollows ==
  ASSUME stage \in Stages, NEW w, Sound(w), NEW s \in Fx, NEW p \in FxCells, NEW ls,
         ListsHold(ls, Things, Leaf, [RowOf(w, {}) EXCEPT ![FxThing(s)] = p.leaf]),
         NEW D \in SUBSET Monster, NEW f, Follows(w, f, D), NEW h, SlotFollows(f, h, s, p),
         ListsHold(h.list, Things, Leaf, [RowOf(w, D) EXCEPT ![FxThing(s)] = p.leaf])
  PROVE  Sound(WithSlot(w, s, p, ls)) /\ Follows(WithSlot(w, s, p, ls), h, D)
  <1> DEFINE v == WithSlot(w, s, p, ls)
  <1>1. v.mon = w.mon /\ v.fx = [w.fx EXCEPT ![s] = p] /\ v.proj = w.proj /\ v.list = ls
        /\ v = [mon |-> v.mon, proj |-> v.proj, fx |-> v.fx, list |-> v.list]
    BY DEF WithSlot
  <1>2. Pools(w.mon, w.proj, w.fx)
    BY DEF Sound
  <1> HIDE DEF v
  <1>3. Pools(v.mon, v.proj, v.fx)
    BY <1>1, <1>2 DEF Pools
  <1>4. ASSUME NEW E \in SUBSET Monster
        PROVE  RowOf(v, E) = [RowOf(w, E) EXCEPT ![FxThing(s)] = p.leaf]
    BY <1>1, <1>2, RowChanges DEF RowOf
  <1>5. Sound(v)
    <2>1. {} \in SUBSET Monster
      OBVIOUS
    <2> QED BY <1>1, <1>3, <1>4, <2>1 DEF Sound
  <1> DEFINE cell == [act |-> p.act, st |-> p.st, tics |-> p.tics]
  <1>6. FxOf(v.fx) = [FxOf(w.fx) EXCEPT ![s] = cell]
    <2>1. \A x \in Fx : v.fx[x] = IF x = s THEN p ELSE w.fx[x]
      BY <1>1, <1>2 DEF Pools
    <2>2. \A x \in Fx : FxOf(v.fx)[x] = IF x = s THEN cell ELSE FxOf(w.fx)[x]
      BY <2>1 DEF FxOf
    <2>3. FxOf(v.fx) = [x \in Fx |-> FxOf(v.fx)[x]] /\ FxOf(w.fx) = [x \in Fx |-> FxOf(w.fx)[x]]
      BY DEF FxOf
    <2> DEFINE a == FxOf(v.fx)
               b == FxOf(w.fx)
    <2> HIDE DEF a, b, cell
    <2>4. \A x \in Fx : a[x] = IF x = s THEN cell ELSE b[x]
      BY <2>2 DEF a, b
    <2>5. a = [x \in Fx |-> a[x]] /\ b = [x \in Fx |-> b[x]]
      BY <2>3 DEF a, b
    <2>6. a = [b EXCEPT ![s] = cell]
      BY <2>4, <2>5
    <2> QED BY <2>6 DEF a, b
  <1> HIDE DEF cell
  <1>7. h.fx = FxOf(v.fx) /\ h.row = RowOf(v, D) /\ h.pj = PjOf(v.proj) /\ h.live = Cardinality(D)
        /\ IsEmitted(h) /\ IsWindow(h.win)
    <2>1. h.fx = [f.fx EXCEPT ![s] = cell]
      BY DEF SlotFollows, cell
    <2>2. f.fx = FxOf(w.fx) /\ f.row = RowOf(w, D) /\ f.pj = PjOf(w.proj) /\ f.live = Cardinality(D)
      BY DEF Follows
    <2>3. h.row = [f.row EXCEPT ![FxThing(s)] = p.leaf] /\ h.pj = f.pj /\ h.live = f.live
          /\ IsEmitted(h) /\ IsWindow(h.win)
      BY DEF SlotFollows
    <2> QED BY <1>1, <1>4, <1>6, <2>1, <2>2, <2>3
  <1> QED BY <1>4, <1>5, <1>7 DEF Follows, v

(* What an effect starts with, on both sides.                              *)
FxMade(kind, again, v) ==
  /\ kind \in FxKind /\ again \in {0, 2, 3} /\ v \in 0 .. MaxRoll /\ (kind = "fog" => again = 0)

(* fx_spawn stamps what _spawn_fx does.                                    *)
LEMMA FxStarts ==
  ASSUME stage \in Stages, NEW kind, NEW again, NEW v, FxMade(kind, again, v)
  PROVE  /\ FxStart(kind, again, v) =
              [st |-> <<kind, FxFirst(kind, again, v)[1]>>, tics |-> FxFirst(kind, again, v)[2]]
         /\ FxFirst(kind, again, v)[1] \in Nat /\ FxFirst(kind, again, v)[1] \in 1 .. Run[kind]
         /\ FxFirst(kind, again, v)[2] \in Nat /\ FxFirst(kind, again, v)[2] \in 1 .. BurstTics[kind]
  <1> DEFINE a == FxFirst(kind, again, v)
             b == FxStart(kind, again, v)
  <1>1. kind \in FxKind /\ again \in {0, 2, 3} /\ v \in 0 .. MaxRoll /\ (kind = "fog" => again = 0)
    BY DEF FxMade
  <1>2. BurstTics[kind] \in 1 .. 15 /\ Run[kind] \in Nat \ {0} /\ (kind # "fog" => Run[kind] >= 3)
    BY <1>1, StageFacts DEF FxKind
  <1>3. CASE kind = "fog"
    <2>1. a = <<1, BurstTics[kind]>>
      BY <1>1, <1>3 DEF FxFirst
    <2>2. b = [st |-> <<kind, 1>>, tics |-> BurstTics[kind]]
      BY <1>1, <1>3 DEF FxStart
    <2> HIDE DEF a, b
    <2> QED BY <1>2, <2>1, <2>2 DEF a, b
  <1>4. CASE kind # "fog" /\ again > 1
    <2>1. a = <<again, BurstTics[kind]>>
      BY <1>1, <1>4 DEF FxFirst
    <2>2. b = [st |-> <<kind, again>>, tics |-> BurstTics[kind]]
      BY <1>1, <1>4 DEF FxStart
    <2> HIDE DEF a, b
    <2> QED BY <1>1, <1>2, <1>4, <2>1, <2>2 DEF a, b
  <1>5. CASE kind # "fog" /\ ~(again > 1)
    <2>1. a = <<1, (BurstTics[kind] - v) % 16>>
      BY <1>1, <1>5 DEF FxFirst
    <2>2. b = [st |-> <<kind, 1>>, tics |-> Rolled(<<kind, 1>>, v)]
      BY <1>1, <1>5 DEF FxStart
    <2>3. Rolled(<<kind, 1>>, v) = (BurstTics[kind] - v) % 16 /\ Rolled(<<kind, 1>>, v) \in 1 .. BurstTics[kind]
      <3>1. kind \in {"blood", "puff"}
        BY <1>1, <1>5 DEF FxKind
      <3> QED BY <1>1, <3>1, RollIs
    <2> HIDE DEF a, b
    <2> QED BY <1>2, <2>1, <2>2, <2>3 DEF a, b
  <1> QED BY <1>3, <1>4, <1>5

(* Both look for a slot in the same pool.                                  *)
LEMMA SameSlots ==
  ASSUME stage \in Stages, NEW w, Sound(w), NEW kind
  PROVE  /\ FxSlots(FxOf(w.fx), kind) = FxSlots(w.fx, kind)
         /\ FxSlots(w.fx, kind) \in SUBSET (1 .. FxPool)
         /\ FxSlots(w.fx, kind) # {} => FirstOf(FxSlots(w.fx, kind)) \in FxSlots(w.fx, kind)
  <1>1. DOMAIN w.fx = Fx /\ DOMAIN FxOf(w.fx) = Fx
    BY DEF Sound, Pools, FxOf
  <1>2. \A s \in Fx : FxOf(w.fx)[s].act = w.fx[s].act /\ FxOf(w.fx)[s].st = w.fx[s].st
    BY DEF FxOf
  <1>3. \A s \in Fx : IsFog(FxOf(w.fx)[s]) <=> IsFog(w.fx[s])
    BY <1>2 DEF IsFog
  <1>4. FreeSlots(FxOf(w.fx)) = FreeSlots(w.fx)
    BY <1>1, <1>2 DEF FreeSlots
  <1>5. FxSlots(FxOf(w.fx), kind) = FxSlots(w.fx, kind)
    BY <1>1, <1>3, <1>4 DEF FxSlots
  <1>6. FxSlots(w.fx, kind) \in SUBSET (1 .. FxPool)
    BY <1>1 DEF FxSlots, FreeSlots, Fx
  <1> DEFINE S == FxSlots(w.fx, kind)
  <1> HIDE DEF S
  <1>7. S # {} => FirstOf(S) \in S
    <2>1. FxPool \in Nat
      BY StageFacts
    <2> QED BY <1>6, <2>1, FirstIs DEF S
  <1> QED BY <1>5, <1>6, <1>7 DEF S

(* The window of an effect that starts.                                    *)
FxInIs(f, h, s, st, tics, leaf) ==
  /\ IsEmitted(h) /\ IsWindow(h.win) /\ h.pj = f.pj /\ h.live = f.live
  /\ h.fx = [f.fx EXCEPT ![s] = [act |-> TRUE, st |-> st, tics |-> tics]]
  /\ h.row = [f.row EXCEPT ![FxThing(s)] = leaf]
  /\ h.list = Link(IF f.fx[s].act THEN Unlink(f.list, f.row[FxThing(s)], FxThing(s)) ELSE f.list, leaf, FxThing(s))

(* fx_spawn_leaf, cell by cell.                                            *)
LEMMA FxInTold ==
  ASSUME NEW f, IsEmitted(f), IsWindow(f.win), NEW s, NEW st, NEW tics, NEW leaf
  PROVE  FxInIs(f, FxIn(f, s, st, tics, leaf), s, st, tics, leaf)
  <1> DEFINE t == FxThing(s)
             a == [f EXCEPT !.win.t = t, !.win.leaf = f.row[t]]
             u == PwUnlink(a)
             g == IF f.fx[s].act THEN u ELSE f
             b == [g EXCEPT !.win.t = t, !.win.leaf = leaf, !.win.act = TRUE,
                            !.win.st = st, !.win.tics = tics]
             h == PwLink(b)
             cell == [act |-> h.win.act, st |-> h.win.st, tics |-> h.win.tics]
             x == [h EXCEPT !.fx[s] = cell, !.row[t] = h.win.leaf, !.ptss = leaf]
             made == [act |-> TRUE, st |-> st, tics |-> tics]
  <1>1. FxIn(f, s, st, tics, leaf) = x
    BY DEF FxIn
  <1>2. a = [f EXCEPT !.win.t = t, !.win.leaf = f.row[t]]
    OBVIOUS
  <1>3. u = [a EXCEPT !.list = Unlink(a.list, a.win.leaf, a.win.t)]
    BY DEF PwUnlink
  <1>4. g = IF f.fx[s].act THEN u ELSE f
    OBVIOUS
  <1>5. b = [g EXCEPT !.win.t = t, !.win.leaf = leaf, !.win.act = TRUE,
                      !.win.st = st, !.win.tics = tics]
    OBVIOUS
  <1>6. h = [b EXCEPT !.list = Link(b.list, b.win.leaf, b.win.t)]
    BY DEF PwLink
  <1>7. x = [h EXCEPT !.fx[s] = cell, !.row[t] = h.win.leaf, !.ptss = leaf]
    OBVIOUS
  <1>c. cell.act = h.win.act /\ cell.st = h.win.st /\ cell.tics = h.win.tics
        /\ cell = [act |-> cell.act, st |-> cell.st, tics |-> cell.tics]
    OBVIOUS
  <1>m. made.act = TRUE /\ made.st = st /\ made.tics = tics
        /\ made = [act |-> made.act, st |-> made.st, tics |-> made.tics]
    OBVIOUS
  <1> HIDE DEF a, u, g, b, h, x, t, cell, made
  <1>8. /\ IsEmitted(a) /\ a.pj = f.pj /\ a.fx = f.fx /\ a.row = f.row /\ a.live = f.live /\ a.list = f.list
        /\ a.win = [f.win EXCEPT !.t = t, !.leaf = f.row[t]]
    BY <1>2 DEF IsEmitted
  <1>9. IsWindow(a.win) /\ a.win.t = t /\ a.win.leaf = f.row[t]
    BY <1>8 DEF IsWindow
  <1>10. IsEmitted(u) /\ u.pj = f.pj /\ u.fx = f.fx /\ u.row = f.row /\ u.live = f.live /\ u.win = a.win
         /\ u.list = Unlink(f.list, f.row[t], t)
    BY <1>3, <1>8, <1>9 DEF IsEmitted
  <1>11. /\ IsEmitted(g) /\ g.pj = f.pj /\ g.fx = f.fx
         /\ g.row = f.row /\ g.live = f.live /\ IsWindow(g.win)
         /\ g.list = IF f.fx[s].act THEN Unlink(f.list, f.row[t], t) ELSE f.list
    BY <1>4, <1>9, <1>10
  <1>12. /\ IsEmitted(b) /\ b.pj = g.pj /\ b.fx = g.fx
         /\ b.row = g.row /\ b.live = g.live /\ b.list = g.list
         /\ b.win = [g.win EXCEPT !.t = t, !.leaf = leaf, !.act = TRUE, !.st = st, !.tics = tics]
    BY <1>5, <1>11 DEF IsEmitted
  <1>13. IsWindow(b.win) /\ b.win.t = t /\ b.win.leaf = leaf /\ b.win.act = TRUE /\ b.win.st = st
         /\ b.win.tics = tics
    BY <1>11, <1>12 DEF IsWindow
  <1>14. IsEmitted(h) /\ h.pj = b.pj /\ h.fx = b.fx /\ h.row = b.row /\ h.live = b.live
         /\ h.list = Link(b.list, leaf, t) /\ h.win = b.win
    BY <1>6, <1>12, <1>13 DEF IsEmitted
  <1>15. IsEmitted(x) /\ x.pj = h.pj /\ x.live = h.live /\ x.list = h.list /\ x.win = h.win
         /\ x.fx = [h.fx EXCEPT ![s] = cell] /\ x.row = [h.row EXCEPT ![t] = h.win.leaf]
    BY <1>7, <1>14 DEF IsEmitted
  <1>16. cell = made
    BY <1>c, <1>m, <1>13, <1>14
  <1>17. /\ x.fx = [f.fx EXCEPT ![s] = made] /\ x.row = [f.row EXCEPT ![t] = leaf]
         /\ x.pj = f.pj /\ x.live = f.live
         /\ IsWindow(x.win)
    BY <1>11, <1>12, <1>13, <1>14, <1>15, <1>16
  <1>18. x.list = Link(IF f.fx[s].act THEN Unlink(f.list, f.row[t], t) ELSE f.list, leaf, t)
    BY <1>11, <1>12, <1>14, <1>15
  <1> QED BY <1>1, <1>15, <1>17, <1>18 DEF t, made, FxInIs

(* An effect starts, a fog yielding to it.                                 *)
LEMMA FxFollows ==
  ASSUME stage \in Stages, NEW w, Sound(w), NEW D \in SUBSET Monster, NEW f, Follows(w, f, D),
         NEW kind, NEW again, NEW v, FxMade(kind, again, v), NEW leaf \in Leaf
  PROVE  /\ Sound(WithFx(w, kind, again, v, leaf))
         /\ Follows(WithFx(w, kind, again, v, leaf), EmittedFx(f, kind, again, v, leaf), D)
  <1> DEFINE S == FxSlots(w.fx, kind)
  <1>1. IsEmitted(f) /\ IsWindow(f.win) /\ f.fx = FxOf(w.fx) /\ f.row = RowOf(w, D)
        /\ ListsHold(f.list, Things, Leaf, RowOf(w, D))
    BY DEF Follows
  <1>2. FxSlots(f.fx, kind) = S
    BY <1>1, SameSlots
  <1>3. CASE S = {}
    <2>1. WithFx(w, kind, again, v, leaf) = w /\ EmittedFx(f, kind, again, v, leaf) = f
      <3>1. WithFx(w, kind, again, v, leaf) = w
        BY <1>3 DEF WithFx
      <3>2. EmittedFx(f, kind, again, v, leaf) = f
        BY <1>2, <1>3 DEF EmittedFx
      <3> QED BY <3>1, <3>2
    <2> QED BY <2>1
  <1>4. CASE S # {}
    <2> DEFINE s == FirstOf(S)
               t == FxThing(s)
               n == FxFirst(kind, again, v)
               first == FxStart(kind, again, v)
               p == [act |-> TRUE, st |-> <<kind, n[1]>>, tics |-> n[2], leaf |-> leaf]
               Out(l) == IF w.fx[s].act THEN Unlink(l, w.fx[s].leaf, t) ELSE l
               ls == Link(Out(w.list), leaf, t)
               h == EmittedFx(f, kind, again, v, leaf)
               e == [w EXCEPT !.fx[s] = [act |-> TRUE, st |-> first.st, tics |-> first.tics, leaf |-> leaf], !.list = ls]
    <2>1. s \in Fx
      BY <1>4, SameSlots DEF Fx
    <2>2. first.st = <<kind, n[1]>> /\ first.tics = n[2]
          /\ n[1] \in Nat /\ n[1] \in 1 .. Run[kind] /\ n[2] \in Nat /\ n[2] \in 1 .. BurstTics[kind]
      BY FxStarts
    <2>3. WithFx(w, kind, again, v, leaf) = e
      BY <1>4 DEF WithFx
    <2>4. e = WithSlot(w, s, p, ls)
      <3>1. w = [mon |-> w.mon, proj |-> w.proj, fx |-> w.fx, list |-> w.list]
        BY DEF Sound
      <3>2. [act |-> TRUE, st |-> first.st, tics |-> first.tics, leaf |-> leaf] = p
        BY <2>2
      <3>3. e = [w EXCEPT !.fx[s] = p, !.list = ls]
        BY <3>2
      <3> HIDE DEF p, ls, s, e
      <3> QED BY <3>1, <3>3 DEF WithSlot
    <2>5. p \in FxCells
      <3>1. <<kind, n[1]>> \in FxKind \X Nat /\ <<kind, n[1]>>[1] = kind /\ <<kind, n[1]>>[2] = n[1]
        BY <2>2 DEF FxMade
      <3> HIDE DEF n
      <3>2. Shows(p)
        BY <2>2, <3>1 DEF Shows
      <3> HIDE DEF p
      <3> QED BY <3>2, FxIs
    <2>6. p.leaf = leaf /\ p.act = TRUE /\ p.st = <<kind, n[1]>> /\ p.tics = n[2]
      OBVIOUS
    <2>7. f.fx[s].act = w.fx[s].act /\ f.row[t] = w.fx[s].leaf
      BY <1>1, <2>1, RowOfIs DEF FxOf
    <2>8. /\ IsEmitted(h) /\ IsWindow(h.win) /\ h.pj = f.pj /\ h.live = f.live
          /\ h.fx = [f.fx EXCEPT ![s] = [act |-> TRUE, st |-> <<kind, n[1]>>, tics |-> n[2]]]
          /\ h.row = [f.row EXCEPT ![t] = leaf]
          /\ h.list = Link(IF f.fx[s].act THEN Unlink(f.list, f.row[t], t) ELSE f.list, leaf, t)
      <3>1. FxSlots(f.fx, kind) # {} /\ s = FirstOf(FxSlots(f.fx, kind))
        BY <1>2, <1>4
      <3> HIDE DEF S
      <3>2. h = FxIn(f, s, <<kind, n[1]>>, n[2], leaf)
        BY <3>1 DEF EmittedFx
      <3> HIDE DEF s, n, h
      <3>3. FxInIs(f, h, s, <<kind, n[1]>>, n[2], leaf)
        BY <1>1, <3>2, FxInTold
      <3> QED BY <3>3 DEF FxInIs
    <2> HIDE DEF h, n, p
    <2>9. h.list = Link(Out(f.list), leaf, t)
      BY <2>7, <2>8
    <2>10. SlotFollows(f, h, s, p)
      BY <2>6, <2>8 DEF SlotFollows
    <2>11. ASSUME NEW C \in SUBSET Monster, NEW l, ListsHold(l, Things, Leaf, RowOf(w, C))
           PROVE  ListsHold(Link(Out(l), leaf, t), Things, Leaf, [RowOf(w, C) EXCEPT ![t] = p.leaf])
      <3> DEFINE r == RowOf(w, C)
      <3>1. /\ r \in [Thing -> Leaf \union {0}] /\ r[t] = w.fx[s].leaf /\ t \in Thing
            /\ Things \in Nat /\ 0 \notin Leaf
        BY <2>1, RowOfIs, ThingFacts
      <3>2. w.fx[s].act => r[t] \in Leaf
        BY <2>1, <3>1, FxSlotOf DEF Shows
      <3>3. ~w.fx[s].act => r[t] = 0
        BY <2>1, <3>1, FxSlotOf DEF FreeFx
      <3>4. Out(l) = IF w.fx[s].act THEN Unlink(l, r[t], t) ELSE l
        BY <3>1
      <3> HIDE DEF r, t, s
      <3>5. CASE w.fx[s].act
        <4>1. ListsHold(Link(Unlink(l, r[t], t), leaf, t), Things, Leaf, [r EXCEPT ![t] = leaf])
          BY <2>11, <3>1, <3>2, <3>5, RelinkHolds DEF Thing, r
        <4> QED BY <2>6, <3>4, <3>5, <4>1 DEF r
      <3>6. CASE ~w.fx[s].act
        <4>1. ListsHold(Link(l, leaf, t), Things, Leaf, [r EXCEPT ![t] = leaf])
          BY <2>11, <3>1, <3>3, <3>6, LinkHolds DEF Thing, r
        <4> QED BY <2>6, <3>4, <3>6, <4>1 DEF r
      <3> QED BY <3>5, <3>6
    <2>12. ListsHold(ls, Things, Leaf, [RowOf(w, {}) EXCEPT ![t] = p.leaf])
      <3>1. {} \in SUBSET Monster /\ ListsHold(w.list, Things, Leaf, RowOf(w, {}))
        BY DEF Sound
      <3> QED BY <2>11, <3>1
    <2>13. ListsHold(h.list, Things, Leaf, [RowOf(w, D) EXCEPT ![t] = p.leaf])
      BY <1>1, <2>9, <2>11
    <2> HIDE DEF ls, s, e
    <2>14. Sound(WithSlot(w, s, p, ls)) /\ Follows(WithSlot(w, s, p, ls), h, D)
      BY <2>1, <2>5, <2>10, <2>12, <2>13, WithSlotFollows
    <2> QED BY <2>3, <2>4, <2>14 DEF h
  <1> QED BY <1>3, <1>4

(* The model's tic of an effect.                                           *)
TickedFx(p) ==
  IF p.tics # 1 THEN [act |-> TRUE, st |-> p.st, tics |-> p.tics - 1, leaf |-> p.leaf]
  ELSE IF NextOf(p.st) # Null
       THEN [act |-> TRUE, st |-> NextOf(p.st), tics |-> Tics(NextOf(p.st)), leaf |-> p.leaf]
       ELSE FreeFx

FxOver(p) == p.tics = 1 /\ NextOf(p.st) = Null

(* Its cells, one by one.                                                  *)
TicsOn(p, q) ==
  /\ p.tics # 1 => q.act = TRUE /\ q.st = p.st /\ q.tics = p.tics - 1 /\ q.leaf = p.leaf
  /\ p.tics = 1 /\ NextOf(p.st) # Null =>
       q.act = TRUE /\ q.st = NextOf(p.st) /\ q.tics = Tics(NextOf(p.st)) /\ q.leaf = p.leaf
  /\ FxOver(p) => q.act = FALSE /\ q.st = Null /\ q.tics = 0 /\ q.leaf = 0

(* An effect's tic.                                                        *)
LEMMA TickedFxIs ==
  ASSUME stage \in Stages, NEW p, Shows(p)
  PROVE  p.tics \in 1 .. 15 /\ TickedFx(p) \in FxCells /\ TicsOn(p, TickedFx(p))
  <1>1. /\ p.st \in FxKind \X Nat /\ p.st[2] \in 1 .. Run[p.st[1]]
        /\ p.tics \in Nat /\ p.tics \in 1 .. BurstTics[p.st[1]] /\ p.leaf \in Leaf
    BY DEF Shows
  <1>2. BurstTics[p.st[1]] \in 1 .. 15
    BY <1>1, FxNext
  <1>3. p.tics \in 1 .. 15
    BY <1>1, <1>2
  <1> DEFINE q == TickedFx(p)
             n == NextOf(p.st)
  <1>4. CASE p.tics # 1
    <2>1. q = [act |-> TRUE, st |-> p.st, tics |-> p.tics - 1, leaf |-> p.leaf]
      BY <1>4 DEF TickedFx
    <2>2. p.tics - 1 \in Nat /\ p.tics - 1 \in 1 .. BurstTics[p.st[1]]
      BY <1>1, <1>3, <1>2, <1>4
    <2> HIDE DEF q
    <2>3. Shows(q)
      BY <1>1, <2>1, <2>2 DEF Shows
    <2>4. TicsOn(p, q)
      BY <1>4, <2>1 DEF TicsOn, FxOver
    <2> QED BY <1>3, <2>3, <2>4, FxIs DEF q
  <1>5. CASE p.tics = 1 /\ n # Null
    <2>1. q = [act |-> TRUE, st |-> n, tics |-> Tics(n), leaf |-> p.leaf]
      BY <1>5 DEF TickedFx
    <2>2. /\ n \in FxKind \X Nat /\ n[1] = p.st[1]
          /\ n[2] \in 1 .. Run[p.st[1]] /\ Tics(n) = BurstTics[p.st[1]]
      BY <1>1, <1>5, FxNext
    <2>3. Tics(n) \in Nat /\ Tics(n) \in 1 .. BurstTics[p.st[1]]
      BY <1>2, <2>2
    <2> HIDE DEF q
    <2>4. TicsOn(p, q)
      BY <1>5, <2>1 DEF TicsOn, FxOver
    <2> HIDE DEF n
    <2>5. Shows(q)
      BY <1>1, <2>1, <2>2, <2>3 DEF Shows
    <2> QED BY <1>3, <2>4, <2>5, FxIs DEF q
  <1>6. CASE p.tics = 1 /\ n = Null
    <2>1. q = FreeFx
      BY <1>6 DEF TickedFx
    <2>2. FreeFx.act = FALSE /\ FreeFx.st = Null /\ FreeFx.tics = 0 /\ FreeFx.leaf = 0
      BY DEF FreeFx
    <2> HIDE DEF q
    <2>3. TicsOn(p, q)
      BY <1>6, <2>1, <2>2 DEF TicsOn, FxOver
    <2> QED BY <1>3, <2>1, <2>3, FxIs DEF q
  <1> QED BY <1>4, <1>5, <1>6

(* An effect's tic changes one slot.                                       *)
LEMMA FxTicTold ==
  ASSUME stage \in Stages, NEW w, Sound(w), NEW s \in Fx, w.fx[s].act
  PROVE  FxTic(w, s) =
           WithSlot(w, s, TickedFx(w.fx[s]),
                    IF FxOver(w.fx[s]) THEN Unlink(w.list, w.fx[s].leaf, FxThing(s)) ELSE w.list)
  <1> DEFINE p == w.fx[s]
             q == [p EXCEPT !.tics = @ - 1]
             n == NextOf(q.st)
             r == [q EXCEPT !.st = n, !.tics = Tics(n)]
             h == FxTic(w, s)
             gone == [w EXCEPT !.fx[s] = FreeFx, !.list = Unlink(@, q.leaf, FxThing(s))]
  <1>1. Shows(p)
    BY FxSlotOf
  <1>2. w = [mon |-> w.mon, proj |-> w.proj, fx |-> w.fx, list |-> w.list]
    BY DEF Sound
  <1>3. h = IF q.tics > 0 THEN [w EXCEPT !.fx[s] = q]
            ELSE IF n # Null THEN [w EXCEPT !.fx[s] = r] ELSE gone
    BY DEF FxTic
  <1>4. q = [p EXCEPT !.tics = p.tics - 1]
    OBVIOUS
  <1>5. r = [q EXCEPT !.st = n, !.tics = Tics(n)]
    OBVIOUS
  <1>6. gone = [w EXCEPT !.fx[s] = FreeFx, !.list = Unlink(@, q.leaf, FxThing(s))]
    OBVIOUS
  <1>7. /\ p = [act |-> p.act, st |-> p.st, tics |-> p.tics, leaf |-> p.leaf] /\ p.act = TRUE
        /\ p.tics \in 1 .. 15
    <2>1. p = [act |-> TRUE, st |-> p.st, tics |-> p.tics, leaf |-> p.leaf]
      BY <1>1 DEF Shows
    <2>2. p.act = TRUE
      BY <1>1 DEF Shows
    <2>3. p.tics \in 1 .. 15
      BY <1>1, TickedFxIs
    <2> HIDE DEF p
    <2> QED BY <2>1, <2>2, <2>3
  <1> HIDE DEF q, n, r, h, gone, p
  <1>8. q = [act |-> q.act, st |-> q.st, tics |-> q.tics, leaf |-> q.leaf]
        /\ q.act = TRUE /\ q.st = p.st /\ q.tics = p.tics - 1 /\ q.leaf = p.leaf
    BY <1>4, <1>7
  <1>9. r = [act |-> r.act, st |-> r.st, tics |-> r.tics, leaf |-> r.leaf]
        /\ r.act = TRUE /\ r.st = n /\ r.tics = Tics(n) /\ r.leaf = p.leaf
    BY <1>5, <1>8
  <1>10. n = NextOf(p.st)
    BY <1>8 DEF n
  <1>11. CASE p.tics # 1
    <2>1. TickedFx(p) = [act |-> TRUE, st |-> p.st, tics |-> p.tics - 1, leaf |-> p.leaf]
      BY <1>11 DEF TickedFx
    <2>2. q = TickedFx(p)
      BY <1>8, <2>1
    <2>3. h = [w EXCEPT !.fx[s] = q]
      BY <1>3, <1>7, <1>8, <1>11
    <2>4. h = [mon |-> w.mon, proj |-> w.proj, fx |-> [w.fx EXCEPT ![s] = q], list |-> w.list]
      BY <1>2, <2>3
    <2> QED BY <1>11, <2>2, <2>4 DEF WithSlot, FxOver, p, h
  <1>12. CASE p.tics = 1 /\ n # Null
    <2>1. TickedFx(p) = [act |-> TRUE, st |-> n, tics |-> Tics(n), leaf |-> p.leaf]
      BY <1>10, <1>12 DEF TickedFx
    <2>2. r = TickedFx(p)
      BY <1>9, <2>1
    <2>3. h = [w EXCEPT !.fx[s] = r]
      BY <1>3, <1>7, <1>8, <1>12
    <2>4. h = [mon |-> w.mon, proj |-> w.proj, fx |-> [w.fx EXCEPT ![s] = r], list |-> w.list]
      BY <1>2, <2>3
    <2> QED BY <1>10, <1>12, <2>2, <2>4 DEF WithSlot, FxOver, p, h
  <1>13. CASE p.tics = 1 /\ n = Null
    <2>1. TickedFx(p) = FreeFx
      BY <1>10, <1>13 DEF TickedFx
    <2>2. h = gone
      BY <1>3, <1>7, <1>8, <1>13
    <2>3. h = [mon |-> w.mon, proj |-> w.proj, fx |-> [w.fx EXCEPT ![s] = FreeFx],
               list |-> Unlink(w.list, p.leaf, FxThing(s))]
      BY <1>2, <1>6, <1>8, <2>2
    <2> QED BY <1>10, <1>13, <2>1, <2>3 DEF WithSlot, FxOver, p, h
  <1> QED BY <1>11, <1>12, <1>13

(* The emitted tic of an effect's slot, through the window.                *)
FxTickedIs(f, h, s, p) ==
  /\ SlotFollows(f, h, s, TickedFx(p))
  /\ h.list = IF FxOver(p) THEN Unlink(f.list, p.leaf, FxThing(s)) ELSE f.list

(* The emitted effect's tic, cell by cell.                                 *)
LEMMA EmittedFxTicTold ==
  ASSUME stage \in Stages, NEW f, IsEmitted(f), IsWindow(f.win), NEW s, NEW p, Shows(p),
         f.fx[s].st = p.st, f.fx[s].tics = p.tics, f.row[FxThing(s)] = p.leaf
  PROVE  FxTickedIs(f, EmittedFxTic(f, s), s, p)
  <1> DEFINE t == FxThing(s)
             a == [f EXCEPT !.win.t = t, !.win.act = TRUE, !.win.st = f.fx[s].st,
                            !.win.tics = f.fx[s].tics, !.win.leaf = f.row[t]]
             g == PoolTic(a)
             cell == [act |-> g.win.act, st |-> g.win.st, tics |-> g.win.tics]
             x == [g EXCEPT !.fx[s] = cell, !.row[t] = IF g.win.act THEN @ ELSE 0]
             q == TickedFx(p)
             made == [act |-> q.act, st |-> q.st, tics |-> q.tics]
  <1>1. EmittedFxTic(f, s) = x
    BY DEF EmittedFxTic
  <1>2. a = [f EXCEPT !.win.t = t, !.win.act = TRUE, !.win.st = f.fx[s].st,
                      !.win.tics = f.fx[s].tics, !.win.leaf = f.row[t]]
    OBVIOUS
  <1>3. x = [g EXCEPT !.fx[s] = cell, !.row[t] = IF g.win.act THEN g.row[t] ELSE 0]
    OBVIOUS
  <1>c. cell.act = g.win.act /\ cell.st = g.win.st /\ cell.tics = g.win.tics
        /\ cell = [act |-> cell.act, st |-> cell.st, tics |-> cell.tics]
    OBVIOUS
  <1>m. made.act = q.act /\ made.st = q.st /\ made.tics = q.tics
        /\ made = [act |-> made.act, st |-> made.st, tics |-> made.tics]
    OBVIOUS
  <1> HIDE DEF a, x, t, cell, made, q
  <1>4. /\ IsEmitted(a) /\ a.pj = f.pj /\ a.fx = f.fx /\ a.row = f.row /\ a.live = f.live /\ a.list = f.list
        /\ a.win = [f.win EXCEPT !.t = t, !.act = TRUE, !.st = p.st, !.tics = p.tics, !.leaf = p.leaf]
    <2>1. f.fx[s].st = p.st /\ f.fx[s].tics = p.tics /\ f.row[t] = p.leaf
      BY DEF t
    <2>2. a = [f EXCEPT !.win.t = t, !.win.act = TRUE, !.win.st = p.st, !.win.tics = p.tics, !.win.leaf = p.leaf]
      BY <1>2, <2>1
    <2> QED BY <2>2 DEF IsEmitted
  <1>5. /\ IsWindow(a.win) /\ a.win.t = t /\ a.win.act = TRUE
        /\ a.win.st = p.st /\ a.win.tics = p.tics /\ a.win.leaf = p.leaf
    BY <1>4 DEF IsWindow
  <1>6. p.tics \in 1 .. 15 /\ TicsOn(p, q)
    BY TickedFxIs DEF q
  <1>7. a.win.tics \in 1 .. 15
    BY <1>5, <1>6
  <1>8. Pooled(a, g)
    BY <1>4, <1>5, <1>7, PoolTicTold
  <1> HIDE DEF g
  <1>9. /\ IsEmitted(g) /\ g.pj = f.pj /\ g.fx = f.fx
        /\ g.row = f.row /\ g.live = f.live /\ IsWindow(g.win)
    BY <1>4, <1>8 DEF Pooled
  <1>10. g.win.act = q.act /\ g.win.st = q.st /\ g.win.tics = q.tics
         /\ (q.act = TRUE => q.leaf = p.leaf) /\ (q.act # TRUE => q.leaf = 0) /\ q.act \in BOOLEAN
         /\ g.list = IF FxOver(p) THEN Unlink(f.list, p.leaf, t) ELSE f.list
    <2>1. CASE p.tics # 1
      <3>1. q.act = TRUE /\ q.st = p.st /\ q.tics = p.tics - 1 /\ q.leaf = p.leaf
        BY <1>6, <2>1 DEF TicsOn
      <3>2. g.win.act = TRUE /\ g.win.st = p.st /\ g.win.tics = p.tics - 1 /\ g.list = f.list
        BY <1>4, <1>5, <1>8, <2>1 DEF Pooled
      <3> QED BY <2>1, <3>1, <3>2 DEF FxOver
    <2>2. CASE p.tics = 1 /\ NextOf(p.st) # Null
      <3>1. q.act = TRUE /\ q.st = NextOf(p.st) /\ q.tics = Tics(NextOf(p.st)) /\ q.leaf = p.leaf
        BY <1>6, <2>2 DEF TicsOn
      <3>2. /\ g.win.act = TRUE /\ g.win.st = NextOf(p.st)
            /\ g.win.tics = Tics(NextOf(p.st)) /\ g.list = f.list
        BY <1>4, <1>5, <1>8, <2>2 DEF Pooled
      <3> QED BY <2>2, <3>1, <3>2 DEF FxOver
    <2>3. CASE FxOver(p)
      <3>1. q.act = FALSE /\ q.st = Null /\ q.tics = 0 /\ q.leaf = 0
        BY <1>6, <2>3 DEF TicsOn
      <3>2. g.win.act = FALSE /\ g.win.st = Null /\ g.win.tics = 0 /\ g.list = Unlink(f.list, p.leaf, t)
        BY <1>4, <1>5, <1>8, <2>3 DEF Pooled, FxOver
      <3> QED BY <2>3, <3>1, <3>2
    <2> QED BY <2>1, <2>2, <2>3 DEF FxOver
  <1>11. IsEmitted(x) /\ x.pj = g.pj /\ x.live = g.live /\ x.list = g.list /\ x.win = g.win
         /\ x.fx = [g.fx EXCEPT ![s] = cell]
         /\ x.row = [g.row EXCEPT ![t] = IF g.win.act THEN g.row[t] ELSE 0]
    BY <1>3, <1>9 DEF IsEmitted
  <1>12. cell = made
    BY <1>c, <1>m, <1>10
  <1>13. (IF g.win.act THEN g.row[t] ELSE 0) = q.leaf
    <2>1. g.row[t] = p.leaf
      BY <1>9 DEF t
    <2>2. CASE q.act = TRUE
      BY <1>10, <2>1, <2>2
    <2>3. CASE q.act = FALSE
      BY <1>10, <2>1, <2>3
    <2> QED BY <1>10, <2>2, <2>3
  <1>14. SlotFollows(f, x, s, q)
    <2>1. x.fx = [f.fx EXCEPT ![s] = made] /\ x.row = [f.row EXCEPT ![t] = q.leaf]
      BY <1>9, <1>11, <1>12, <1>13
    <2> QED BY <1>9, <1>11, <2>1 DEF SlotFollows, made, t
  <1>15. x.list = IF FxOver(p) THEN Unlink(f.list, p.leaf, t) ELSE f.list
    BY <1>10, <1>11
  <1> QED BY <1>1, <1>14, <1>15 DEF FxTickedIs, q, t

(* An effect's slot of the effects' phase.                                 *)
LEMMA FxTicFollows ==
  ASSUME stage \in Stages, NEW w, Sound(w), NEW D \in SUBSET Monster, NEW f, Follows(w, f, D),
         NEW s \in Fx, w.fx[s].act
  PROVE  Sound(FxTic(w, s)) /\ Follows(FxTic(w, s), EmittedFxTic(f, s), D)
  <1> DEFINE t == FxThing(s)
             p == w.fx[s]
             q == TickedFx(p)
             Out(l) == IF FxOver(p) THEN Unlink(l, p.leaf, t) ELSE l
             ls == Out(w.list)
             h == EmittedFxTic(f, s)
  <1>1. FxTic(w, s) = WithSlot(w, s, q, ls)
    BY FxTicTold
  <1>2. Shows(p)
    BY FxSlotOf
  <1>3. q \in FxCells /\ TicsOn(p, q) /\ p.leaf \in Leaf
    BY <1>2, TickedFxIs DEF Shows
  <1>4. IsEmitted(f) /\ IsWindow(f.win) /\ f.fx = FxOf(w.fx) /\ f.row = RowOf(w, D)
        /\ ListsHold(f.list, Things, Leaf, RowOf(w, D))
    BY DEF Follows
  <1>5. f.fx[s].st = p.st /\ f.fx[s].tics = p.tics /\ f.row[t] = p.leaf
    BY <1>4, RowOfIs DEF FxOf
  <1>6. FxTickedIs(f, h, s, p)
    <2> HIDE DEF p
    <2> QED BY <1>2, <1>4, <1>5, EmittedFxTicTold
  <1>7. ASSUME NEW C \in SUBSET Monster, NEW l, ListsHold(l, Things, Leaf, RowOf(w, C))
        PROVE  ListsHold(Out(l), Things, Leaf, [RowOf(w, C) EXCEPT ![t] = q.leaf])
    <2> DEFINE r == RowOf(w, C)
    <2>1. /\ r \in [Thing -> Leaf \union {0}] /\ r[t] = p.leaf /\ t \in Thing
          /\ Things \in Nat /\ 0 \notin Leaf
      BY RowOfIs, ThingFacts
    <2> HIDE DEF p, q, t
    <2>2. CASE FxOver(p)
      <3>1. q.leaf = 0
        BY <1>3, <2>2 DEF TicsOn
      <3> HIDE DEF r
      <3>2. ListsHold(Unlink(l, p.leaf, t), Things, Leaf, [r EXCEPT ![t] = 0])
        BY <1>3, <1>7, <2>1, UnlinkHolds DEF Thing, r
      <3> QED BY <2>2, <3>1, <3>2 DEF r
    <2>3. CASE ~FxOver(p)
      <3>1. q.leaf = p.leaf
        BY <1>3, <2>3 DEF TicsOn, FxOver
      <3>2. r = [r EXCEPT ![t] = q.leaf]
        <4> HIDE DEF r
        <4> QED BY <2>1, <3>1
      <3> QED BY <1>7, <2>3, <3>2
    <2> QED BY <2>2, <2>3
  <1>8. ListsHold(ls, Things, Leaf, [RowOf(w, {}) EXCEPT ![t] = q.leaf])
    <2>1. {} \in SUBSET Monster /\ ListsHold(w.list, Things, Leaf, RowOf(w, {}))
      BY DEF Sound
    <2> QED BY <1>7, <2>1
  <1>9. SlotFollows(f, h, s, q) /\ h.list = Out(f.list)
    BY <1>6 DEF FxTickedIs
  <1>10. ListsHold(h.list, Things, Leaf, [RowOf(w, D) EXCEPT ![t] = q.leaf])
    BY <1>4, <1>7, <1>9
  <1> HIDE DEF ls, h, q
  <1>11. Sound(WithSlot(w, s, q, ls)) /\ Follows(WithSlot(w, s, q, ls), h, D)
    BY <1>3, <1>8, <1>9, <1>10, WithSlotFollows
  <1> QED BY <1>1, <1>11 DEF h

(* A monster walks: its row and the lists of two leaves.                   *)
LEMMA MoveFollows ==
  ASSUME stage \in Stages, NEW w, Sound(w), NEW D \in SUBSET Monster, NEW f, Follows(w, f, D),
         NEW m \in Monster, m \notin D, NEW leaf \in Leaf
  PROVE  Sound(Walked(w, m, leaf)) /\ Follows(Walked(w, m, leaf), EmittedMove(f, m, leaf), D)
  <1> DEFINE v == Walked(w, m, leaf)
             e == [f EXCEPT !.ptss = leaf]
             h == EmittedMove(f, m, leaf)
             old == w.mon[m]
  <1>1. /\ IsEmitted(f) /\ IsWindow(f.win) /\ f.pj = PjOf(w.proj)
        /\ f.fx = FxOf(w.fx) /\ f.row = RowOf(w, D)
        /\ ListsHold(f.list, Things, Leaf, RowOf(w, D)) /\ f.live = Cardinality(D)
    BY DEF Follows
  <1>2. e = [f EXCEPT !.ptss = leaf]
    OBVIOUS
  <1>3. h = IF e.ptss = e.row[m] THEN e
            ELSE [e EXCEPT !.row[m] = e.ptss, !.list = Link(Unlink(@, e.row[m], m), e.ptss, m)]
    BY DEF EmittedMove, EmittedRelink
  <1>4. \A C \in SUBSET Monster : RowOf(w, C) \in [Thing -> Leaf \union {0}] /\ RowOf(w, C)[m] = old
    BY RowOfIs
  <1>5. old \in Leaf /\ m \in Thing /\ Things \in Nat /\ 0 \notin Leaf
    <2>1. {} \in SUBSET Monster
      OBVIOUS
    <2> QED BY <2>1, RowOfIs, ThingFacts
  <1>6. w = [mon |-> w.mon, proj |-> w.proj, fx |-> w.fx, list |-> w.list] /\ Pools(w.mon, w.proj, w.fx)
        /\ ListsHold(w.list, Things, Leaf, RowOf(w, {}))
    BY DEF Sound
  <1> HIDE DEF e, h
  <1>7. /\ IsEmitted(e) /\ e.pj = f.pj /\ e.fx = f.fx
        /\ e.row = f.row /\ e.list = f.list /\ e.live = f.live
        /\ e.win = f.win /\ e.ptss = leaf
    BY <1>1, <1>2 DEF IsEmitted
  <1>8. e.row[m] = old
    BY <1>1, <1>4, <1>7
  <1>9. CASE leaf = old
    <2>1. v = w
      BY <1>9 DEF Walked
    <2>2. h = e
      BY <1>3, <1>7, <1>8, <1>9
    <2>3. Follows(w, h, D)
      BY <1>1, <1>7, <2>2 DEF Follows
    <2> QED BY <2>1, <2>3 DEF h
  <1>10. CASE leaf # old
    <2> DEFINE ls == Link(Unlink(w.list, old, m), leaf, m)
    <2>1. v = [w EXCEPT !.mon[m] = leaf, !.list = ls]
      BY <1>10 DEF Walked
    <2> HIDE DEF v, ls
    <2>2. v = [mon |-> [w.mon EXCEPT ![m] = leaf], proj |-> w.proj, fx |-> w.fx, list |-> ls]
      BY <1>6, <2>1
    <2>3. v.mon = [w.mon EXCEPT ![m] = leaf] /\ v.proj = w.proj /\ v.fx = w.fx /\ v.list = ls
          /\ v = [mon |-> v.mon, proj |-> v.proj, fx |-> v.fx, list |-> v.list]
      BY <2>2
    <2>4. Pools(v.mon, v.proj, v.fx)
      BY <1>6, <2>3 DEF Pools
    <2>5. ASSUME NEW C \in SUBSET Monster, m \notin C
          PROVE  RowOf(v, C) = [RowOf(w, C) EXCEPT ![m] = leaf]
      BY <1>6, <2>3, <2>5, RowChanges DEF RowOf
    <2>6. ASSUME NEW C \in SUBSET Monster, m \notin C, NEW l, ListsHold(l, Things, Leaf, RowOf(w, C))
          PROVE  ListsHold(Link(Unlink(l, old, m), leaf, m), Things, Leaf, RowOf(v, C))
      <3> DEFINE r == RowOf(w, C)
      <3>1. r \in [Thing -> Leaf \union {0}] /\ r[m] = old /\ RowOf(v, C) = [r EXCEPT ![m] = leaf]
            /\ ListsHold(l, Things, Leaf, r)
        BY <1>4, <2>5, <2>6
      <3> HIDE DEF r
      <3>2. ListsHold(Link(Unlink(l, r[m], m), leaf, m), Things, Leaf, [r EXCEPT ![m] = leaf])
        BY <1>5, <3>1, RelinkHolds DEF Thing
      <3> QED BY <3>1, <3>2
    <2>7. Sound(v)
      <3>1. {} \in SUBSET Monster /\ m \notin {}
        OBVIOUS
      <3>2. ListsHold(ls, Things, Leaf, RowOf(v, {}))
        BY <1>6, <2>6, <3>1 DEF ls
      <3> QED BY <2>3, <2>4, <3>2 DEF Sound
    <2>8. h = [e EXCEPT !.row[m] = leaf, !.list = Link(Unlink(e.list, old, m), leaf, m)]
      BY <1>3, <1>7, <1>8, <1>10
    <2>9. IsEmitted(h) /\ h.pj = e.pj /\ h.fx = e.fx /\ h.live = e.live /\ h.win = e.win
          /\ h.row = [e.row EXCEPT ![m] = leaf] /\ h.list = Link(Unlink(e.list, old, m), leaf, m)
      BY <1>7, <2>8 DEF IsEmitted
    <2>10. h.row = RowOf(v, D) /\ ListsHold(h.list, Things, Leaf, RowOf(v, D))
      BY <1>1, <1>7, <2>5, <2>6, <2>9
    <2>11. Follows(v, h, D)
      BY <1>1, <1>7, <2>3, <2>9, <2>10 DEF Follows
    <2> QED BY <2>7, <2>11 DEF v, h
  <1> QED BY <1>9, <1>10

(* Two fogs, of a teleport.                                                *)
LEMMA FogsFollow ==
  ASSUME stage \in Stages, NEW w, Sound(w), NEW D \in SUBSET Monster, NEW f, Follows(w, f, D),
         NEW a \in Leaf, NEW b \in Leaf
  PROVE  Sound(Fogs(w, a, b)) /\ Follows(Fogs(w, a, b), EmittedFogs(f, a, b), D)
  <1> DEFINE v == WithFx(w, "fog", 0, 0, a)
             g == EmittedFx(f, "fog", 0, 0, a)
  <1>1. FxMade("fog", 0, 0)
    BY StageFacts DEF FxMade, FxKind
  <1>2. Sound(v) /\ Follows(v, g, D)
    BY <1>1, FxFollows
  <1>3. Fogs(w, a, b) = WithFx(v, "fog", 0, 0, b) /\ EmittedFogs(f, a, b) = EmittedFx(g, "fog", 0, 0, b)
    BY DEF Fogs, EmittedFogs
  <1> HIDE DEF v, g
  <1>4. Sound(WithFx(v, "fog", 0, 0, b)) /\ Follows(WithFx(v, "fog", 0, 0, b), EmittedFx(g, "fog", 0, 0, b), D)
    BY <1>1, <1>2, FxFollows
  <1> QED BY <1>3, <1>4

(* A monster's teleport: two fogs, then the relink.                        *)
LEMMA TeleportFollows ==
  ASSUME stage \in Stages, NEW w, Sound(w), NEW D \in SUBSET Monster, NEW f, Follows(w, f, D),
         NEW m \in Monster, m \notin D, NEW leaf \in Leaf, NEW a \in Leaf, NEW b \in Leaf
  PROVE  /\ Sound(Walked(Fogs(w, a, b), m, leaf))
         /\ Follows(Walked(Fogs(w, a, b), m, leaf), EmittedTeleport(f, m, leaf, a, b), D)
  <1> DEFINE v == Fogs(w, a, b)
             g == EmittedFogs(f, a, b)
  <1>1. Sound(v) /\ Follows(v, g, D)
    BY FogsFollow
  <1>2. EmittedTeleport(f, m, leaf, a, b) = EmittedMove(g, m, leaf)
    BY DEF EmittedTeleport
  <1> HIDE DEF v, g
  <1>3. Sound(Walked(v, m, leaf)) /\ Follows(Walked(v, m, leaf), EmittedMove(g, m, leaf), D)
    BY <1>1, MoveFollows
  <1> QED BY <1>2, <1>3 DEF v

(* The dead leave their items.                                             *)
LEMMA DropLinksFollow ==
  ASSUME stage \in Stages, NEW w, Sound(w), NEW D \in SUBSET Monster, NEW f, Follows(w, f, D),
         NEW killed \in SUBSET Monster, killed \cap D = {}
  PROVE  Follows(w, DropLinks(f, killed), D \union (killed \cap Dropper))
  <1> DEFINE E == D \union (killed \cap Dropper)
             g == DropLinks(f, killed)
  <1>1. /\ IsEmitted(f) /\ IsWindow(f.win) /\ f.pj = PjOf(w.proj)
        /\ f.fx = FxOf(w.fx) /\ f.row = RowOf(w, D)
        /\ ListsHold(f.list, Things, Leaf, RowOf(w, D)) /\ f.live = Cardinality(D)
    BY DEF Follows
  <1>2. Walkers \in Nat /\ MissilePool \in Nat /\ FxPool \in Nat
    BY StageFacts
  <1>3. 0 \in 0 .. PassLen /\ 0 \notin Monster /\ 0 \notin Thing
    BY <1>2 DEF PassLen, Monster, Thing
  <1>4. \A C \in SUBSET Monster : \A x : RowOf(w, C) = [RowOf(w, C) EXCEPT ![0] = x]
    <2>1. ASSUME NEW C \in SUBSET Monster, NEW x PROVE RowOf(w, C) = [RowOf(w, C) EXCEPT ![0] = x]
      <3> DEFINE r == RowOf(w, C)
      <3>1. r \in [Thing -> Leaf \union {0}]
        BY RowOfIs
      <3> HIDE DEF r
      <3>2. r = [r EXCEPT ![0] = x]
        BY <1>3, <3>1
      <3> QED BY <3>2 DEF r
    <2> QED BY <2>1
  <1>5. Dropped(w, f, f, 0, D)
    BY <1>1, <1>4 DEF Dropped
  <1>6. Dropped(w, f, g, 0, E)
    BY <1>3, <1>5, Drops
  <1>7. E \in SUBSET Monster
    BY StageFacts
  <1> HIDE DEF g, E
  <1>8. IsEmitted(g) /\ IsWindow(g.win) /\ g.pj = f.pj /\ g.fx = f.fx /\ g.row = RowOf(w, E)
        /\ ListsHold(g.list, Things, Leaf, RowOf(w, E)) /\ g.live = Cardinality(E)
    BY <1>4, <1>6, <1>7 DEF Dropped
  <1> QED BY <1>1, <1>8 DEF Follows, g, E

(* The player takes an item.                                               *)
LEMMA DropTakeFollows ==
  ASSUME stage \in Stages, NEW w, Sound(w), NEW D \in SUBSET Monster, NEW f, Follows(w, f, D), NEW m \in D
  PROVE  Follows(w, DropTake(f, m), D \ {m})
  <1> DEFINE t == DropThing(m)
             E == D \ {m}
             e == [f EXCEPT !.row[t] = 0, !.live = @ - 1, !.win.t = t, !.win.leaf = f.row[t]]
             h == DropTake(f, m)
             r == RowOf(w, D)
  <1>1. IsEmitted(f) /\ IsWindow(f.win) /\ f.pj = PjOf(w.proj) /\ f.fx = FxOf(w.fx) /\ f.row = r
        /\ ListsHold(f.list, Things, Leaf, r) /\ f.live = Cardinality(D)
    BY DEF Follows
  <1>2. m \in Monster /\ E \in SUBSET Monster /\ t \in Thing /\ Things \in Nat /\ 0 \notin Leaf
    BY ThingFacts
  <1>3. r \in [Thing -> Leaf \union {0}] /\ r[t] = w.mon[m] /\ w.mon[m] \in Leaf
    BY <1>2, RowOfIs
  <1>4. RowOf(w, E) = [r EXCEPT ![t] = 0]
    BY <1>2, RowChanges DEF Sound, RowOf
  <1>5. Cardinality(E) = Cardinality(D) - 1
    BY <1>2, Counted
  <1>6. h = PwUnlink(e)
    BY DEF DropTake
  <1>7. e = [f EXCEPT !.row[t] = 0, !.live = f.live - 1, !.win.t = t, !.win.leaf = f.row[t]]
    OBVIOUS
  <1>8. h = [e EXCEPT !.list = Unlink(e.list, e.win.leaf, e.win.t)]
    BY <1>6 DEF PwUnlink
  <1> HIDE DEF t, E, e, h, r
  <1>9. /\ IsEmitted(e) /\ e.pj = f.pj /\ e.fx = f.fx
        /\ e.row = [f.row EXCEPT ![t] = 0] /\ e.live = f.live - 1
        /\ e.list = f.list /\ e.win = [f.win EXCEPT !.t = t, !.leaf = f.row[t]]
    BY <1>1, <1>7 DEF IsEmitted
  <1>10. IsWindow(e.win) /\ e.win.t = t /\ e.win.leaf = f.row[t]
    BY <1>1, <1>9 DEF IsWindow
  <1>11. IsEmitted(h) /\ h.pj = e.pj /\ h.fx = e.fx /\ h.row = e.row /\ h.live = e.live /\ h.win = e.win
         /\ h.list = Unlink(f.list, f.row[t], t)
    BY <1>8, <1>9, <1>10 DEF IsEmitted
  <1>12. ListsHold(Unlink(f.list, r[t], t), Things, Leaf, [r EXCEPT ![t] = 0])
    BY <1>1, <1>2, <1>3, UnlinkHolds DEF Thing
  <1>13. h.row = RowOf(w, E) /\ ListsHold(h.list, Things, Leaf, RowOf(w, E)) /\ h.live = Cardinality(E)
         /\ h.pj = PjOf(w.proj) /\ h.fx = FxOf(w.fx) /\ IsWindow(h.win)
    BY <1>1, <1>4, <1>5, <1>9, <1>10, <1>11, <1>12
  <1> QED BY <1>11, <1>13 DEF Follows, h, E

(* The frame's tail forgets the window.                                    *)
LEMMA TailFollows ==
  ASSUME NEW w, NEW D, NEW f, Follows(w, f, D), NEW h, h = [f EXCEPT !.win = Scratch, !.ptss = 0]
  PROVE  Follows(w, h, D)
  <1>1. IsWindow(Scratch)
    BY DEF IsWindow, Scratch
  <1>2. IsEmitted(f)
    BY DEF Follows
  <1>3. /\ IsEmitted(h) /\ h.pj = f.pj /\ h.fx = f.fx
        /\ h.row = f.row /\ h.list = f.list /\ h.live = f.live
        /\ h.win = Scratch
    BY <1>2 DEF IsEmitted
  <1> QED BY <1>1, <1>3 DEF Follows

(***************************************************************************)
(* What an operation leaves alone                                          *)
(***************************************************************************)

(* A missile that has exploded has no momentum.                            *)
Quiet(w) == \A s \in Missile : w.proj[s].act /\ w.proj[s].st[2] > 0 => ~w.proj[s].mom

(* From p to q, an exploded missile only goes on dying.                    *)
GoesOn(p, q) ==
  p.act /\ p.st[2] > 0 =>
    \/ q = FreeMissile
    \/ /\ q.st[1] = p.st[1]
       /\ \/ q.st[2] = p.st[2] /\ q.tics <= p.tics
          \/ q.st[2] = p.st[2] + 1 /\ p.tics = 1
       /\ q.leaf = p.leaf

(* Blood and puffs stay in their slots.                                    *)
BloodKept(w, x) == \A s \in Fx : w.fx[s].act /\ ~IsFog(w.fx[s]) => x.fx[s] = w.fx[s]

(* A missile that does not change goes on.                                 *)
LEMMA StaysOn ==
  ASSUME stage \in Stages, NEW w, Sound(w), NEW s \in Missile
  PROVE  GoesOn(w.proj[s], w.proj[s])
  <1>1. w.proj[s].act => w.proj[s].tics \in Nat
    BY MissileOf DEF Flies
  <1>2. w.proj[s].act => w.proj[s].tics <= w.proj[s].tics
    BY <1>1
  <1> QED BY <1>2 DEF GoesOn

(* An effect is spawned: no missile changes, and no blood.                 *)
LEMMA FxLeaves ==
  ASSUME stage \in Stages, NEW w, Sound(w), NEW kind, NEW again, NEW v, NEW leaf
  PROVE  /\ WithFx(w, kind, again, v, leaf).proj = w.proj
         /\ BloodKept(w, WithFx(w, kind, again, v, leaf))
  <1> DEFINE S == FxSlots(w.fx, kind)
             s == FirstOf(S)
             x == WithFx(w, kind, again, v, leaf)
             first == FxStart(kind, again, v)
             p == [act |-> TRUE, st |-> first.st, tics |-> first.tics, leaf |-> leaf]
             ls == Link(IF w.fx[s].act THEN Unlink(w.list, w.fx[s].leaf, FxThing(s)) ELSE w.list, leaf, FxThing(s))
  <1>1. w = [mon |-> w.mon, proj |-> w.proj, fx |-> w.fx, list |-> w.list]
        /\ w.fx \in [Fx -> FxCells] /\ DOMAIN w.fx = Fx
    BY DEF Sound, Pools
  <1>2. CASE S = {}
    <2>1. x = w
      BY <1>2 DEF WithFx
    <2> QED BY <2>1 DEF BloodKept
  <1>3. CASE S # {}
    <2>1. x = [w EXCEPT !.fx[s] = p, !.list = ls]
      BY <1>3 DEF WithFx
    <2>2. s \in S
      BY <1>3, SameSlots
    <2> HIDE DEF x, p, ls, s
    <2>3. x.proj = w.proj /\ x.fx = [w.fx EXCEPT ![s] = p]
      BY <1>1, <2>1
    <2>4. s \in Fx /\ (w.fx[s].act => IsFog(w.fx[s]))
      BY <1>1, <2>2 DEF FxSlots, FreeSlots
    <2>5. \A y \in Fx : y # s => x.fx[y] = w.fx[y]
      BY <1>1, <2>3
    <2>6. BloodKept(w, x)
      BY <2>4, <2>5 DEF BloodKept
    <2> QED BY <2>3, <2>6 DEF x
  <1> QED BY <1>2, <1>3

(* Nor do two fogs.                                                        *)
LEMMA FogsLeave ==
  ASSUME stage \in Stages, NEW w, Sound(w), NEW a \in Leaf, NEW b \in Leaf, NEW D \in SUBSET Monster,
         NEW f, Follows(w, f, D)
  PROVE  Fogs(w, a, b).proj = w.proj /\ BloodKept(w, Fogs(w, a, b))
  <1> DEFINE v == WithFx(w, "fog", 0, 0, a)
  <1>1. FxMade("fog", 0, 0)
    BY StageFacts DEF FxMade, FxKind
  <1>2. Sound(v) /\ v.proj = w.proj /\ BloodKept(w, v)
    <2>1. Sound(v)
      BY <1>1, FxFollows
    <2>2. v.proj = w.proj /\ BloodKept(w, v)
      BY FxLeaves
    <2> QED BY <2>1, <2>2
  <1>3. Fogs(w, a, b) = WithFx(v, "fog", 0, 0, b)
    BY DEF Fogs
  <1> HIDE DEF v
  <1>4. WithFx(v, "fog", 0, 0, b).proj = v.proj /\ BloodKept(v, WithFx(v, "fog", 0, 0, b))
    BY <1>2, FxLeaves
  <1> DEFINE x == WithFx(v, "fog", 0, 0, b)
  <1> HIDE DEF x
  <1>5. BloodKept(w, x)
    <2> SUFFICES ASSUME NEW s \in Fx, w.fx[s].act, ~IsFog(w.fx[s]) PROVE x.fx[s] = w.fx[s]
      BY DEF BloodKept
    <2>1. v.fx[s] = w.fx[s]
      BY <1>2 DEF BloodKept
    <2>2. x.fx[s] = v.fx[s]
      BY <1>4, <2>1 DEF BloodKept, x
    <2> QED BY <2>1, <2>2
  <1> QED BY <1>2, <1>3, <1>4, <1>5 DEF x

(* A walk changes no pool.                                                 *)
LEMMA WalkLeaves ==
  ASSUME NEW w, Sound(w), NEW m, NEW leaf
  PROVE  Walked(w, m, leaf).proj = w.proj /\ Walked(w, m, leaf).fx = w.fx
  <1> DEFINE x == Walked(w, m, leaf)
             ls == Link(Unlink(w.list, w.mon[m], m), leaf, m)
  <1>1. w = [mon |-> w.mon, proj |-> w.proj, fx |-> w.fx, list |-> w.list]
    BY DEF Sound
  <1>2. x = IF leaf = w.mon[m] THEN w ELSE [w EXCEPT !.mon[m] = leaf, !.list = ls]
    BY DEF Walked
  <1> HIDE DEF x, ls
  <1> QED BY <1>1, <1>2 DEF x

(* One effect's slot ticks.                                                *)
LEMMA FxTicLeaves ==
  ASSUME stage \in Stages, NEW w, Sound(w), NEW s \in Fx, w.fx[s].act
  PROVE  /\ FxTic(w, s).proj = w.proj
         /\ \A x \in Fx : x # s => FxTic(w, s).fx[x] = w.fx[x]
  <1> DEFINE ls == IF FxOver(w.fx[s]) THEN Unlink(w.list, w.fx[s].leaf, FxThing(s)) ELSE w.list
             q == TickedFx(w.fx[s])
  <1>1. FxTic(w, s) = WithSlot(w, s, q, ls)
    BY FxTicTold
  <1>2. DOMAIN w.fx = Fx
    BY DEF Sound, Pools
  <1> HIDE DEF ls, q
  <1> QED BY <1>1, <1>2 DEF WithSlot

(* Only missile s is touched, from w to x.                                 *)
OnlyMissile(w, x, s) ==
  x.fx = w.fx /\ \A y \in Missile : y # s => x.proj[y] = w.proj[y]

(* One missile's change leaves the rest.                                   *)
LEMMA WithMissileLeaves ==
  ASSUME NEW w, Sound(w), NEW s \in Missile, NEW p, NEW ls
  PROVE  OnlyMissile(w, WithMissile(w, s, p, ls), s) /\ WithMissile(w, s, p, ls).proj[s] = p
  <1>1. DOMAIN w.proj = Missile
    BY DEF Sound, Pools
  <1> QED BY <1>1 DEF OnlyMissile, WithMissile

(* A try: the missile flies on, or has exploded.                           *)
LEMMA TryLeaves ==
  ASSUME stage \in Stages, NEW w, Sound(w), NEW s \in Missile, w.proj[s].act, NEW o, NEW v \in 0 .. MaxRoll,
         o.at = "clear" => o.leaf \in Leaf
  PROVE  /\ OnlyMissile(w, TryMade(w, s, o, v), s)
         /\ \/ TryMade(w, s, o, v).proj[s].st = w.proj[s].st
            \/ ~TryMade(w, s, o, v).proj[s].mom
  <1> DEFINE x == TryMade(w, s, o, v)
             p == w.proj[s]
  <1>1. CASE o.at = "clear"
    <2> DEFINE p2 == [act |-> TRUE, st |-> p.st, tics |-> p.tics, src |-> p.src, mom |-> p.mom, leaf |-> o.leaf]
               ls == Link(Unlink(w.list, p.leaf, MissileThing(s)), o.leaf, MissileThing(s))
    <2>1. x = Moved(w, s, o.leaf)
      BY <1>1 DEF TryMade
    <2>2. Moved(w, s, o.leaf) = IF o.leaf = p.leaf THEN w ELSE WithMissile(w, s, p2, ls)
      BY <1>1, MovedTold
    <2>3. p2.st = p.st
      OBVIOUS
    <2> HIDE DEF p2, ls, x
    <2>4. OnlyMissile(w, WithMissile(w, s, p2, ls), s) /\ WithMissile(w, s, p2, ls).proj[s] = p2
      BY WithMissileLeaves
    <2>5. OnlyMissile(w, w, s)
      BY DEF OnlyMissile
    <2>6. CASE o.leaf = p.leaf
      <3>1. x = w
        BY <2>1, <2>2, <2>6
      <3> QED BY <2>5, <3>1 DEF x
    <2>7. CASE o.leaf # p.leaf
      <3>1. x = WithMissile(w, s, p2, ls)
        BY <2>1, <2>2, <2>7
      <3>2. OnlyMissile(w, x, s) /\ x.proj[s].st = p.st
        BY <2>3, <2>4, <3>1
      <3> QED BY <3>2 DEF x
    <2> QED BY <2>6, <2>7
  <1>2. CASE o.at # "clear"
    <2> DEFINE p2 == [act |-> TRUE, st |-> <<p.st[1], 1>>, tics |-> (BurstTics[p.st[1]] - v) % 16,
                      src |-> p.src, mom |-> FALSE, leaf |-> p.leaf]
    <2>1. x = WithMissile(w, s, p2, w.list)
      BY <1>2, ExplodedTold DEF TryMade
    <2>2. p2.mom = FALSE
      OBVIOUS
    <2> HIDE DEF p2, x
    <2>3. OnlyMissile(w, WithMissile(w, s, p2, w.list), s) /\ WithMissile(w, s, p2, w.list).proj[s] = p2
      BY WithMissileLeaves
    <2>4. OnlyMissile(w, x, s) /\ ~x.proj[s].mom
      BY <2>1, <2>2, <2>3
    <2> QED BY <2>4 DEF x
  <1> QED BY <1>1, <1>2

(* A tic of it.                                                            *)
LEMMA TicLeaves ==
  ASSUME stage \in Stages, NEW w, Sound(w), NEW s \in Missile, w.proj[s].act,
         w.proj[s].st[2] > 0 => ~w.proj[s].mom
  PROVE  /\ OnlyMissile(w, MissileTic(w, s), s) /\ GoesOn(w.proj[s], MissileTic(w, s).proj[s])
         /\ MissileTic(w, s).proj[s].act /\ MissileTic(w, s).proj[s].st[2] > 0 => ~MissileTic(w, s).proj[s].mom
  <1> DEFINE p == w.proj[s]
             q == TickedMissile(p)
             n == NextOf(p.st)
             x == MissileTic(w, s)
             ls == IF p.tics = 1 /\ n = Null THEN Unlink(w.list, p.leaf, MissileThing(s)) ELSE w.list
  <1>1. x = WithMissile(w, s, q, ls)
    BY MissileTicTold
  <1>2. Flies(p)
    BY MissileOf
  <1>3. p.tics \in 1 .. 15 /\ p.st \in MissileKind \X Nat /\ p.st[2] \in 0 .. Run[p.st[1]]
    BY <1>2, TickedIs DEF Flies
  <1>4. OnlyMissile(w, x, s) /\ x.proj[s] = q
    <2> HIDE DEF q, ls, x
    <2> QED BY <1>1, WithMissileLeaves
  <1>5. CASE p.tics # 1
    <2>1. q = [act |-> TRUE, st |-> p.st, tics |-> p.tics - 1, src |-> p.src, mom |-> p.mom, leaf |-> p.leaf]
      BY <1>5 DEF TickedMissile
    <2>2. q.st = p.st /\ q.tics = p.tics - 1 /\ q.mom = p.mom /\ q.leaf = p.leaf
      BY <2>1
    <2> HIDE DEF q, x, p
    <2>3. p.tics - 1 <= p.tics
      BY <1>3
    <2>4. GoesOn(p, q)
      BY <2>2, <2>3 DEF GoesOn
    <2> QED BY <1>4, <2>2, <2>4 DEF x, p
  <1>6. CASE p.tics = 1 /\ n # Null
    <2>1. q = [act |-> TRUE, st |-> n, tics |-> Tics(n), src |-> p.src, mom |-> p.mom, leaf |-> p.leaf]
      BY <1>6 DEF TickedMissile
    <2>2. q.st = n /\ q.tics = Tics(n) /\ q.mom = p.mom /\ q.leaf = p.leaf
      BY <2>1
    <2>3. n[1] = p.st[1] /\ n[2] \in {p.st[2], p.st[2] + 1} /\ (p.st[2] > 0 => n[2] = p.st[2] + 1)
      BY <1>3, <1>6, MissileNext
    <2>4. n[2] > 0 => ~p.mom
      <3>1. CASE p.st[2] > 0
        BY <3>1
      <3>2. CASE p.st[2] = 0
        <4>1. n = p.st
          BY <3>2 DEF NextOf
        <4> QED BY <3>2, <4>1
      <3>3. p.st[2] > 0 \/ p.st[2] = 0
        BY <1>3
      <3> QED BY <3>1, <3>2, <3>3
    <2> HIDE DEF q, x, p, n
    <2>5. GoesOn(p, q)
      BY <1>6, <2>2, <2>3 DEF GoesOn
    <2> QED BY <1>4, <2>2, <2>4, <2>5 DEF x, p
  <1>7. CASE p.tics = 1 /\ n = Null
    <2>1. q = FreeMissile
      BY <1>7 DEF TickedMissile
    <2>2. FreeMissile.act = FALSE
      BY DEF FreeMissile
    <2> HIDE DEF q, x, p
    <2> QED BY <1>4, <2>1, <2>2 DEF x, p, GoesOn
  <1> QED BY <1>5, <1>6, <1>7

(* A missile of the missiles' phase.                                       *)
LEMMA ThinksLeaves ==
  ASSUME stage \in Stages, NEW w, Sound(w), Quiet(w), NEW s \in Missile, w.proj[s].act,
         NEW o, NEW v \in 0 .. MaxRoll, o.at = "clear" => o.leaf \in Leaf,
         Sound(TryMade(w, s, o, v)) /\ TryMade(w, s, o, v).proj[s].act
  PROVE  /\ Thinks(w, s, o, v).fx = w.fx /\ Quiet(Thinks(w, s, o, v))
         /\ \A y \in Missile : GoesOn(w.proj[y], Thinks(w, s, o, v).proj[y])
  <1> DEFINE x == IF w.proj[s].mom THEN TryMade(w, s, o, v) ELSE w
             h == MissileTic(x, s)
  <1>1. Thinks(w, s, o, v) = h
    BY DEF Thinks, TryMade
  <1>2. Sound(x) /\ x.proj[s].act
    OBVIOUS
  <1>3. OnlyMissile(w, x, s)
    <2>1. OnlyMissile(w, w, s)
      BY DEF OnlyMissile
    <2> QED BY <2>1, TryLeaves
  <1>4. x.proj[s].st[2] > 0 => ~x.proj[s].mom
    <2>1. CASE ~w.proj[s].mom
      BY <2>1
    <2>2. CASE w.proj[s].mom
      <3>1. x = TryMade(w, s, o, v)
        BY <2>2
      <3>2. ~(w.proj[s].st[2] > 0)
        BY <2>2 DEF Quiet
      <3>3. x.proj[s].st = w.proj[s].st \/ ~x.proj[s].mom
        BY <3>1, TryLeaves
      <3> HIDE DEF x
      <3> QED BY <3>2, <3>3
    <2> QED BY <2>1, <2>2
  <1>5. w.proj[s].st[2] > 0 => x.proj[s] = w.proj[s]
    BY DEF Quiet
  <1> HIDE DEF x
  <1>6. OnlyMissile(x, h, s) /\ GoesOn(x.proj[s], h.proj[s])
        /\ (h.proj[s].act /\ h.proj[s].st[2] > 0 => ~h.proj[s].mom)
    BY <1>2, <1>4, TicLeaves
  <1> HIDE DEF h
  <1>7. OnlyMissile(w, h, s)
    BY <1>3, <1>6 DEF OnlyMissile
  <1>8. Quiet(h)
    BY <1>6, <1>7 DEF Quiet, OnlyMissile
  <1>9. \A y \in Missile : GoesOn(w.proj[y], h.proj[y])
    <2> SUFFICES ASSUME NEW y \in Missile PROVE GoesOn(w.proj[y], h.proj[y])
      OBVIOUS
    <2>1. CASE y # s
      <3>1. h.proj[y] = w.proj[y]
        BY <1>7, <2>1 DEF OnlyMissile
      <3> QED BY <3>1, StaysOn
    <2>2. CASE y = s
      <3>1. CASE w.proj[s].st[2] > 0
        BY <1>5, <1>6, <2>2, <3>1
      <3>2. CASE ~(w.proj[s].st[2] > 0)
        BY <2>2, <3>2 DEF GoesOn
      <3> QED BY <3>1, <3>2
    <2> QED BY <2>1, <2>2
  <1> QED BY <1>1, <1>7, <1>8, <1>9 DEF OnlyMissile

(* A missile that is fired.                                                *)
LEMMA LaunchLeaves ==
  ASSUME stage \in Stages, NEW w, Sound(w), Quiet(w), NEW s \in Missile, ~w.proj[s].act,
         NEW kind, NEW src, NEW leaf, NEW v0, NEW o, NEW v
  PROVE  /\ Launched(w, s, kind, src, leaf, v0, o, v).fx = w.fx
         /\ Quiet(Launched(w, s, kind, src, leaf, v0, o, v))
         /\ \A y \in Missile : GoesOn(w.proj[y], Launched(w, s, kind, src, leaf, v0, o, v).proj[y])
  <1> DEFINE h == Launched(w, s, kind, src, leaf, v0, o, v)
             p == [act |-> TRUE, st |-> <<kind, 0>>, tics |-> Rolled(<<kind, 0>>, v0),
                   src |-> src, mom |-> TRUE, leaf |-> leaf]
             x == [w EXCEPT !.proj[s] = p, !.list = Link(@, leaf, MissileThing(s))]
             roll == Rolled(<<x.proj[s].st[1], 1>>, v)
             burst == <<x.proj[s].st[1], 1>>
             z == [x EXCEPT !.proj[s].st = burst, !.proj[s].tics = roll, !.proj[s].mom = FALSE]
  <1>1. w = [mon |-> w.mon, proj |-> w.proj, fx |-> w.fx, list |-> w.list] /\ DOMAIN w.proj = Missile
    BY DEF Sound, Pools
  <1>2. h = IF o.at = "clear" THEN x ELSE z
    BY DEF Launched, Exploded
  <1>3. x = [w EXCEPT !.proj[s] = p, !.list = Link(@, leaf, MissileThing(s))]
    OBVIOUS
  <1>4. z = [x EXCEPT !.proj[s].st = burst, !.proj[s].tics = roll, !.proj[s].mom = FALSE]
    OBVIOUS
  <1>5. p.st[2] = 0 /\ p = [act |-> p.act, st |-> p.st, tics |-> p.tics, src |-> p.src, mom |-> p.mom, leaf |-> p.leaf]
    OBVIOUS
  <1> HIDE DEF h, x, z, p, burst, roll
  <1>6. x = [mon |-> w.mon, proj |-> [w.proj EXCEPT ![s] = p], fx |-> w.fx, list |-> x.list]
    BY <1>1, <1>3
  <1>7. x.proj = [w.proj EXCEPT ![s] = p] /\ x.fx = w.fx
    BY <1>6
  <1>8. x.proj[s] = p /\ OnlyMissile(w, x, s)
    BY <1>1, <1>7 DEF OnlyMissile
  <1>9. z.fx = x.fx
    BY <1>4, <1>6
  <1>10. z.proj = [x.proj EXCEPT ![s] = [p EXCEPT !.st = burst, !.tics = roll, !.mom = FALSE]]
    <2> DEFINE q == [p EXCEPT !.st = burst, !.tics = roll, !.mom = FALSE]
    <2>1. z.proj = [x.proj EXCEPT ![s].st = burst, ![s].tics = roll, ![s].mom = FALSE]
      BY <1>4, <1>6
    <2>2. q = [p EXCEPT !.st = burst, !.tics = roll, !.mom = FALSE]
      OBVIOUS
    <2> HIDE DEF q
    <2>3. [x.proj EXCEPT ![s].st = burst, ![s].tics = roll, ![s].mom = FALSE] = [x.proj EXCEPT ![s] = q]
      BY <1>1, <1>7, <1>8, <2>2
    <2> QED BY <2>1, <2>3 DEF q
  <1>11. OnlyMissile(w, z, s) /\ ~z.proj[s].mom
    <2> DEFINE q == [p EXCEPT !.st = burst, !.tics = roll, !.mom = FALSE]
    <2>1. q = [p EXCEPT !.st = burst, !.tics = roll, !.mom = FALSE]
      OBVIOUS
    <2> HIDE DEF q
    <2>2. q.mom = FALSE
      BY <1>5, <2>1
    <2>3. z.proj = [x.proj EXCEPT ![s] = q]
      BY <1>10 DEF q
    <2>4. DOMAIN x.proj = Missile
      BY <1>1, <1>7
    <2>5. z.proj[s] = q /\ \A y \in Missile : y # s => z.proj[y] = x.proj[y]
      BY <2>3, <2>4
    <2> QED BY <1>8, <1>9, <2>2, <2>5 DEF OnlyMissile
  <1>12. OnlyMissile(w, h, s) /\ (h.proj[s].st[2] > 0 => ~h.proj[s].mom)
    <2>1. ~(0 > 0)
      OBVIOUS
    <2> QED BY <1>2, <1>5, <1>8, <1>11, <2>1
  <1>13. Quiet(h)
    BY <1>12 DEF Quiet, OnlyMissile
  <1>14. \A y \in Missile : GoesOn(w.proj[y], h.proj[y])
    <2> SUFFICES ASSUME NEW y \in Missile PROVE GoesOn(w.proj[y], h.proj[y])
      OBVIOUS
    <2>1. CASE y # s
      <3>1. h.proj[y] = w.proj[y]
        BY <1>12, <2>1 DEF OnlyMissile
      <3> QED BY <3>1, StaysOn
    <2>2. CASE y = s
      BY <2>2 DEF GoesOn
    <2> QED BY <2>1, <2>2
  <1> QED BY <1>12, <1>13, <1>14 DEF OnlyMissile, h

(***************************************************************************)
(* The steps of the frame                                                  *)
(***************************************************************************)

(* Where the frame is, and the slot of a pool's phase.                     *)
LEMMA StepFacts ==
  ASSUME stage \in Stages, step \in 1 .. Steps
  PROVE  /\ (step % Steps) + 1 \in 1 .. Steps
         /\ Part = "missiles" => PoolSlot \in Missile
         /\ Part = "effects" => PoolSlot \in Fx
  <1>1. Walkers \in Nat /\ MissilePool \in Nat /\ FxPool \in Nat /\ stage.monsterTics \in Nat \ {0}
    BY StageFacts
  <1>2. PassLen \in Nat /\ PassLen = Walkers + MissilePool + FxPool
    BY <1>1 DEF PassLen
  <1> DEFINE mt == stage.monsterTics
             pl == PassLen
             N  == mt * pl
  <1>3. mt \in Nat /\ pl \in Nat /\ Steps = 3 + N
    BY <1>1, <1>2 DEF Steps
  <1> HIDE DEF mt, pl
  <1>4. N \in Nat
    BY <1>3
  <1>5. pl = 0 => N = 0
    BY <1>3
  <1> HIDE DEF N
  <1>6. Steps \in Nat /\ Steps > 0 /\ step \in Nat /\ step >= 1 /\ step <= Steps
    BY <1>3, <1>4
  <1>7. (step % Steps) + 1 \in 1 .. Steps
    BY <1>6
  <1>8. ASSUME Part \in {"missiles", "effects"} PROVE InPass \in 0 .. pl - 1
    <2>1. step # 1 /\ step # 2 /\ step # Steps
      BY <1>8 DEF Part
    <2>2. N > 0 /\ step - 3 \in Nat
      BY <1>3, <1>4, <1>6, <2>1
    <2>3. pl > 0
      BY <1>3, <1>5, <2>2
    <2> DEFINE k == step - 3
    <2>4. InPass = k % pl
      BY DEF InPass, pl
    <2> HIDE DEF k
    <2>5. k \in Nat
      BY <2>2 DEF k
    <2> QED BY <1>3, <2>3, <2>4, <2>5
  <1>9. Part = "missiles" => PoolSlot \in Missile
    <2> SUFFICES ASSUME Part = "missiles" PROVE PoolSlot \in Missile
      OBVIOUS
    <2>1. ~(InPass < Walkers) /\ InPass < Walkers + MissilePool
      BY DEF Part
    <2>2. PoolSlot = InPass - Walkers + 1
      BY DEF PoolSlot
    <2> QED BY <1>1, <1>2, <1>3, <1>8, <2>1, <2>2 DEF Missile
  <1>10. Part = "effects" => PoolSlot \in Fx
    <2> SUFFICES ASSUME Part = "effects" PROVE PoolSlot \in Fx
      OBVIOUS
    <2>1. ~(InPass < Walkers) /\ ~(InPass < Walkers + MissilePool)
      BY DEF Part
    <2>2. PoolSlot = InPass - Walkers - MissilePool + 1
      BY DEF PoolSlot
    <2>3. pl = Walkers + MissilePool + FxPool
      BY <1>2 DEF pl
    <2> QED BY <1>1, <1>3, <1>8, <2>1, <2>2, <2>3 DEF Fx
  <1> QED BY <1>7, <1>9, <1>10

(* What a missile may meet, and who may die of it.                         *)
LEMMA MeetingIs ==
  ASSUME NEW p, NEW clear, NEW o \in Meeting(p, clear) \union {Still}, NEW blast \in BlastKills(p, o)
  PROVE  /\ o.at = "clear" => o.leaf \in clear
         /\ KilledBy(p, o) \subseteq Live /\ blast \subseteq Live /\ blast \cap KilledBy(p, o) = {}
         /\ o.at \in {"clear", "still"} => KilledBy(p, o) = {} /\ blast = {}
         /\ p.st[1] # "rocket" => blast = {}
  <1>1. o.at = "clear" => o.leaf \in clear
    BY DEF Meeting, Still
  <1>2. o.at = "thing" => o.who \in Monster
    BY DEF Meeting, Still
  <1>3. KilledBy(p, o) \subseteq Live
    BY <1>2 DEF KilledBy, Hurts, Live
  <1>4. o.at \in {"clear", "still"} => KilledBy(p, o) = {}
    BY DEF KilledBy, Hurts
  <1>5. /\ blast \subseteq Live /\ blast \cap KilledBy(p, o) = {}
        /\ (o.at \in {"clear", "still"} => blast = {}) /\ (p.st[1] # "rocket" => blast = {})
    BY DEF BlastKills, Blasts
  <1> QED BY <1>1, <1>3, <1>4, <1>5

(* What a try may roll.                                                    *)
LEMMA RollsIn ==
  ASSUME stage \in Stages, NEW o, NEW v \in Rolls(o)
  PROVE  v \in 0 .. MaxRoll
  BY StageFacts DEF Rolls

(***************************************************************************)
(* The invariant                                                           *)
(***************************************************************************)

Loose(dr) == {m \in Monster : dr[m] = 1}

(* Who lives has not left an item.                                         *)
Tale(st, dr) ==
  /\ st \in [Monster -> {"live", "dying", "fallen"}] /\ dr \in [Monster -> 0 .. 2]
  /\ \A m \in Monster : st[m] = "live" => dr[m] = 0

(* The model's cells are sound and the emitted ones follow them.           *)
Told(st, dr, w, f) == Tale(st, dr) /\ Sound(w) /\ Quiet(w) /\ Follows(w, f, Loose(dr))

(* The invariant.                                                          *)
MobilesInv ==
  /\ stage \in Stages /\ step \in 1 .. Steps
  /\ Told(status, drop, cells, emitted)

(* It says what the runs check.                                            *)
LEMMA InvTells ==
  ASSUME MobilesInv
  PROVE  CellsAreModel
  <1>1. stage \in Stages /\ Tale(status, drop) /\ Sound(cells) /\ Follows(cells, emitted, Loose(drop))
    BY DEF MobilesInv, Told
  <1> DEFINE r0 == RowOf(cells, {})
             rd == RowOf(cells, Loose(drop))
             D  == Loose(drop)
  <1>2. D \in SUBSET Monster
    BY DEF Loose
  <1>3. Walkers \in Nat /\ MissilePool \in Nat /\ FxPool \in Nat /\ 0 \notin Leaf
    BY <1>1, StageFacts
  <1>4. CellsTypeOK
    <2>1. cells.mon \in [Monster -> Leaf]
      BY <1>1 DEF Sound, Pools
    <2>2. ASSUME NEW s \in Missile
          PROVE  IF cells.proj[s].act
                 THEN /\ cells.proj[s].st[1] \in MissileKind /\ cells.proj[s].st[2] \in 0 .. Run[cells.proj[s].st[1]]
                      /\ cells.proj[s].tics \in 1 .. Tics(cells.proj[s].st) /\ cells.proj[s].leaf \in Leaf
                      /\ cells.proj[s].src \in (IF cells.proj[s].st[1] = "ball" THEN Shooter ELSE {0})
                      /\ cells.proj[s].mom \in BOOLEAN
                 ELSE cells.proj[s] = FreeMissile
      <3>1. /\ cells.proj[s].act => Flies(cells.proj[s])
            /\ ~cells.proj[s].act => cells.proj[s] = FreeMissile
        BY <1>1, MissileOf
      <3> QED BY <3>1 DEF Flies
    <2>3. ASSUME NEW s \in Fx
          PROVE  IF cells.fx[s].act
                 THEN /\ cells.fx[s].st[1] \in FxKind /\ cells.fx[s].st[2] \in 1 .. Run[cells.fx[s].st[1]]
                      /\ cells.fx[s].tics \in 1 .. BurstTics[cells.fx[s].st[1]] /\ cells.fx[s].leaf \in Leaf
                 ELSE cells.fx[s] = FreeFx
      <3>1. /\ cells.fx[s].act => Shows(cells.fx[s])
            /\ ~cells.fx[s].act => cells.fx[s] = FreeFx
        BY <1>1, FxSlotOf
      <3> QED BY <3>1 DEF Shows
    <2> QED BY <1>1, <2>1, <2>2, <2>3 DEF CellsTypeOK, Tale
  <1>5. Stands = r0
    <2>1. \A t \in Thing : Stands[t] = r0[t]
      BY DEF Stands, RowOf, Row
    <2>2. Stands = [t \in Thing |-> Stands[t]] /\ r0 = [t \in Thing |-> r0[t]]
      BY DEF Stands, RowOf, Row
    <2> HIDE DEF r0
    <2> QED BY <2>1, <2>2, Zenon
  <1>6. /\ emitted.row = rd /\ ListsHold(emitted.list, Things, Leaf, rd)
        /\ ListsHold(cells.list, Things, Leaf, r0)
        /\ emitted.pj = PjOf(cells.proj) /\ emitted.fx = FxOf(cells.fx) /\ emitted.live = Cardinality(D)
    BY <1>1 DEF Follows, Sound
  <1>7. DOMAIN r0 = Thing /\ DOMAIN rd = Thing
    BY DEF RowOf, Row
  <1>8. ListsFromScratch
    <2> HIDE DEF r0, rd
    <2> QED BY <1>5, <1>6, <1>7 DEF ListsFromScratch, ListsHold, In
  <1>9. EmittedIsModel
    <2>1. ASSUME NEW s \in Missile, NEW c \in {"act", "st", "tics", "src", "mom"}
          PROVE  emitted.pj[s][c] = cells.proj[s][c]
      BY <1>6 DEF PjOf
    <2>2. ASSUME NEW s \in Fx, NEW c \in {"act", "st", "tics"}
          PROVE  emitted.fx[s][c] = cells.fx[s][c]
      BY <1>6 DEF FxOf
    <2>3. ASSUME NEW t \in 1 .. PassLen PROVE emitted.row[t] = Stands[t]
      <3>1. t \in Thing
        BY <1>3 DEF Thing, Things, PassLen
      <3>2. rd[t] = r0[t]
        BY <3>1 DEF RowOf, Row
      <3> QED BY <1>5, <1>6, <3>2
    <2>4. ASSUME NEW m \in Monster
          PROVE  emitted.row[DropThing(m)] = IF drop[m] = 1 THEN cells.mon[m] ELSE 0
      <3>1. rd[DropThing(m)] = IF m \in D THEN cells.mon[m] ELSE 0
        BY <1>1, <1>2, RowOfIs
      <3> QED BY <1>6, <3>1 DEF Loose
    <2> QED BY <1>6, <2>1, <2>2, <2>3, <2>4 DEF EmittedIsModel, Loose
  <1> QED BY <1>4, <1>8, <1>9 DEF CellsAreModel

(***************************************************************************)
(* The level start                                                         *)
(***************************************************************************)

(* The level start's cells tell of the level.                              *)
LEMMA StartTold ==
  ASSUME stage \in Stages
  PROVE  Told([m \in Monster |-> "live"], [m \in Monster |-> 0], StartCells, StartEmitted)
  <1> DEFINE w == StartCells
             f == StartEmitted
             st == [m \in Monster |-> "live"]
             dr == [m \in Monster |-> 0]
             row == [t \in Thing |-> IF t \in Monster THEN stage.start[t] ELSE 0]
  <1>1. Walkers \in Nat /\ MissilePool \in Nat /\ FxPool \in Nat /\ 0 \notin Leaf
        /\ stage.start \in [Monster -> Leaf]
    BY StageFacts
  <1>2. Things \in Nat /\ Monster \subseteq Thing
    BY ThingFacts
  <1>3. /\ w.mon = stage.start /\ w.proj = [s \in Missile |-> FreeMissile] /\ w.fx = [s \in Fx |-> FreeFx]
        /\ w.list = StartList
        /\ w = [mon |-> w.mon, proj |-> w.proj, fx |-> w.fx, list |-> w.list]
    BY DEF StartCells
  <1>4. /\ f.pj = [s \in Missile |-> [act |-> FALSE, st |-> Null, tics |-> 0, src |-> 0, mom |-> FALSE]]
        /\ f.fx = [s \in Fx |-> [act |-> FALSE, st |-> Null, tics |-> 0]]
        /\ f.row = row /\ f.list = StartList /\ f.live = 0 /\ f.win = Scratch /\ IsEmitted(f)
    BY DEF StartEmitted, IsEmitted
  <1>5. Tale(st, dr) /\ Loose(dr) = {}
    BY DEF Tale, Loose
  <1>6. /\ FreeMissile.act = FALSE /\ FreeMissile.st = Null /\ FreeMissile.tics = 0 /\ FreeMissile.src = 0
        /\ FreeMissile.mom = FALSE /\ FreeMissile.leaf = 0
        /\ FreeFx.act = FALSE /\ FreeFx.st = Null /\ FreeFx.tics = 0 /\ FreeFx.leaf = 0
    BY DEF FreeMissile, FreeFx
  <1> HIDE DEF w, f, st, dr
  <1>7. Pools(w.mon, w.proj, w.fx)
    <2>1. FreeMissile \in MissileCells /\ FreeFx \in FxCells
      BY MissileIs, FxIs
    <2> QED BY <1>1, <1>3, <2>1 DEF Pools
  <1>8. RowOf(w, {}) = row
    <2> DEFINE r == RowOf(w, {})
    <2>1. ASSUME NEW t \in Thing PROVE r[t] = row[t]
      <3>1. t \in 1 .. Things /\ t \in Nat
        BY <1>2 DEF Thing
      <3>2. r[t] = IF t <= Walkers THEN w.mon[t]
                   ELSE IF t <= Walkers + MissilePool THEN w.proj[t - Walkers].leaf
                   ELSE IF t <= PassLen THEN w.fx[t - Walkers - MissilePool].leaf ELSE 0
        BY DEF RowOf, Row
      <3>3. CASE t <= Walkers
        BY <1>1, <1>3, <3>1, <3>2, <3>3 DEF Monster
      <3>4. CASE ~(t <= Walkers) /\ t <= Walkers + MissilePool
        <4>1. t - Walkers \in Missile /\ t \notin Monster
          BY <1>1, <3>1, <3>4 DEF Missile, Monster
        <4>2. w.proj[t - Walkers] = FreeMissile
          BY <1>3, <4>1
        <4> QED BY <1>6, <3>2, <3>4, <4>1, <4>2
      <3>5. CASE ~(t <= Walkers) /\ ~(t <= Walkers + MissilePool) /\ t <= PassLen
        <4>1. t - Walkers - MissilePool \in Fx /\ t \notin Monster
          BY <1>1, <3>1, <3>5 DEF Fx, Monster, PassLen
        <4>2. w.fx[t - Walkers - MissilePool] = FreeFx
          BY <1>3, <4>1
        <4> QED BY <1>6, <3>2, <3>5, <4>1, <4>2
      <3>6. CASE ~(t <= Walkers) /\ ~(t <= Walkers + MissilePool) /\ ~(t <= PassLen)
        <4>1. t \notin Monster
          BY <1>1, <3>1, <3>6 DEF Monster
        <4> QED BY <3>2, <3>6, <4>1
      <3> QED BY <3>3, <3>4, <3>5, <3>6
    <2>2. r = [t \in Thing |-> r[t]] /\ row = [t \in Thing |-> row[t]]
      BY DEF RowOf, Row
    <2> HIDE DEF r, row
    <2>3. r = row
      BY <2>1, <2>2, Zenon
    <2> QED BY <2>3 DEF r
  <1>9. ListsHold(StartList, Things, Leaf, row)
    <2> DEFINE head == [l \in Leaf |-> FirstOf({m \in Monster : stage.start[m] = l})]
               next == [t \in Thing |-> IF t \in Monster
                                        THEN FirstOf({m \in Monster : m > t /\ stage.start[m] = stage.start[t]}) ELSE 0]
    <2>1. StartList = [head |-> head, next |-> next]
      BY DEF StartList
    <2>2. \A S \in SUBSET Monster : FirstOf(S) \in 0 .. Things
      <3>1. ASSUME NEW S \in SUBSET Monster PROVE FirstOf(S) \in 0 .. Things
        <4>1. S \in SUBSET (1 .. Things)
          BY <1>2 DEF Thing
        <4> QED BY <1>2, <4>1, FirstIs
      <3> QED BY <3>1
    <2>3. head \in [Leaf -> 0 .. Things]
      BY <2>2
    <2>4. next \in [1 .. Things -> 0 .. Things]
      BY <1>2, <2>2 DEF Thing
    <2>5. ListShape(StartList, Things, Leaf)
      <3> HIDE DEF head, next
      <3> QED BY <2>1, <2>3, <2>4 DEF ListShape
    <2>6. ASSUME NEW l \in Leaf PROVE IsListOf(StartList, l, In(row, l))
      <3> DEFINE S == {m \in Monster : stage.start[m] = l}
      <3>1. In(row, l) = S
        BY <1>1, <1>2 DEF In
      <3>2. StartList.head[l] = FirstOf(S)
        BY <2>1
      <3>3. ASSUME NEW t \in S PROVE StartList.next[t] = FirstOf(Past(S, t))
        <4>1. t \in Monster /\ t \in Thing /\ stage.start[t] = l
          BY <1>2
        <4>2. {m \in Monster : m > t /\ stage.start[m] = stage.start[t]} = Past(S, t)
          BY <4>1 DEF Past
        <4>3. next[t] = FirstOf({m \in Monster : m > t /\ stage.start[m] = stage.start[t]})
          BY <4>1
        <4> HIDE DEF next, S
        <4>4. StartList.next[t] = next[t]
          BY <2>1
        <4> QED BY <4>2, <4>3, <4>4
      <3> HIDE DEF S, row
      <3> QED BY <3>1, <3>2, <3>3 DEF IsListOf
    <2> QED BY <2>5, <2>6 DEF ListsHold
  <1> HIDE DEF row
  <1>10. Sound(w)
    BY <1>3, <1>7, <1>8, <1>9 DEF Sound
  <1>11. Quiet(w)
    BY <1>3, <1>6 DEF Quiet
  <1>12. f.pj = PjOf(w.proj) /\ f.fx = FxOf(w.fx)
    <2>1. \A s \in Missile : w.proj[s] = FreeMissile
      BY <1>3
    <2>2. \A s \in Fx : w.fx[s] = FreeFx
      BY <1>3
    <2> DEFINE idle == [act |-> FALSE, st |-> Null, tics |-> 0, src |-> 0, mom |-> FALSE]
    <2>3. f.pj = [s \in Missile |-> idle]
      BY <1>4
    <2>4. \A s \in Missile : PjOf(w.proj)[s] = idle
      BY <1>6, <2>1 DEF PjOf
    <2>5. PjOf(w.proj) = [s \in Missile |-> PjOf(w.proj)[s]]
      BY DEF PjOf
    <2>6. f.pj = PjOf(w.proj)
      <3> HIDE DEF idle
      <3> QED BY <2>3, <2>4, <2>5
    <2>7. f.fx = FxOf(w.fx)
      BY <1>4, <1>6, <2>2 DEF FxOf
    <2> QED BY <2>6, <2>7
  <1>13. IsWindow(Scratch)
    BY DEF IsWindow, Scratch
  <1>14. Cardinality({}) = 0
    BY FS_EmptySet
  <1>15. Follows(w, f, {})
    BY <1>4, <1>8, <1>9, <1>12, <1>13, <1>14 DEF Follows
  <1> QED BY <1>5, <1>10, <1>11, <1>15 DEF Told, w, f, st, dr

(***************************************************************************)
(* What an action of the frame does                                        *)
(***************************************************************************)

(* The cells tell the next state, exploded missiles and blood go on as     *)
(* they must.                                                              *)
GoesWell ==
  /\ Told(status', drop', cells', emitted')
  /\ \A s \in Missile : GoesOn(cells.proj[s], cells'.proj[s])
  /\ \A s \in Fx : cells.fx[s].act /\ ~IsFog(cells.fx[s]) =>
       cells'.fx[s] = cells.fx[s] \/ (Part = "effects" /\ PoolSlot = s)

(* Nothing of the mobiles changes.                                         *)
LEMMA NothingGoes ==
  ASSUME MobilesInv, Told(status', drop', cells, emitted), cells' = cells, emitted' = emitted
  PROVE  GoesWell
  <1>1. stage \in Stages /\ Sound(cells)
    BY DEF MobilesInv, Told
  <1>2. \A s \in Missile : GoesOn(cells.proj[s], cells'.proj[s])
    BY <1>1, StaysOn
  <1> QED BY <1>2 DEF GoesWell

(* Some that lived die.                                                    *)
LEMMA KillTells ==
  ASSUME MobilesInv, NEW killed, killed \subseteq Live, Kill(killed)
  PROVE  /\ Tale(status', drop')
         /\ Loose(drop') = Loose(drop) \union (killed \cap Dropper)
         /\ killed \in SUBSET Monster /\ killed \cap Loose(drop) = {} /\ Loose(drop) \in SUBSET Monster
  <1>1. Tale(status, drop)
    BY DEF MobilesInv, Told
  <1>2. killed \in SUBSET Monster /\ \A m \in killed : drop[m] = 0
    BY <1>1 DEF Live, Tale
  <1>3. \A m \in Monster : /\ status'[m] = IF m \in killed THEN "dying" ELSE status[m]
                           /\ drop'[m] = IF m \in killed \cap Dropper THEN 1 ELSE drop[m]
    BY DEF Kill
  <1>4. Tale(status', drop')
    BY <1>1, <1>3 DEF Tale, Kill
  <1>5. Loose(drop') = Loose(drop) \union (killed \cap Dropper)
    BY <1>2, <1>3 DEF Loose
  <1> QED BY <1>2, <1>4, <1>5 DEF Loose

(* No missile changes, and no blood.                                       *)
LEMMA ProjStays ==
  ASSUME MobilesInv, Told(status', drop', cells', emitted'), cells'.proj = cells.proj, BloodKept(cells, cells')
  PROVE  GoesWell
  <1>1. stage \in Stages /\ Sound(cells)
    BY DEF MobilesInv, Told
  <1>2. \A s \in Missile : GoesOn(cells.proj[s], cells'.proj[s])
    BY <1>1, StaysOn
  <1> QED BY <1>2 DEF GoesWell, BloodKept

(* It says nothing but of the missiles.                                    *)
LEMMA QuietStays ==
  ASSUME NEW w, NEW x, Quiet(w), x.proj = w.proj
  PROVE  Quiet(x)
  BY DEF Quiet

(* A bullet or a claw.                                                     *)
LEMMA StrikeGoes ==
  ASSUME MobilesInv, NEW shooter, Strike(shooter)
  PROVE  GoesWell
  <1>1. PICK kind \in {"blood", "puff"}, again \in {0, 2, 3}, v \in 0 .. MaxRoll, leaf \in Leaf,
             killed \in SUBSET (Live \ {shooter}) :
          /\ Kill(killed)
          /\ cells' = WithFx(cells, kind, again, v, leaf)
          /\ emitted' = DropLinks(EmittedFx(emitted, kind, again, v, leaf), killed)
    BY DEF Strike
  <1> DEFINE w == WithFx(cells, kind, again, v, leaf)
             f == EmittedFx(emitted, kind, again, v, leaf)
             D == Loose(drop)
  <1>2. stage \in Stages /\ Sound(cells) /\ Quiet(cells) /\ Follows(cells, emitted, D)
    BY DEF MobilesInv, Told
  <1>3. killed \subseteq Live
    OBVIOUS
  <1>4. /\ Tale(status', drop') /\ Loose(drop') = D \union (killed \cap Dropper)
        /\ killed \in SUBSET Monster /\ killed \cap D = {} /\ D \in SUBSET Monster
    BY <1>1, <1>3, KillTells
  <1>5. FxMade(kind, again, v)
    BY DEF FxMade, FxKind
  <1> HIDE DEF D
  <1>6. Sound(w) /\ Follows(w, f, D)
    BY <1>2, <1>4, <1>5, FxFollows
  <1>7. w.proj = cells.proj /\ BloodKept(cells, w)
    BY <1>2, FxLeaves
  <1> HIDE DEF w, f
  <1>8. Follows(w, DropLinks(f, killed), D \union (killed \cap Dropper))
    BY <1>2, <1>4, <1>6, DropLinksFollow
  <1>9. cells' = w /\ emitted' = DropLinks(f, killed)
    BY <1>1 DEF w, f
  <1>10. Told(status', drop', cells', emitted')
    <2>1. Quiet(w)
      BY <1>2, <1>7, QuietStays
    <2> QED BY <1>4, <1>6, <1>8, <1>9, <2>1 DEF Told
  <1> QED BY <1>7, <1>9, <1>10, ProjStays

(* A missile is fired.                                                     *)
LEMMA LaunchGoes ==
  ASSUME MobilesInv, NEW kind \in MissileKind, NEW src \in Nat, src \in (IF kind = "ball" THEN Shooter ELSE {0}),
         Launch(kind, src)
  PROVE  GoesWell
  <1> DEFINE D == Loose(drop)
             S == FreeSlots(cells.proj)
  <1>1. stage \in Stages /\ Sound(cells) /\ Quiet(cells) /\ Follows(cells, emitted, D)
        /\ Told(status, drop, cells, emitted)
    BY DEF MobilesInv, Told
  <1>2. CASE S = {}
    <2>1. status' = status /\ drop' = drop /\ cells' = cells /\ emitted' = emitted
      BY <1>2 DEF Launch
    <2>2. Told(status', drop', cells, emitted)
      BY <1>1, <2>1
    <2> QED BY <2>1, <2>2, NothingGoes
  <1>3. CASE S # {}
    <2> DEFINE s == FirstOf(S)
               p == [st |-> <<kind, 0>>, src |-> src]
    <2> DEFINE Fires(leaf, v0, o, v, blast) ==
                 /\ Kill(KilledBy(p, o) \union blast)
                 /\ cells' = Launched(cells, s, kind, src, leaf, v0, o, v)
                 /\ emitted' = EmittedLaunch(emitted, s, kind, src, leaf, v0, o, KilledBy(p, o), blast, v)
    <2>0. PICK leaf \in Leaf, v0 \in 0 .. MaxRoll :
            \E o \in Meeting(p, {leaf}) : \E v \in Rolls(o), blast \in BlastKills(p, o) : Fires(leaf, v0, o, v, blast)
      BY <1>3 DEF Launch
    <2>1. PICK o \in Meeting(p, {leaf}) :
            \E v \in Rolls(o), blast \in BlastKills(p, o) : Fires(leaf, v0, o, v, blast)
      BY <2>0
    <2>2. PICK v \in Rolls(o), blast \in BlastKills(p, o) :
              /\ Kill(KilledBy(p, o) \union blast)
              /\ cells' = Launched(cells, s, kind, src, leaf, v0, o, v)
              /\ emitted' = EmittedLaunch(emitted, s, kind, src, leaf, v0, o, KilledBy(p, o), blast, v)
      BY <2>1
    <2> DEFINE killed == KilledBy(p, o)
    <2>3. s \in Missile /\ ~cells.proj[s].act
      <3>1. DOMAIN cells.proj = Missile
        BY <1>1 DEF Sound, Pools
      <3>2. S \in SUBSET (1 .. MissilePool) /\ \A x \in S : ~cells.proj[x].act
        BY <3>1 DEF FreeSlots, Missile
      <3>3. MissilePool \in Nat
        BY <1>1, StageFacts
      <3> HIDE DEF S
      <3>4. s \in S
        BY <1>3, <3>2, <3>3, FirstIs
      <3> HIDE DEF s
      <3> QED BY <3>2, <3>4 DEF Missile
    <2>4. p.st[1] = kind
      OBVIOUS
    <2> HIDE DEF p, s, S, killed
    <2>5. /\ o.at = "clear" => o.leaf = leaf /\ killed = {} /\ blast = {}
          /\ killed \subseteq Live /\ blast \subseteq Live /\ blast \cap killed = {}
          /\ kind # "rocket" => blast = {}
      BY <2>1, <2>2, <2>4, MeetingIs DEF killed
    <2>6. v \in 0 .. MaxRoll
      BY <1>1, RollsIn
    <2>7. /\ Tale(status', drop') /\ Loose(drop') = D \union ((killed \union blast) \cap Dropper)
          /\ (killed \union blast) \in SUBSET Monster /\ (killed \union blast) \cap D = {} /\ D \in SUBSET Monster
      <3>1. Kill(killed \union blast) /\ (killed \union blast) \subseteq Live
        BY <2>2, <2>5 DEF killed
      <3> QED BY <3>1, KillTells
    <2> HIDE DEF D
    <2>8. /\ killed \in SUBSET Monster /\ blast \in SUBSET Monster
          /\ killed \cap D = {} /\ blast \cap (D \union killed) = {}
      BY <2>5, <2>7
    <2> DEFINE w == Launched(cells, s, kind, src, leaf, v0, o, v)
               f == EmittedLaunch(emitted, s, kind, src, leaf, v0, o, killed, blast, v)
    <2>9. Sound(w) /\ Follows(w, f, D \union ((killed \union blast) \cap Dropper))
      BY <1>1, <2>3, <2>5, <2>6, <2>7, <2>8, LaunchFollows
    <2>10. w.fx = cells.fx /\ Quiet(w) /\ \A y \in Missile : GoesOn(cells.proj[y], w.proj[y])
      BY <1>1, <2>3, LaunchLeaves
    <2>11. cells' = w /\ emitted' = f
      BY <2>2 DEF killed
    <2> HIDE DEF w, f
    <2>12. Told(status', drop', cells', emitted')
      BY <2>7, <2>9, <2>10, <2>11 DEF Told
    <2> QED BY <2>10, <2>11, <2>12 DEF GoesWell
  <1> QED BY <1>2, <1>3

(* The player's move.                                                      *)
LEMMA PlayerMovesGoes ==
  ASSUME MobilesInv, PlayerMoves
  PROVE  GoesWell
  <1> DEFINE D == Loose(drop)
  <1>1. stage \in Stages /\ Sound(cells) /\ Quiet(cells) /\ Follows(cells, emitted, D)
        /\ Told(status, drop, cells, emitted) /\ Tale(status, drop)
    BY DEF MobilesInv, Told
  <1>2. CASE UNCHANGED <<status, drop, cells, emitted>>
    <2>1. Told(status', drop', cells, emitted)
      BY <1>1, <1>2
    <2> QED BY <1>2, <2>1, NothingGoes
  <1>3. CASE \E a, b \in Leaf, frag \in SUBSET Live :
               /\ Kill(frag) /\ cells' = Fogs(cells, a, b)
               /\ emitted' = EmittedFogs(DropLinks(emitted, frag), a, b)
    <2>1. PICK a \in Leaf, b \in Leaf, frag \in SUBSET Live :
            /\ Kill(frag) /\ cells' = Fogs(cells, a, b)
            /\ emitted' = EmittedFogs(DropLinks(emitted, frag), a, b)
      BY <1>3
    <2> DEFINE f == DropLinks(emitted, frag)
               E == D \union (frag \cap Dropper)
               w == Fogs(cells, a, b)
    <2>2. /\ Tale(status', drop') /\ Loose(drop') = E
          /\ frag \in SUBSET Monster /\ frag \cap D = {} /\ D \in SUBSET Monster
      <3>1. frag \subseteq Live /\ Kill(frag)
        BY <2>1
      <3> QED BY <3>1, KillTells
    <2> HIDE DEF D
    <2>3. Follows(cells, f, E)
      BY <1>1, <2>2, DropLinksFollow
    <2>4. E \in SUBSET Monster
      BY <1>1, <2>2, StageFacts
    <2> HIDE DEF f, E, w
    <2>5. Sound(w) /\ Follows(w, EmittedFogs(f, a, b), E)
      BY <1>1, <2>3, <2>4, FogsFollow DEF w
    <2>6. w.proj = cells.proj /\ BloodKept(cells, w)
      BY <1>1, <2>3, <2>4, FogsLeave DEF w
    <2>7. cells' = w /\ emitted' = EmittedFogs(f, a, b)
      BY <2>1 DEF w, f
    <2>8. Told(status', drop', cells', emitted')
      <3>1. Quiet(w)
        BY <1>1, <2>6, QuietStays
      <3> QED BY <2>2, <2>5, <2>7, <3>1 DEF Told
    <2> QED BY <2>6, <2>7, <2>8, ProjStays
  <1>4. CASE \E m \in Dropper :
               /\ drop[m] = 1 /\ drop' = [drop EXCEPT ![m] = 2]
               /\ emitted' = DropTake(emitted, m) /\ UNCHANGED <<status, cells>>
    <2>1. PICK m \in Dropper : /\ drop[m] = 1 /\ drop' = [drop EXCEPT ![m] = 2]
                               /\ emitted' = DropTake(emitted, m) /\ UNCHANGED <<status, cells>>
      BY <1>4
    <2>2. m \in Monster /\ D \in SUBSET Monster /\ m \in D
      BY <1>1, <2>1, StageFacts DEF Loose
    <2>3. Tale(status', drop') /\ Loose(drop') = D \ {m}
      <3>1. \A x \in Monster : drop'[x] = IF x = m THEN 2 ELSE drop[x]
        BY <1>1, <2>1 DEF Tale
      <3>2. drop' \in [Monster -> 0 .. 2]
        <4>1. drop \in [Monster -> 0 .. 2] /\ 2 \in 0 .. 2
          BY <1>1 DEF Tale
        <4> QED BY <2>1, <4>1
      <3>3. Loose(drop') = D \ {m}
        BY <3>1 DEF Loose
      <3> QED BY <1>1, <2>1, <3>1, <3>2, <3>3 DEF Tale
    <2> HIDE DEF D
    <2>4. Follows(cells, DropTake(emitted, m), D \ {m})
      BY <1>1, <2>2, DropTakeFollows
    <2>5. Told(status', drop', cells', emitted') /\ cells' = cells
      BY <1>1, <2>1, <2>3, <2>4 DEF Told
    <2> QED BY <2>5, ProjStays DEF BloodKept
  <1> QED BY <1>2, <1>3, <1>4 DEF PlayerMoves

(* The player's fire.                                                      *)
LEMMA PlayerFiresGoes ==
  ASSUME MobilesInv, PlayerFires
  PROVE  GoesWell
  <1>1. stage \in Stages /\ Told(status, drop, cells, emitted)
    BY DEF MobilesInv
  <1>2. CASE UNCHANGED <<status, drop, dead, cells, emitted, range>>
    BY <1>1, <1>2, NothingGoes
  <1>3. CASE \E kind \in PlayerMissile : Launch(kind, 0)
    <2>1. PICK kind \in PlayerMissile : Launch(kind, 0)
      BY <1>3
    <2>2. kind \in MissileKind /\ kind # "ball"
      BY <1>1, StageFacts DEF MissileKind
    <2> QED BY <2>1, <2>2, LaunchGoes
  <1>4. CASE Strike(0)
    BY <1>4, StrikeGoes
  <1> QED BY <1>2, <1>3, <1>4 DEF PlayerFires

(* One monster's turn.                                                     *)
LEMMA MonsterActsGoes ==
  ASSUME MobilesInv, MonsterActs
  PROVE  GoesWell
  <1> DEFINE D == Loose(drop)
  <1>1. stage \in Stages /\ Sound(cells) /\ Quiet(cells) /\ Follows(cells, emitted, D)
        /\ Told(status, drop, cells, emitted) /\ Tale(status, drop)
    BY DEF MobilesInv, Told
  <1>d. D \in SUBSET Monster /\ \A m \in Live : m \in Monster /\ m \notin D
    BY <1>1 DEF Loose, Live, Tale
  <1>2. CASE UNCHANGED <<status, drop, dead, cells, emitted, range>>
    <2>1. Told(status', drop', cells, emitted)
      BY <1>1, <1>2
    <2> QED BY <1>2, <2>1, NothingGoes
  <1>3. ASSUME NEW m \in Live, NEW leaf \in Leaf, cells' = Walked(cells, m, leaf),
               emitted' = EmittedMove(emitted, m, leaf), UNCHANGED <<status, drop>>
        PROVE  GoesWell
    <2> DEFINE w == Walked(cells, m, leaf)
    <2> HIDE DEF D
    <2>1. Sound(w) /\ Follows(w, EmittedMove(emitted, m, leaf), D)
      BY <1>1, <1>d, MoveFollows
    <2>2. w.proj = cells.proj /\ w.fx = cells.fx
      BY <1>1, WalkLeaves
    <2> HIDE DEF w
    <2>3. Told(status', drop', cells', emitted')
      <3>1. Quiet(w)
        BY <1>1, <2>2, QuietStays
      <3> QED BY <1>1, <1>3, <2>1, <3>1 DEF Told, D, w
    <2> QED BY <1>3, <2>2, <2>3, ProjStays DEF BloodKept, w
  <1>4. ASSUME NEW m \in Live, NEW a \in Leaf, NEW b \in Leaf, NEW leaf \in Leaf,
               cells' = Walked(Fogs(cells, a, b), m, leaf),
               emitted' = EmittedTeleport(emitted, m, leaf, a, b), UNCHANGED <<status, drop>>
        PROVE  GoesWell
    <2> DEFINE x == Fogs(cells, a, b)
               w == Walked(x, m, leaf)
    <2> HIDE DEF D
    <2>1. Sound(w) /\ Follows(w, EmittedTeleport(emitted, m, leaf, a, b), D)
      BY <1>1, <1>d, TeleportFollows
    <2>2. Sound(x) /\ x.proj = cells.proj /\ BloodKept(cells, x)
      <3>1. Sound(x)
        BY <1>1, <1>d, FogsFollow
      <3>2. x.proj = cells.proj /\ BloodKept(cells, x)
        BY <1>1, <1>d, FogsLeave
      <3> QED BY <3>1, <3>2
    <2>3. w.proj = cells.proj /\ BloodKept(cells, w)
      <3> HIDE DEF x
      <3>1. w.proj = x.proj /\ w.fx = x.fx
        BY <2>2, WalkLeaves
      <3> HIDE DEF w
      <3> QED BY <2>2, <3>1 DEF BloodKept
    <2> HIDE DEF w
    <2>4. cells' = w
      BY <1>4 DEF w
    <2>5. Told(status', drop', cells', emitted')
      <3>1. Quiet(w)
        BY <1>1, <2>3, QuietStays
      <3> QED BY <1>1, <1>4, <2>1, <2>4, <3>1 DEF Told, D
    <2> QED BY <2>3, <2>4, <2>5, ProjStays
  <1>5. CASE \E m \in Live \cap Shooter : Launch("ball", m)
    <2>1. PICK m \in Live \cap Shooter : Launch("ball", m)
      BY <1>5
    <2>2. "ball" \in MissileKind /\ m \in Shooter /\ m \in Nat
      <3>1. m \in Monster
        BY <1>d
      <3> QED BY <3>1 DEF MissileKind, Monster
    <2> QED BY <2>1, <2>2, LaunchGoes
  <1>6. CASE \E m \in Live : Strike(m)
    BY <1>6, StrikeGoes
  <1>7. CASE UNCHANGED <<status, drop, cells, emitted>>
    <2>1. Told(status', drop', cells, emitted)
      BY <1>1, <1>7
    <2> QED BY <1>7, <2>1, NothingGoes
  <1>8. CASE \E m \in Monster : /\ status[m] = "dying" /\ status' = [status EXCEPT ![m] = "fallen"]
                                /\ UNCHANGED <<drop, cells, emitted>>
    <2>1. PICK m \in Monster : /\ status[m] = "dying" /\ status' = [status EXCEPT ![m] = "fallen"]
                               /\ UNCHANGED <<drop, cells, emitted>>
      BY <1>8
    <2>2. Tale(status', drop')
      <3>1. \A x \in Monster : status'[x] = IF x = m THEN "fallen" ELSE status[x]
        BY <1>1, <2>1 DEF Tale
      <3>2. status' \in [Monster -> {"live", "dying", "fallen"}]
        BY <1>1, <2>1 DEF Tale
      <3> QED BY <1>1, <2>1, <3>1, <3>2 DEF Tale
    <2>3. Told(status', drop', cells, emitted)
      BY <1>1, <2>1, <2>2 DEF Told
    <2> QED BY <2>1, <2>3, NothingGoes
  <1>9. \/ UNCHANGED <<status, drop, dead, cells, emitted, range>>
        \/ \E m \in Live, leaf \in Leaf :
             cells' = Walked(cells, m, leaf) /\ emitted' = EmittedMove(emitted, m, leaf) /\ UNCHANGED <<status, drop>>
        \/ \E m \in Live, a, b, leaf \in Leaf :
             /\ cells' = Walked(Fogs(cells, a, b), m, leaf) /\ emitted' = EmittedTeleport(emitted, m, leaf, a, b)
             /\ UNCHANGED <<status, drop>>
        \/ \E m \in Live \cap Shooter : Launch("ball", m)
        \/ \E m \in Live : Strike(m)
        \/ UNCHANGED <<status, drop, cells, emitted>>
        \/ \E m \in Monster : /\ status[m] = "dying" /\ status' = [status EXCEPT ![m] = "fallen"]
                              /\ UNCHANGED <<drop, cells, emitted>>
    BY DEF MonsterActs
  <1> QED BY <1>2, <1>3, <1>4, <1>5, <1>6, <1>7, <1>8, <1>9

(* A missile's slot.                                                       *)
LEMMA MissileThinksGoes ==
  ASSUME MobilesInv, MissileThinks
  PROVE  GoesWell
  <1> DEFINE D == Loose(drop)
             s == PoolSlot
             p == cells.proj[s]
  <1>1. stage \in Stages /\ Sound(cells) /\ Quiet(cells) /\ Follows(cells, emitted, D)
        /\ Told(status, drop, cells, emitted) /\ step \in 1 .. Steps
    BY DEF MobilesInv, Told
  <1>2. s \in Missile
    BY <1>1, StepFacts DEF MissileThinks
  <1>3. CASE ~p.act
    <2>1. UNCHANGED <<status, drop, cells, emitted>>
      BY <1>3 DEF MissileThinks
    <2>2. Told(status', drop', cells, emitted)
      BY <1>1, <2>1
    <2> QED BY <2>1, <2>2, NothingGoes
  <1>4. CASE p.act
    <2> DEFINE clear == IF range[s] > 0 THEN Leaf ELSE {}
    <2> DEFINE Fires(o, v, blast) ==
                 /\ Kill(KilledBy(p, o) \union blast)
                 /\ cells' = Thinks(cells, s, o, v)
                 /\ emitted' = EmittedThinks(emitted, s, o, KilledBy(p, o), blast, v)
    <2>0. PICK o \in IF p.mom THEN Meeting(p, clear) ELSE {Still} :
            \E v \in Rolls(o), blast \in BlastKills(p, o) : Fires(o, v, blast)
      BY <1>4 DEF MissileThinks
    <2>1. PICK v \in Rolls(o), blast \in BlastKills(p, o) :
            /\ Kill(KilledBy(p, o) \union blast)
            /\ cells' = Thinks(cells, s, o, v)
            /\ emitted' = EmittedThinks(emitted, s, o, KilledBy(p, o), blast, v)
      BY <2>0
    <2> DEFINE killed == KilledBy(p, o)
    <2>2. o \in Meeting(p, clear) \union {Still} /\ (~p.mom => o = Still)
      BY <2>0
    <2>3. clear \subseteq Leaf
      OBVIOUS
    <2>4. Still.at = "still"
      BY DEF Still
    <2> HIDE DEF killed, clear, p, s
    <2>5. /\ o.at = "clear" => o.leaf \in clear
          /\ killed \subseteq Live /\ blast \subseteq Live /\ blast \cap killed = {}
          /\ o.at \in {"clear", "still"} => killed = {} /\ blast = {}
          /\ p.st[1] # "rocket" => blast = {}
      BY <2>1, <2>2, MeetingIs DEF killed
    <2>6. v \in 0 .. MaxRoll
      BY <1>1, RollsIn
    <2>7. /\ Tale(status', drop') /\ Loose(drop') = D \union ((killed \union blast) \cap Dropper)
          /\ (killed \union blast) \in SUBSET Monster /\ (killed \union blast) \cap D = {} /\ D \in SUBSET Monster
      <3>1. Kill(killed \union blast) /\ (killed \union blast) \subseteq Live
        BY <2>1, <2>5 DEF killed
      <3> QED BY <3>1, KillTells
    <2> HIDE DEF D
    <2>8. MayKill(cells, s, o, killed, blast, D)
      BY <2>3, <2>5, <2>7 DEF MayKill, p
    <2>9. ~p.mom => killed = {} /\ blast = {}
      BY <2>2, <2>4, <2>5
    <2> DEFINE w == Thinks(cells, s, o, v)
               f == EmittedThinks(emitted, s, o, killed, blast, v)
    <2>10. Sound(w) /\ Follows(w, f, D \union ((killed \union blast) \cap Dropper))
      BY <1>1, <1>2, <1>4, <2>6, <2>7, <2>8, <2>9, ThinksFollows DEF p
    <2>11. Sound(TryMade(cells, s, o, v)) /\ TryMade(cells, s, o, v).proj[s].act
      <3>1. CASE o.at = "clear"
        <4>1. o.leaf \in Leaf
          BY <2>3, <2>5, <3>1
        <4> DEFINE leaf == o.leaf
                   g == [emitted EXCEPT !.win = WindowOf(MissileThing(s), cells.proj[s])]
        <4> HIDE DEF leaf
        <4>2. g = [emitted EXCEPT !.win = WindowOf(MissileThing(s), cells.proj[s])]
          OBVIOUS
        <4> HIDE DEF g
        <4>3. Mid(cells, g, s, D)
          BY <1>1, <1>2, <2>7, <4>2, MidIn
        <4>4. Sound(TryMade(cells, s, o, v)) /\ TryMade(cells, s, o, v).proj[s].act
          BY <1>1, <1>2, <1>4, <2>6, <2>7, <2>8, <4>3, MidTry DEF p
        <4> QED BY <4>4
      <3>2. CASE o.at # "clear"
        <4> DEFINE g == [emitted EXCEPT !.win = WindowOf(MissileThing(s), cells.proj[s])]
        <4>2. g = [emitted EXCEPT !.win = WindowOf(MissileThing(s), cells.proj[s])]
          OBVIOUS
        <4> HIDE DEF g
        <4>3. Mid(cells, g, s, D)
          BY <1>1, <1>2, <2>7, <4>2, MidIn
        <4>4. Sound(TryMade(cells, s, o, v)) /\ TryMade(cells, s, o, v).proj[s].act
          BY <1>1, <1>2, <1>4, <2>6, <2>7, <2>8, <4>3, MidTry DEF p
        <4> QED BY <4>4
      <3> QED BY <3>1, <3>2
    <2>12. w.fx = cells.fx /\ Quiet(w) /\ \A y \in Missile : GoesOn(cells.proj[y], w.proj[y])
      <3>1. o.at = "clear" => o.leaf \in Leaf
        BY <2>3, <2>5
      <3> QED BY <1>1, <1>2, <1>4, <2>6, <2>11, <3>1, ThinksLeaves DEF p
    <2>13. cells' = w /\ emitted' = f
      BY <2>1 DEF killed
    <2> HIDE DEF w, f
    <2>14. Told(status', drop', cells', emitted')
      BY <2>7, <2>10, <2>12, <2>13 DEF Told
    <2> QED BY <2>12, <2>13, <2>14 DEF GoesWell
  <1> QED BY <1>3, <1>4

(* An effect's slot.                                                       *)
LEMMA EffectTicsGoes ==
  ASSUME MobilesInv, EffectTics
  PROVE  GoesWell
  <1> DEFINE D == Loose(drop)
             s == PoolSlot
  <1>1. stage \in Stages /\ Sound(cells) /\ Quiet(cells) /\ Follows(cells, emitted, D)
        /\ Told(status, drop, cells, emitted) /\ step \in 1 .. Steps /\ Tale(status, drop)
    BY DEF MobilesInv, Told
  <1>2. s \in Fx /\ Part = "effects"
    BY <1>1, StepFacts DEF EffectTics
  <1>3. D \in SUBSET Monster
    BY DEF Loose
  <1>4. CASE ~cells.fx[s].act
    <2>1. UNCHANGED <<status, drop, cells, emitted>>
      BY <1>4 DEF EffectTics
    <2>2. Told(status', drop', cells, emitted)
      BY <1>1, <2>1
    <2> QED BY <2>1, <2>2, NothingGoes
  <1>5. CASE cells.fx[s].act
    <2> DEFINE w == FxTic(cells, s)
               f == EmittedFxTic(emitted, s)
    <2>1. cells' = w /\ emitted' = f /\ status' = status /\ drop' = drop
      BY <1>5 DEF EffectTics
    <2> HIDE DEF s, D
    <2>2. Sound(w) /\ Follows(w, f, D)
      BY <1>1, <1>2, <1>3, <1>5, FxTicFollows
    <2>3. w.proj = cells.proj /\ \A x \in Fx : x # s => w.fx[x] = cells.fx[x]
      BY <1>1, <1>2, <1>5, FxTicLeaves
    <2> HIDE DEF w, f
    <2>4. Told(status', drop', cells', emitted')
      <3>1. Quiet(w)
        BY <1>1, <2>3, QuietStays
      <3> QED BY <1>1, <2>1, <2>2, <3>1 DEF Told, D
    <2>5. \A y \in Missile : GoesOn(cells.proj[y], cells'.proj[y])
      BY <1>1, <2>1, <2>3, StaysOn
    <2> QED BY <1>2, <2>1, <2>3, <2>4, <2>5 DEF GoesWell, s
  <1> QED BY <1>4, <1>5

(* The frame's tail.                                                       *)
LEMMA FrameTailGoes ==
  ASSUME MobilesInv, FrameTail
  PROVE  GoesWell
  <1> DEFINE D == Loose(drop)
  <1>1. /\ stage \in Stages /\ Sound(cells) /\ Quiet(cells)
        /\ Follows(cells, emitted, D) /\ Tale(status, drop)
    BY DEF MobilesInv, Told
  <1>2. emitted' = [emitted EXCEPT !.win = Scratch, !.ptss = 0] /\ UNCHANGED <<status, drop, cells>>
    BY DEF FrameTail
  <1>3. Follows(cells, emitted', D)
    BY <1>1, <1>2, TailFollows
  <1>4. Told(status', drop', cells', emitted')
    BY <1>1, <1>2, <1>3 DEF Told
  <1> QED BY <1>2, <1>4, ProjStays DEF BloodKept

(* Every part of a frame goes well.                                        *)
LEMMA FrameGoes ==
  ASSUME MobilesInv, MobilesFrame
  PROVE  GoesWell /\ stage' = stage /\ step' \in 1 .. Steps
  <1>1. GoesWell
    BY PlayerMovesGoes, PlayerFiresGoes, MonsterActsGoes, MissileThinksGoes, EffectTicsGoes, FrameTailGoes
       DEF MobilesFrame
  <1>2. StepOn
    BY DEF MobilesFrame, PlayerMoves, PlayerFires, MonsterActs, MissileThinks, EffectTics, FrameTail
  <1>3. stage \in Stages /\ step \in 1 .. Steps
    BY DEF MobilesInv
  <1> QED BY <1>1, <1>2, <1>3, StepFacts DEF StepOn

(***************************************************************************)
(* The theorems                                                            *)
(***************************************************************************)

(* The level's numbers stay.                                               *)
LEMMA StageStays ==
  ASSUME stage' = stage
  PROVE  /\ Leaf' = Leaf /\ Walkers' = Walkers /\ MissilePool' = MissilePool /\ FxPool' = FxPool
         /\ Monster' = Monster /\ Missile' = Missile /\ Fx' = Fx /\ Thing' = Thing /\ Things' = Things
         /\ PassLen' = PassLen /\ Steps' = Steps
         /\ MissileCells' = MissileCells /\ FxCells' = FxCells
  BY DEF Leaf, Walkers, MissilePool, FxPool, Monster, Missile, Fx, Thing, Things, PassLen, Steps,
         MissileCells, FxCells, MissileKind, PlayerMissile, Run, Tics, FlightTics, BurstTics, Shooter

(* The invariant of the next state, part by part.                          *)
LEMMA InvNext ==
  ASSUME stage \in Stages, stage' = stage, step' \in 1 .. Steps, Told(status', drop', cells', emitted')
  PROVE  MobilesInv'
  <1>1. /\ Tale(status', drop') /\ Sound(cells')
        /\ Quiet(cells') /\ Follows(cells', emitted', Loose(drop'))
    BY DEF Told
  <1>2. Tale(status, drop)'
    BY <1>1, StageStays DEF Tale
  <1>3. Quiet(cells)'
    BY <1>1, StageStays DEF Quiet
  <1>4. Loose(drop)' = Loose(drop')
    BY StageStays DEF Loose
  <1>5. RowOf(cells, {})' = RowOf(cells', {}) /\ RowOf(cells, Loose(drop))' = RowOf(cells', Loose(drop'))
    BY <1>4, StageStays DEF RowOf, Row
  <1>6. Sound(cells)'
    BY <1>1, <1>5, StageStays DEF Sound, Pools
  <1>7. PjOf(cells.proj)' = PjOf(cells'.proj) /\ FxOf(cells.fx)' = FxOf(cells'.fx)
    BY StageStays DEF PjOf, FxOf
  <1>8. Follows(cells, emitted, Loose(drop))'
    BY <1>1, <1>4, <1>5, <1>7, StageStays DEF Follows
  <1> QED BY <1>2, <1>3, <1>6, <1>8, StageStays DEF MobilesInv, Told

(* Every step keeps the invariant.                                         *)
LEMMA InvKept ==
  ASSUME MobilesInv, MobilesNext
  PROVE  MobilesInv'
  <1>1. stage \in Stages /\ step \in 1 .. Steps
    BY DEF MobilesInv
  <1>2. CASE MobilesFrame
    BY <1>1, <1>2, FrameGoes, InvNext DEF GoesWell
  <1>3. CASE MobilesRestart
    <2>1. Told(status', drop', cells', emitted') /\ stage' = stage /\ step' = step
      BY <1>1, <1>3, StartTold DEF MobilesRestart
    <2> QED BY <1>1, <2>1, InvNext
  <1> QED BY <1>2, <1>3 DEF MobilesNext

(* It holds at the start.                                                  *)
LEMMA InvStarts ==
  ASSUME MobilesInit
  PROVE  MobilesInv
  <1>1. stage \in Stages /\ step = 1
    BY DEF MobilesInit
  <1>2. Told(status, drop, cells, emitted)
    BY <1>1, StartTold DEF MobilesInit
  <1>3. step \in 1 .. Steps
    <2> DEFINE mt == stage.monsterTics
               pl == PassLen
    <2>1. mt \in Nat /\ pl \in Nat
      BY <1>1, StageFacts DEF PassLen
    <2>2. Steps = 3 + mt * pl
      BY DEF Steps
    <2> HIDE DEF mt, pl
    <2>3. mt * pl \in Nat
      BY <2>1
    <2> QED BY <1>1, <2>2, <2>3
  <1> QED BY <1>1, <1>2, <1>3 DEF MobilesInv

(* The inductive invariant of the mobiles' specification.                  *)
THEOREM MobilesKeep == MobilesSpec => []MobilesInv
  <1>1. MobilesInit => MobilesInv
    BY InvStarts
  <1>2. MobilesInv /\ [MobilesNext]_mobiles => MobilesInv'
    <2>1. CASE MobilesNext
      BY <2>1, InvKept
    <2>2. ASSUME MobilesInv, UNCHANGED mobiles PROVE MobilesInv'
      <3>1. /\ stage' = stage /\ step' = step /\ status' = status
            /\ drop' = drop /\ cells' = cells /\ emitted' = emitted
        BY <2>2 DEF mobiles
      <3>2. stage \in Stages /\ step \in 1 .. Steps /\ Told(status, drop, cells, emitted)
        BY <2>2 DEF MobilesInv
      <3>3. Told(status', drop', cells', emitted')
        BY <3>1, <3>2
      <3> QED BY <3>1, <3>2, <3>3, InvNext
    <2> QED BY <2>1, <2>2
  <1> QED BY <1>1, <1>2, PTL DEF MobilesSpec

(* The emitted pools, rows, drops and lists, worked through the one        *)
(* window, tell of the same level as the model's, and every leaf's list is *)
(* what a rebuild from the positions gives, whatever the frames bring: for *)
(* any number of monsters, slots and leaves.                               *)
THEOREM MobilesFollow == MobilesSpec => []CellsAreModel
  <1>1. MobilesInv => CellsAreModel
    BY InvTells
  <1> QED BY <1>1, MobilesKeep, PTL

(* A missile that has exploded only goes on dying, and its slot is not     *)
(* taken before it is gone (_explode, _projectiles_phase); only a fog is   *)
(* ever put out of its slot (_spawn_fx's "A FOG YIELDS").                  *)
THEOREM NothingComesBack == MobilesSpec => [][DiesOnce /\ BloodStays]_mobiles
  <1>1. MobilesInv /\ [MobilesNext]_mobiles => [DiesOnce /\ BloodStays]_mobiles
    <2> SUFFICES ASSUME MobilesInv, MobilesNext PROVE DiesOnce /\ BloodStays
      OBVIOUS
    <2>1. CASE MobilesFrame
      BY <2>1, FrameGoes DEF GoesWell, GoesOn, DiesOnce, BloodStays
    <2>2. CASE MobilesRestart
      <3>1. \A s \in Missile : cells'.proj[s] = FreeMissile
        BY <2>2 DEF MobilesRestart, StartCells
      <3>2. step = 1 /\ step' = 1
        BY <2>2 DEF MobilesRestart
      <3> QED BY <3>1, <3>2 DEF DiesOnce, BloodStays
    <2> QED BY <2>1, <2>2 DEF MobilesNext
  <1> QED BY <1>1, MobilesKeep, PTL DEF MobilesSpec
=============================================================================
