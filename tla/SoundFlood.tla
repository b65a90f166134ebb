----------------------------- MODULE SoundFlood -----------------------------
(***************************************************************************)
(* The noise of the player's shots (P_NoiseAlert): how World.__init__      *)
(* folds sectors into sound nodes, World.noise_alert's flood over them,    *)
(* and the emitted one of noisecode, a pass over the edges at a time.  The *)
(* map is any on the sectors given; doors raise their ceiling, lifts their *)
(* floor, pits lower theirs.                                               *)
(***************************************************************************)
EXTENDS Integers, FiniteSets, SequencesExt

CONSTANTS
  Still,               (* the sectors that never move                      *)
  Doors, Lifts, Pits,  (* the dynamic ones, each with a state cell          *)
  States,              (* the states of a cell: 0 .. States - 1             *)
  Rooms,               (* what still sectors are: "low", "high" or "tall"   *)
  Kinds                (* what lines are: "wall", "plain" or "marked"       *)

Dynamic == Doors \union Lifts \union Pits
Sector  == Still \union Dynamic
State   == 0 .. States - 1

SoundFloodAssumption ==
  /\ Sector \subseteq Nat /\ IsFiniteSet(Sector)
  /\ Cardinality(Sector) =
       Cardinality(Still) + Cardinality(Doors) + Cardinality(Lifts) + Cardinality(Pits)
  /\ States \in 2 .. 16
  /\ Rooms \subseteq {"low", "high", "tall"}
  /\ Kinds \subseteq {"wall", "plain", "marked"}

VARIABLES
  map,          (* what World.__init__ and the emitter made of the level    *)
  cell,         (* each sector's state cell, 0 if it has none               *)
  snd_alert,    (* the nodes that heard a shot since the level start: model *)
  fj,           (* the emitted snd_alert, nz_r, nz_z and nz_ch               *)
  pc,           (* "idle", or "flood" while the emitted flood runs          *)
  passes        (* the pass of this flood that runs next, up to one too many *)

vars == <<map, cell, snd_alert, fj, pc, passes>>

(***************************************************************************)
(* Heights and openings.                                                   *)
(***************************************************************************)
StillHeights ==
  {h \in {<<-1, 0>>, <<0, 1>>, <<-1, 1>>} :
     \E r \in Rooms : h = CASE r = "low" -> <<-1, 0>> [] r = "high" -> <<0, 1>>
                            [] r = "tall" -> <<-1, 1>>}

Rank(h) == 3 * h[1] + h[2]   (* still sectors are taken in this order *)

(* floor and ceiling of each sector by its cell's state                    *)
HeightsOf(still) ==
  [s \in Sector |-> [k \in State |->
     CASE s \in Doors -> <<0, k>>
       [] s \in Lifts -> <<k, 1>>
       [] s \in Pits  -> <<-k, 1>>
       [] OTHER       -> still[s]]]

Lower(a, b)  == IF a < b THEN a ELSE b
Higher(a, b) == IF a < b THEN b ELSE a
Opening(h, g) == <<Lower(h[2], g[2]), Higher(h[1], g[1])>>
Joins(o)      == o[1] - o[2] > 0

(* a two-sided line's pair of sectors, lesser first                        *)
Pairs == {p \in Sector \X Sector : p[1] < p[2]}

OpenAt(hts, p, i, j) == Joins(Opening(hts[p[1]][i], hts[p[2]][j]))
OpenNow(p) == OpenAt(map.hts, p, cell[p[1]], cell[p[2]])

(***************************************************************************)
(* What a level becomes: its nodes and the lines kept between them.        *)
(***************************************************************************)
Moving(p) == p[1] \in Dynamic \/ p[2] \in Dynamic

Spread(S, lines)   == S \union {s \in Sector : \E p \in lines : {s} = {p[1], p[2]} \ S}
Connected(S, lines) == FoldLeft(LAMBDA T, i : Spread(T, lines), S, [i \in 1 .. Cardinality(Sector) |-> i])
Least(S)           == CHOOSE t \in S : \A u \in S : t <= u

(* The node of a sector: a dynamic one is its own; the still ones that     *)
(* unmarked open lines join are one, named by its least sector.            *)
NodeOf(lines, hts) ==
  LET joined == {p \in Pairs : lines[p] = "plain" /\ ~Moving(p) /\ OpenAt(hts, p, 0, 0)}
  IN [s \in Sector |-> Least(Connected({s}, joined))]

(* The state cell a dynamic pair's opening is read through (line_states):  *)
(* its dynamic side, or of two the one the opening depends on; 0 when it   *)
(* needs both, which the emitter refuses.                                  *)
CellOf(hts, p) ==
  LET o(i, j) == Opening(hts[p[1]][i], hts[p[2]][j])
  IN IF ~(p[2] \in Dynamic) THEN p[1]
     ELSE IF ~(p[1] \in Dynamic) THEN p[2]
     ELSE IF \A i, j \in State : o(i, j) = o(i, 0) THEN p[1]
     ELSE IF \A i, j \in State : o(i, j) = o(0, j) THEN p[2]
     ELSE IF (\A i, j \in State : Joins(o(i, j))) \/ (\A i, j \in State : ~Joins(o(i, j)))
          THEN p[1]
     ELSE 0

Mask(hts, p, c) == {k \in State : IF c = p[1] THEN OpenAt(hts, p, k, 0)
                                              ELSE OpenAt(hts, p, 0, k)}

InOrder(S) ==
  SetToSortSeq(S, LAMBDA e, f : e.a < f.a \/ (e.a = f.a /\ e.b < f.b))

(* _dyn_edges: one edge a pair of nodes, open at the states of any of its  *)
(* lines; one never open is dropped.                                       *)
DynEdges(node, hts, pairs) ==
  LET Ends(p) == {node[p[1]], node[p[2]]}
      Edge(n) == LET ps == {p \in pairs : Ends(p) = n}
                     c  == CellOf(hts, CHOOSE p \in ps : TRUE)
                 IN [a |-> CHOOSE x \in n : \A y \in n : x <= y,
                     b |-> CHOOSE x \in n : \A y \in n : x >= y,
                     cell |-> c, mask |-> UNION {Mask(hts, p, c) : p \in ps}]
  IN InOrder({e \in {Edge(Ends(p)) : p \in pairs} : e.mask # {}})

(* the marked still lines between different nodes, always open             *)
StaticBlock(node, hts, lines) ==
  InOrder({[a |-> Lower(node[p[1]], node[p[2]]), b |-> Higher(node[p[1]], node[p[2]]),
            cell |-> 0, mask |-> State] :
             p \in {q \in Pairs : /\ lines[q] = "marked" /\ ~Moving(q) /\ OpenAt(hts, q, 0, 0)
                                  /\ node[q[1]] # node[q[2]]}})

Folded(lines, hts) ==
  LET node  == NodeOf(lines, hts)
      Through(kind) == {p \in Pairs : lines[p] = kind /\ Moving(p)}
  IN [lines |-> lines, hts |-> hts, node |-> node,
      door  |-> Through("plain"), bdoor |-> Through("marked"),
      static |-> StaticBlock(node, hts, lines),
      edges |-> DynEdges(node, hts, Through("plain")),
      blk   |-> DynEdges(node, hts, Through("marked")) \o StaticBlock(node, hts, lines)]

(* A level the emitter takes: each moving line is read through one cell,   *)
(* and so is each edge.                                                    *)
Takes(lines, hts) ==
  \A p \in Pairs : Moving(p) /\ lines[p] # "wall" => CellOf(hts, p) # 0

(***************************************************************************)
(* World.noise_alert: `plain` the nodes its `blocks` has at no marked line, *)
(* `all` those it has at one at most.                                      *)
(***************************************************************************)
Nodes == {map.node[s] : s \in Sector}

(* The nodes an open line of `pairs` joins to one of S, with S.            *)
Across(S, pairs) ==
  S \union UNION {e \in {{map.node[p[1]], map.node[p[2]]} : p \in {q \in pairs : OpenNow(q)}} :
                 e \intersect S # {}}

AcrossStatic(S) == S \union UNION {e \in {{f.a, f.b} : f \in ToSet(map.static)} : e \intersect S # {}}

(* Slip: the block cost is not added up, so a second marked line passes.   *)
RelaxedFree(blocks) ==
  [plain |-> Across(blocks.plain, map.door),
   all   |-> Across(blocks.all, map.door) \union Across(blocks.all, map.bdoor) \union AcrossStatic(blocks.all)]

(* One turn of the loop: every line carries a lower count both ways.  The  *)
(* order it takes them in does not change what it ends with.               *)
Relaxed(blocks) ==
  [plain |-> Across(blocks.plain, map.door),
   all   |-> Across(blocks.all, map.door) \union Across(blocks.plain, map.bdoor) \union AcrossStatic(blocks.plain)]

(* `while changed`: a node's count falls twice at most.                    *)
NoiseAlert(s) ==
  FoldLeft(LAMBDA blocks, i : Relaxed(blocks), [plain |-> {map.node[s]}, all |-> {map.node[s]}],
           [i \in 1 .. 2 * Cardinality(Nodes) |-> i])

(***************************************************************************)
(* The emitted flood: nz_r the nodes reached, nz_z those reached across no *)
(* marked line, nz_ch whether this pass changed one.                       *)
(***************************************************************************)
Open(e) == e.cell = 0 \/ cell[e.cell] \in e.mask

One(e, set) == Cardinality({e.a, e.b} \intersect set) = 1

(* nz_e<j> of the one-level flood, a map with no marked line               *)
FloodEdge(s, e) ==
  IF One(e, s.nz_r) /\ Open(e) THEN [s EXCEPT !.nz_r = @ \union {e.a, e.b}, !.nz_ch = 1] ELSE s

(* nz_e<j> of the two-level one                                            *)
PlainEdge(s, e) ==
  IF {e.a, e.b} \intersect s.nz_z = {} THEN FloodEdge(s, e)
  ELSE IF One(e, s.nz_z) /\ Open(e)
       THEN [s EXCEPT !.nz_z = @ \union {e.a, e.b}, !.nz_r = @ \union {e.a, e.b}, !.nz_ch = 1]
       ELSE s

(* nz_b<j>                                                                 *)
BlockEdge(s, e) ==
  IF One(e, s.nz_z) /\ One(e, s.nz_r) /\ Open(e)
  THEN [s EXCEPT !.nz_r = @ \union {e.a, e.b}, !.nz_ch = 1] ELSE s

Seed(s) ==
  [fj EXCEPT !.nz_r = {map.node[s]},
             !.nz_z = IF map.blk = <<>> THEN {} ELSE {map.node[s]}]

NzPass ==
  LET quiet == [fj EXCEPT !.nz_ch = 0]
  IN IF map.blk = <<>> THEN FoldLeft(FloodEdge, quiet, map.edges)
     ELSE FoldLeft(BlockEdge, FoldLeft(PlainEdge, quiet, map.edges), map.blk)

(***************************************************************************)
(* The steps.                                                              *)
(***************************************************************************)
(* a door, lift or pit moves on; the machine that moves it is elsewhere    *)
Shift ==
  /\ pc = "idle"
  /\ \E d \in Dynamic, k \in State : cell[d] # k /\ cell' = [cell EXCEPT ![d] = k]
  /\ UNCHANGED <<map, snd_alert, fj, pc, passes>>

(* the weapon fires with the player in sector s; nz_leaf is called         *)
Shot(s) ==
  /\ pc = "idle"
  /\ snd_alert' = snd_alert \union NoiseAlert(s).all
  /\ fj' = Seed(s)
  /\ pc' = "flood" /\ passes' = 1
  /\ UNCHANGED <<map, cell>>

Pass ==
  /\ pc = "flood"
  /\ fj' = LET s == NzPass
           IN IF s.nz_ch = 1 THEN s ELSE [s EXCEPT !.snd_alert = @ \union s.nz_r]
  /\ IF fj'.nz_ch = 1 THEN passes' = Lower(passes + 1, 2 * Cardinality(Nodes) + 1) /\ UNCHANGED pc
                      ELSE passes' = 0 /\ pc' = "idle"
  /\ UNCHANGED <<map, cell, snd_alert>>

(* NEW GAME, from idle: noise_restart_lines; the doors are back shut       *)
Restart ==
  /\ pc = "idle"
  /\ cell' = [s \in Sector |-> 0]
  /\ snd_alert' = {} /\ fj' = [fj EXCEPT !.snd_alert = {}]
  /\ UNCHANGED <<map, pc, passes>>

Init ==
  /\ \E lines \in [Pairs -> Kinds], still \in [Still -> StillHeights] :
       /\ \A s, t \in Still : s < t => Rank(still[s]) <= Rank(still[t])
       /\ LET hts == HeightsOf(still) IN Takes(lines, hts) /\ map = Folded(lines, hts)
  /\ cell = [s \in Sector |-> 0]
  /\ snd_alert = {}
  /\ fj = [snd_alert |-> {}, nz_r |-> {}, nz_z |-> {}, nz_ch |-> 0]
  /\ pc = "idle" /\ passes = 0

Shoot == \E s \in Sector : Shot(s)
Next  == Shift \/ Shoot \/ Pass \/ Restart

Spec == Init /\ [][Next]_vars

(***************************************************************************)
(* What a shot must reach, on the sectors themselves: P_RecursiveSound     *)
(* passes open lines, at most one of them marked.                          *)
(***************************************************************************)
InEarshot(s) ==
  LET OpenLines(kind) == {p \in Pairs : map.lines[p] = kind /\ OpenNow(p)}
  IN Connected(Spread(Connected({s}, OpenLines("plain")), OpenLines("marked")),
               OpenLines("plain"))

HeardIn(nodes) == {s \in Sector : map.node[s] \in nodes}

(***************************************************************************)
(* Properties.                                                             *)
(***************************************************************************)
(* The reached sets hold nodes, and nothing is at no marked line from the  *)
(* shot without being reached at all (nz_z is inside nz_r).                *)
TypeOK ==
  /\ cell \in [Sector -> State] /\ \A s \in Still : cell[s] = 0
  /\ snd_alert \subseteq Nodes
  /\ fj.snd_alert \subseteq Nodes /\ fj.nz_r \subseteq Nodes /\ fj.nz_z \subseteq fj.nz_r
  /\ fj.nz_ch \in {0, 1} /\ pc \in {"idle", "flood"} /\ passes \in Nat

(* Once its flood is over, the emitted program has alerted the nodes the   *)
(* model has (noisecode's passes, masks and two sets against noise_alert). *)
BinaryIsModel == pc = "idle" => fj.snd_alert = snd_alert

(* A shot is heard in exactly the sectors P_RecursiveSound would reach     *)
(* through the openings of this tic, crossing one marked line at most, on  *)
(* top of those that heard an earlier one, whichever sector of the seeded  *)
(* node it was fired in: neither the folding of sectors into nodes nor an  *)
(* old alert changes that.                                                 *)
HeardIsEarshot ==
  pc = "idle" /\ pc' = "flood" =>
    \A s \in HeardIn(fj'.nz_r) : HeardIn(snd_alert') = HeardIn(snd_alert) \union InEarshot(s)

(* Every flood ends: it takes at most twice as many passes as the level    *)
(* has nodes.                                                              *)
PassesBounded == passes <= 2 * Cardinality(Nodes)
=============================================================================
