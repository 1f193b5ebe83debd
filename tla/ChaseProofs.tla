----------------------------- MODULE ChaseProofs -----------------------------
(***************************************************************************)
(* Proofs about the chase, for every board of two cells a side and more,   *)
(* any starts, quota, thresholds and brain settings, on both paths: the    *)
(* cop never walls itself in, a thief is boxed in only by a wall built in  *)
(* that very turn, no thief plays on inside a wall; a trail sampled in     *)
(* time is read back without error, every sample is as old as was agreed,  *)
(* and every field is explained by the cells its owner trod.               *)
(***************************************************************************)
EXTENDS ChaseProperties, TLAPS, FiniteSetTheorems, WellFoundedInduction

-----------------------------------------------------------------------------
(* The inductive invariant. *)

Places == {"decide", "sealed", "revealed", "applied", "heard", "over"}

Plans == [aim : Cells, wall : Cells \cup {None}]

Typed ==
    /\ path \in {"harness", "wire"}
    /\ pc \in [Sides -> Places]
    /\ at \in [Sides -> Cells]
    /\ walls \in [Sides -> SUBSET Cells]
    /\ step \in [Sides -> Nat]
    /\ plan \in [Sides -> Plans]
    /\ outcome \in [Sides -> {"capture", "survival", None}]

\* The turns of the two sides.  On the wire a side may be one turn ahead, but it
\* reveals only to a side that has sealed and applies only what both revealed.
Abreast ==
    \/ pc["cop"] = "decide" /\ pc["thief"] = "decide"
    \/ pc["cop"] = "applied" /\ pc["thief"] \in {"decide", "applied"}
    \/ pc["cop"] = pc["thief"] /\ pc["cop"] \in {"heard", "over"}

Ahead(m, a, n, b) ==
    /\ m = n + 1
    /\ a \in {"decide", "sealed", "over"}
    /\ b \in {"revealed", "applied", "heard"}

Level(a, b) ==
    /\ a \in {"applied", "heard"} => b \in {"revealed", "applied", "heard"}
    /\ a = "revealed" => b \notin {"decide", "over"}

\* One side is at a after m turns, the other at b after n.
Turns(m, a, n, b) ==
    \/ Ahead(m, a, n, b)
    \/ Ahead(n, b, m, a)
    \/ m = n /\ Level(a, b) /\ Level(b, a)

InStep ==
    /\ path = "harness" => Abreast
    /\ path = "wire" => Turns(step["cop"], pc["cop"], step["thief"], pc["thief"])

Committed == {"sealed", "revealed"}

\* What the cop may have in mind, standing on c: a step, or a wall that leaves it one.
Sound(d, c, known) ==
    IF d.wall = None THEN d.aim \in LegalMoves(c, known)
    ELSE /\ d.wall \in Steps(c, known)
         /\ HasEscape(c, known \cup {d.wall})
         /\ BarriersLeft(known) > 0

\* The thief builds nothing, so the cop's walls are its own.
CopIsFree ==
    /\ plan["thief"].wall = None
    /\ Cardinality(walls["cop"]) <= MaxBarriers
    /\ CopStaysFree
    /\ pc["cop"] \in Committed => Sound(plan["cop"], at["cop"], walls["cop"])

\* The cop's wall of the turn the thief is in has not come yet.
NotYet ==
    /\ path = "wire"
    /\ \/ step["cop"] = step["thief"] /\ pc["cop"] \in {"decide", "sealed"}
       \/ step["cop"] < step["thief"]

\* Where the thief will be, on its own board.
Heading == SettleMove(at["thief"], plan["thief"].aim, walls["thief"])

\* Unless a wall came in this turn, the thief can leave the cell it decides, plans
\* and ends its turn on.
ThiefIsFree ==
    /\ pc["thief"] = "decide" => \/ ~BoxedIn
                                 \/ path = "harness" /\ pc["cop"] = "applied" /\ landed # None
    /\ pc["thief"] \in Committed /\ (NotYet \/ landed = None)
         => HasEscape(Heading, walls["thief"])
    /\ BoxedInByAWall

\* A thief that was not caught has no wall on its cell, nor on the one it is going to.
ThiefIsInTheOpen ==
    /\ NobodyPlaysOnInAWall
    /\ pc["thief"] \in Committed /\ ~caught =>
         /\ Heading \notin walls["thief"]
         /\ NotYet => at["thief"] \notin walls["thief"] /\ plan["thief"].aim \notin walls["thief"]

Inv == Typed /\ InStep /\ CopIsFree /\ ThiefIsFree /\ ThiefIsInTheOpen

-----------------------------------------------------------------------------
(* The board. *)

LEMMA CellsArePairs ==
    \A c \in Cells : c[1] \in Int /\ c[2] \in Int
BY BoardAssumption DEF Cells

LEMMA AdjacentEitherWay ==
    ASSUME NEW c \in Cells, NEW d \in Cells, Adjacent(c, d)
    PROVE  Adjacent(d, c) /\ c # d
<1>1. c[1] \in Int /\ c[2] \in Int /\ d[1] \in Int /\ d[2] \in Int
  BY CellsArePairs
<1>2. Distance(c[1], d[1]) = Distance(d[1], c[1]) /\ Distance(c[2], d[2]) = Distance(d[2], c[2])
  BY <1>1 DEF Distance
<1>3. \A i \in Int : Distance(i, i) = 0
  BY DEF Distance
<1> QED BY <1>1, <1>2, <1>3 DEF Adjacent

LEMMA StepsAreCells ==
    ASSUME NEW c \in Cells, NEW known
    PROVE  /\ Steps(c, known) \subseteq Cells /\ LegalMoves(c, known) \subseteq Cells
           /\ \A d \in Steps(c, known) : d # c /\ d \notin known
BY AdjacentEitherWay DEF Steps, LegalMoves, Passable

\* Who has just stepped off a free cell can step back.
LEMMA WayBack ==
    ASSUME NEW c \in Cells, NEW known, c \notin known, NEW d \in LegalMoves(c, known),
           HasEscape(c, known)
    PROVE  d \notin known /\ HasEscape(d, known)
<1>1. CASE d = c
  BY <1>1
<1>2. CASE d \in Steps(c, known)
  <2>1. d \in Cells /\ d \notin known /\ Adjacent(c, d)
    BY <1>2 DEF Steps, Passable
  <2>2. c \in Steps(d, known)
    BY <2>1, AdjacentEitherWay DEF Steps, Passable
  <2> QED BY <2>1, <2>2 DEF HasEscape
<1> QED BY <1>1, <1>2 DEF LegalMoves

\* Two cells a side: on a board without walls there is a step from every cell.
LEMMA OpenBoard ==
    ASSUME NEW c \in Cells
    PROVE  HasEscape(c, {})
<1>1. c[1] \in 0 .. GridSize - 1 /\ c[2] \in 0 .. GridSize - 1 /\ c = <<c[1], c[2]>>
  BY DEF Cells
<1>2. \A x, y \in Int : y = x + 1 \/ x = y + 1 => Distance(x, y) = 1
  BY DEF Distance
<1>3. \A x \in Int : Distance(x, x) = 0
  BY DEF Distance
<1>4. CASE c[1] = 0
  <2> DEFINE d == <<1, c[2]>>
  <2>1. d \in Cells /\ d[1] = 1 /\ d[2] = c[2]
    BY <1>1, BoardAssumption DEF Cells
  <2>2. Adjacent(c, d)
    BY <1>1, <1>2, <1>3, <1>4, <2>1, BoardAssumption DEF Adjacent
  <2> QED BY <2>1, <2>2 DEF HasEscape, Steps, Passable
<1>5. CASE c[1] # 0
  <2> DEFINE d == <<c[1] - 1, c[2]>>
  <2>1. d \in Cells /\ d[1] = c[1] - 1 /\ d[2] = c[2]
    BY <1>1, <1>5, BoardAssumption DEF Cells
  <2>2. Adjacent(c, d)
    BY <1>1, <1>2, <1>3, <2>1, BoardAssumption DEF Adjacent
  <2> QED BY <2>1, <2>2 DEF HasEscape, Steps, Passable
<1> QED BY <1>4, <1>5

-----------------------------------------------------------------------------
(* What the brains decide. *)

\* _evaluate rejects a wall on the target itself, since no path leads to a wall: so
\* the clause of _keeps_us_mobile that lets such a wall pass never lets the cop in.
LEMMA WallsLeaveAWay ==
    ASSUME NEW c \in Cells, NEW known \in SUBSET Cells, NEW t \in Cells,
           NEW w \in Worthwhile(c, known, t)
    PROVE  /\ w \in Steps(c, known) /\ HasEscape(c, known \cup {w}) /\ BarriersLeft(known) > 0
<1>1. w \in BarrierTargets(c, known) /\ w # c
  BY DEF Worthwhile
<1>2. w \in Steps(c, known)
  BY <1>1, Zenon DEF BarrierTargets, Steps
<1>3. BarriersLeft(known) > 0
  <2>1. BarriersLeft(known) \in Int
    <3>1. IsFiniteSet(known) /\ Cardinality(known) \in Nat
      <4>1. IsFiniteSet(0 .. GridSize - 1)
        BY FS_Interval, BoardAssumption
      <4>2. IsFiniteSet(Cells)
        BY <4>1, FS_Product DEF Cells
      <4> QED BY <4>2, FS_Subset, FS_CardinalityType
    <3> QED BY <3>1, BoardAssumption DEF BarriersLeft
  <2> HIDE DEF BarriersLeft
  <2> QED BY <1>1, <2>1 DEF BarrierTargets
<1>4. KeepsUsMobile(c, w, known, t) /\ Gap(c, t, w, known) # NoPath
  BY DEF Worthwhile
<1>5. w # t
  <2> SUFFICES ASSUME w = t PROVE FALSE
    OBVIOUS
  <2>1. t \notin {c} \cup Passable(known \cup {w})
    BY <1>1 DEF Passable
  <2>2. PathLength(c, t, known \cup {w}) = NoPath
    BY <2>1, Zenon DEF PathLength
  <2> QED BY <1>4, <2>2 DEF Gap
<1> QED BY <1>2, <1>3, <1>4, <1>5 DEF KeepsUsMobile

LEMMA CopDecidesSoundly ==
    ASSUME NEW c \in Cells, NEW known \in WallSets, NEW d \in CopDecisions(c, known)
    PROVE  d \in Plans /\ Sound(d, c, known)
<1>1. known \in SUBSET Cells
  BY DEF WallSets
<1>2. CASE d \in [aim : LegalMoves(c, known), wall : {None}]
  BY <1>2, StepsAreCells DEF Sound, Plans
<1>3. CASE d \in [aim : {c}, wall : ChosenBarriers[known][c]]
  <2>1. d.aim = c /\ d = [aim |-> d.aim, wall |-> d.wall] /\ d.wall \in ChosenBarriers[known][c]
    BY <1>3
  <2>2. PICK t \in Cells : d.wall \in BestWalls(c, known, t)
    BY <2>1 DEF ChosenBarriers
  <2>3. d.wall \in Worthwhile(c, known, t)
    BY <2>2 DEF BestWalls
  <2>4. /\ d.wall \in Steps(c, known) /\ HasEscape(c, known \cup {d.wall})
        /\ BarriersLeft(known) > 0
    BY <1>1, <2>3, WallsLeaveAWay
  <2>5. d.wall \in Cells /\ d.wall # None
    BY <2>4, StepsAreCells, BrainsAssumption
  <2> QED BY <2>1, <2>4, <2>5 DEF Sound, Plans
<1> QED BY <1>2, <1>3 DEF CopDecisions

\* A veto only removes moves.
LEMMA ThiefDecidesSafely ==
    ASSUME NEW c \in Cells, NEW known, NEW d \in ThiefDecisions(c, known)
    PROVE  /\ d \in Plans /\ d.wall = None /\ d.aim \in LegalMoves(c, known)
           /\ HasEscape(c, known) => HasEscape(d.aim, known)
<1> DEFINE open  == WithoutDeadEnds(c, LegalMoves(c, known), known)
           safe  == WithoutTraps(open, known)
<1>1. d.wall = None /\ d.aim \in Survivable(c, known) /\ d = [aim |-> d.aim, wall |-> d.wall]
  BY DEF ThiefDecisions
<1>2. c \in LegalMoves(c, known)
  BY DEF LegalMoves
<1>3. open = {e \in LegalMoves(c, known) : e = c \/ Exits(e, known) > 0}
  BY <1>2 DEF WithoutDeadEnds, OrElse
<1>4. safe \subseteq open
  BY DEF WithoutTraps, OrElse
<1> HIDE DEF open, safe
<1>5. Survivable(c, known) \subseteq safe
  <2>1. Survivable(c, known) = IF Exits(c, known) <= 1 THEN OrElse(safe \ {c}, safe) ELSE safe
    BY DEF Survivable, safe, open
  <2>2. OrElse(safe \ {c}, safe) \subseteq safe
    BY DEF OrElse
  <2> QED BY <2>1, <2>2
<1>6. d.aim \in LegalMoves(c, known) /\ (d.aim = c \/ Exits(d.aim, known) > 0)
  BY <1>1, <1>3, <1>4, <1>5
<1>7. Exits(d.aim, known) > 0 => HasEscape(d.aim, known)
  <2>1. Steps(d.aim, known) = {} => Exits(d.aim, known) = 0
    BY FS_EmptySet DEF Exits
  <2> QED BY <2>1 DEF HasEscape
<1> QED BY <1>1, <1>6, <1>7, StepsAreCells DEF Plans

-----------------------------------------------------------------------------
(* The cop's own move, and the thief's. *)

LEMMA SidesAreTwo ==
    /\ "cop" \in Sides /\ "thief" \in Sides
    /\ Other("cop") = "thief" /\ Other("thief") = "cop"
    /\ \A s \in Sides : s = "cop" \/ s = "thief"
BY DEF Sides, Other

LEMMA WallsAreFinite ==
    ASSUME NEW known \in SUBSET Cells
    PROVE  IsFiniteSet(known) /\ Cardinality(known) \in Nat
<1>1. IsFiniteSet(0 .. GridSize - 1)
  BY FS_Interval, BoardAssumption
<1>2. IsFiniteSet(Cells)
  BY <1>1, FS_Product DEF Cells
<1> QED BY <1>2, FS_Subset, FS_CardinalityType

\* What a sound decision makes of a cop that stands free.
LEMMA SoundMoveStaysFree ==
    ASSUME NEW c \in Cells, NEW known \in SUBSET Cells, NEW d \in Plans, Sound(d, c, known),
           Cardinality(known) <= MaxBarriers, c \notin known, HasEscape(c, known)
    PROVE  LET cell == IF d.wall # None THEN c ELSE SettleMove(c, d.aim, known)
               new  == known \cup Walled(d)
           IN  /\ cell \in Cells /\ new \in SUBSET Cells
               /\ Cardinality(new) <= MaxBarriers
               /\ cell \notin new /\ HasEscape(cell, new)
<1>1. CASE d.wall = None
  <2>1. Walled(d) = {} /\ d.aim \in LegalMoves(c, known)
    BY <1>1 DEF Walled, Sound
  <2>2. d.aim \notin known /\ HasEscape(d.aim, known) /\ d.aim \in Cells
    BY <2>1, WayBack DEF Plans
  <2>3. SettleMove(c, d.aim, known) = d.aim
    BY <2>2 DEF SettleMove
  <2> QED BY <1>1, <2>1, <2>2, <2>3
<1>2. CASE d.wall # None
  <2>1. Walled(d) = {d.wall} /\ d.wall \in Cells
    BY <1>2 DEF Walled, Plans
  <2>2. /\ d.wall \in Steps(c, known) /\ HasEscape(c, known \cup {d.wall})
        /\ BarriersLeft(known) > 0
    BY <1>2 DEF Sound
  <2>3. d.wall # c /\ d.wall \notin known
    BY <2>2, StepsAreCells
  <2>4. Cardinality(known \cup {d.wall}) = Cardinality(known) + 1 /\ Cardinality(known) \in Nat
    BY <2>3, WallsAreFinite, FS_AddElement
  <2>5. Cardinality(known) < MaxBarriers
    BY <2>2, <2>4, BoardAssumption DEF BarriersLeft
  <2> QED BY <1>2, <2>1, <2>2, <2>3, <2>4, <2>5, BoardAssumption
<1> QED BY <1>1, <1>2

LEMMA InitInv == Init => Inv
<1> SUFFICES ASSUME Init PROVE Inv
  OBVIOUS
<1>1. Typed
  <2>1. PICK g \in Games : path = g.path /\ at = g.starts
    BY DEF Init
  <2>2. path \in {"harness", "wire"} /\ at \in [Sides -> Cells]
    BY <2>1, ChaseAssumption
  <2>3. plan \in [Sides -> Plans]
    BY <2>2 DEF Init, Plans
  <2> QED BY <2>2, <2>3 DEF Init, Typed, Places
<1>2. /\ pc["cop"] = "decide" /\ pc["thief"] = "decide" /\ step["cop"] = 0 /\ step["thief"] = 0
      /\ walls["cop"] = {} /\ walls["thief"] = {} /\ plan["thief"].wall = None
  BY SidesAreTwo DEF Init
<1>3. at["cop"] \in Cells /\ at["thief"] \in Cells
  BY <1>1, SidesAreTwo DEF Typed
<1>4. InStep
  BY <1>2 DEF InStep, Abreast, Turns, Level
<1>5. HasEscape(at["cop"], {}) /\ HasEscape(at["thief"], {})
  BY <1>3, OpenBoard
<1>6. CopIsFree
  <2>1. Cardinality(walls["cop"]) <= MaxBarriers
    BY <1>2, FS_EmptySet, BoardAssumption
  <2> QED BY <1>2, <1>5, <2>1 DEF CopIsFree, CopStaysFree, Committed
<1>7. ThiefIsFree
  BY <1>2, <1>5 DEF ThiefIsFree, BoxedIn, BoxedInByAWall, Committed
<1>8. ThiefIsInTheOpen
  BY <1>2 DEF ThiefIsInTheOpen, NobodyPlaysOnInAWall, Committed
<1> QED BY <1>1, <1>4, <1>6, <1>7, <1>8 DEF Inv

\* The cop's position, walls and plan stay as they are, or the plan is dropped.
LEMMA CopUntouched ==
    ASSUME CopIsFree, at'["cop"] = at["cop"], walls'["cop"] = walls["cop"],
           plan'["thief"].wall = None,
           pc'["cop"] \in Committed => pc["cop"] \in Committed /\ plan'["cop"] = plan["cop"]
    PROVE  CopIsFree'
BY DEF CopIsFree, CopStaysFree, Committed

\* The cop plans nothing new but moves, builds, or both at once.
LEMMA CopMoved ==
    ASSUME Typed, CopIsFree, NEW d \in Plans, Sound(d, at["cop"], walls["cop"]),
           plan'["thief"].wall = None, pc'["cop"] \notin Committed,
           at'["cop"] = Settled("cop", d, walls["cop"]),
           walls'["cop"] = walls["cop"] \cup Walled(d)
    PROVE  /\ at'["cop"] \in Cells /\ walls'["cop"] \in SUBSET Cells
           /\ CopIsFree'
<1>1. /\ at["cop"] \in Cells /\ walls["cop"] \in SUBSET Cells
      /\ Cardinality(walls["cop"]) <= MaxBarriers
      /\ at["cop"] \notin walls["cop"] /\ HasEscape(at["cop"], walls["cop"])
  BY SidesAreTwo DEF Typed, CopIsFree, CopStaysFree
<1>2. at'["cop"] = IF d.wall # None THEN at["cop"] ELSE SettleMove(at["cop"], d.aim, walls["cop"])
  BY DEF Settled
<1>3. /\ at'["cop"] \in Cells /\ walls'["cop"] \in SUBSET Cells
      /\ Cardinality(walls'["cop"]) <= MaxBarriers
      /\ at'["cop"] \notin walls'["cop"] /\ HasEscape(at'["cop"], walls'["cop"])
  BY <1>1, <1>2, SoundMoveStaysFree
<1> QED BY <1>3 DEF CopIsFree, CopStaysFree

-----------------------------------------------------------------------------
(* Turns stay in step. *)

\* Whichever side is looked at first.
LEMMA TurnsAreMutual ==
    ASSUME NEW s \in Sides
    PROVE  LET o == Other(s) IN
           /\ InStep /\ path = "wire" => Turns(step[s], pc[s], step[o], pc[o])
           /\ path' = "wire" /\ Turns(step'[s], pc'[s], step'[o], pc'[o]) => InStep'
<1>1. \A m, a, n, b : Turns(m, a, n, b) => Turns(n, b, m, a)
  BY DEF Turns
<1>2. CASE s = "cop"
  <2>1. Other(s) = "thief"
    BY <1>2, SidesAreTwo
  <2> QED BY <1>2, <2>1 DEF InStep
<1>3. CASE s = "thief"
  <2>1. Other(s) = "cop"
    BY <1>3, SidesAreTwo
  <2> QED BY <1>1, <1>3, <2>1 DEF InStep
<1> QED BY <1>2, <1>3, SidesAreTwo

LEMMA OneSideGoesOn ==
    ASSUME Typed, NEW s \in Sides, NEW k \in Places, pc' = [pc EXCEPT ![s] = k]
    PROVE  /\ pc' \in [Sides -> Places] /\ pc'[s] = k /\ pc'[Other(s)] = pc[Other(s)]
           /\ pc[s] \in Places /\ pc[Other(s)] \in Places
           /\ step[s] \in Nat /\ step[Other(s)] \in Nat
           /\ s # Other(s) /\ Other(s) \in Sides
BY SidesAreTwo DEF Typed, Sides

LEMMA DecideInStep ==
    ASSUME Typed, InStep, NEW s \in Sides, Decide(s)
    PROVE  InStep'
<1>1. path = "wire" /\ path' = "wire" /\ step' = step
      /\ pc[s] = "decide" /\ pc' = [pc EXCEPT ![s] = "sealed"]
  BY DEF Decide, terms
<1>2. pc'[s] = "sealed" /\ pc'[Other(s)] = pc[Other(s)]
  BY <1>1, OneSideGoesOn DEF Places
<1>3. QED
  BY <1>1, <1>2, TurnsAreMutual DEF Turns, Ahead, Level

LEMMA RevealInStep ==
    ASSUME Typed, InStep, NEW s \in Sides, path = "wire", Reveal(s)
    PROVE  InStep' /\ step[s] = step[Other(s)] /\ pc[Other(s)] \in {"sealed", "revealed"}
<1>1. path' = "wire" /\ step' = step /\ HasSealed(Other(s))
      /\ pc[s] = "sealed" /\ pc' = [pc EXCEPT ![s] = "revealed"]
  BY DEF Reveal, terms
<1>2. /\ pc'[s] = "revealed" /\ pc'[Other(s)] = pc[Other(s)] /\ pc[Other(s)] \in Places
      /\ step[s] \in Nat /\ step[Other(s)] \in Nat /\ Other(Other(s)) = s
  <2>1. "revealed" \in Places
    BY DEF Places
  <2>2. Other(Other(s)) = s
    BY SidesAreTwo
  <2> QED BY <1>1, <2>1, <2>2, OneSideGoesOn
<1>3. step[s] = step[Other(s)] /\ pc[Other(s)] \in {"sealed", "revealed"}
  BY <1>1, <1>2, TurnsAreMutual DEF Turns, Ahead, Level, HasSealed, Places
<1>4. QED
  BY <1>1, <1>2, <1>3, TurnsAreMutual DEF Turns, Level

LEMMA ApplyInStep ==
    ASSUME Typed, InStep, NEW s \in Sides, path = "wire", Apply(s)
    PROVE  InStep'
<1>1. path' = "wire" /\ step' = step /\ HasRevealed(Other(s))
      /\ pc[s] = "revealed" /\ pc' = [pc EXCEPT ![s] = "applied"]
  BY DEF Apply, terms
<1>2. /\ pc'[s] = "applied" /\ pc'[Other(s)] = pc[Other(s)] /\ pc[Other(s)] \in Places
      /\ step[s] \in Nat /\ step[Other(s)] \in Nat /\ Other(Other(s)) = s
  <2>1. "applied" \in Places
    BY DEF Places
  <2>2. Other(Other(s)) = s
    BY SidesAreTwo
  <2> QED BY <1>1, <2>1, <2>2, OneSideGoesOn
<1>3. QED
  BY <1>1, <1>2, TurnsAreMutual DEF Turns, Ahead, Level, HasSealed, HasRevealed, Places

LEMMA PullInStep ==
    ASSUME Typed, InStep, NEW s \in Sides, Pull(s)
    PROVE  InStep'
<1>1. path = "wire" /\ path' = "wire" /\ step' = step
      /\ pc[s] = "applied" /\ pc' = [pc EXCEPT ![s] = "heard"]
  BY DEF Pull, terms
<1>2. pc'[s] = "heard" /\ pc'[Other(s)] = pc[Other(s)]
  BY <1>1, OneSideGoesOn DEF Places
<1>3. QED
  BY <1>1, <1>2, TurnsAreMutual DEF Turns, Ahead, Level

LEMMA EndOfTurnInStep ==
    ASSUME Typed, InStep, NEW s \in Sides, EndOfTurn(s)
    PROVE  /\ InStep' /\ pc'[s] \in {"decide", "over"} /\ pc'[Other(s)] = pc[Other(s)]
           /\ pc' \in [Sides -> Places] /\ step' \in [Sides -> Nat]
           /\ step'[s] = step[s] + 1 /\ step'[Other(s)] = step[Other(s)]
<1> DEFINE k == IF outcome'[s] = None THEN "decide" ELSE "over"
<1>1. path = "wire" /\ path' = "wire" /\ step' = [step EXCEPT ![s] = @ + 1]
      /\ pc[s] = "heard" /\ pc' = [pc EXCEPT ![s] = k]
  BY DEF EndOfTurn, terms
<1>2. k \in {"decide", "over"} /\ k \in Places
  BY DEF Places
<1> HIDE DEF k
<1>3. /\ pc'[s] = k /\ pc'[Other(s)] = pc[Other(s)] /\ pc' \in [Sides -> Places]
      /\ step[s] \in Nat /\ step[Other(s)] \in Nat /\ s # Other(s) /\ Other(s) \in Sides
  BY <1>1, <1>2, OneSideGoesOn
<1>4. step'[s] = step[s] + 1 /\ step'[Other(s)] = step[Other(s)] /\ step' \in [Sides -> Nat]
  BY <1>1, <1>3 DEF Typed
<1>5. InStep'
  <2> DEFINE o == Other(s)
  <2>1. Turns(step[s], pc[s], step[o], pc[o])
    BY <1>1, TurnsAreMutual
  <2>2. Turns(step[s] + 1, k, step[o], pc[o])
    BY <1>1, <1>2, <1>3, <2>1 DEF Turns, Ahead, Level
  <2> QED BY <1>1, <1>3, <1>4, <2>2, TurnsAreMutual
<1> QED BY <1>2, <1>3, <1>4, <1>5

-----------------------------------------------------------------------------
(* The steps that leave the thief alone. *)

LEMMA ThiefUntouched ==
    ASSUME ThiefIsFree, ThiefIsInTheOpen, path' = path, landed' = landed, caught' = caught,
           at'["thief"] = at["thief"], walls'["thief"] = walls["thief"],
           plan'["thief"] = plan["thief"], pc'["thief"] = pc["thief"],
           path = "wire" \/ pc'["cop"] = pc["cop"],
           pc["thief"] \in Committed => (NotYet' => NotYet)
    PROVE  ThiefIsFree' /\ ThiefIsInTheOpen'
BY DEF ThiefIsFree, ThiefIsInTheOpen, BoxedIn, BoxedInByAWall, NobodyPlaysOnInAWall, Heading,
       Committed

\* The cop commits, moves or goes on: its turn only passes.
LEMMA TurnPasses ==
    ASSUME Typed, InStep, path = "wire", path' = path, pc'["thief"] = pc["thief"],
           step'["thief"] = step["thief"],
           \/ step'["cop"] = step["cop"] /\ pc'["cop"] = "sealed" /\ pc["cop"] = "decide"
           \/ step'["cop"] = step["cop"] /\ pc'["cop"] \in {"applied", "heard"}
           \/ step'["cop"] = step["cop"] + 1 /\ pc["cop"] = "heard" /\ pc["thief"] \in Committed
           \/ pc["thief"] \notin Committed
    PROVE  pc["thief"] \in Committed => (NotYet' => NotYet)
<1>1. step["cop"] \in Nat /\ step["thief"] \in Nat
  BY SidesAreTwo DEF Typed
<1> QED BY <1>1 DEF NotYet, InStep, Turns, Ahead, Level, Committed

-----------------------------------------------------------------------------
(* The steps of the wire. *)

LEMMA CopWallSet ==
    ASSUME Typed, CopIsFree
    PROVE  walls["cop"] \in WallSets
BY SidesAreTwo DEF Typed, CopIsFree, WallSets

LEMMA DecideKeeps ==
    ASSUME Inv, NEW s \in Sides, Decide(s)
    PROVE  Inv'
<1>0. Typed /\ InStep /\ CopIsFree /\ ThiefIsFree /\ ThiefIsInTheOpen
  BY DEF Inv
<1>1. /\ path = "wire" /\ pc[s] = "decide" /\ pc' = [pc EXCEPT ![s] = "sealed"]
      /\ UNCHANGED <<path, at, walls, step, caught, outcome, landed>>
  BY DEF Decide, terms
<1>2. PICK d \in Decisions(s) : plan' = [plan EXCEPT ![s] = d]
  BY DEF Decide
<1>3. InStep'
  BY <1>0, DecideInStep
<1>4. pc' \in [Sides -> Places] /\ pc'[s] = "sealed" /\ pc'[Other(s)] = pc[Other(s)]
  BY <1>0, <1>1, OneSideGoesOn DEF Places
<1>5. at["cop"] \in Cells /\ at["thief"] \in Cells
  BY <1>0, SidesAreTwo DEF Typed
<1>6. CASE s = "cop"
  <2>1. d \in Plans /\ Sound(d, at["cop"], walls["cop"])
    BY <1>0, <1>2, <1>5, <1>6, CopWallSet, CopDecidesSoundly DEF Decisions
  <2>2. plan' \in [Sides -> Plans] /\ plan'["cop"] = d /\ plan'["thief"] = plan["thief"]
    BY <1>0, <1>2, <1>6, <2>1, SidesAreTwo DEF Typed
  <2>3. Typed'
    BY <1>0, <1>1, <1>4, <2>2 DEF Typed
  <2>4. CopIsFree'
    BY <1>0, <1>1, <2>1, <2>2 DEF CopIsFree, CopStaysFree
  <2>5. pc'["thief"] = pc["thief"] /\ pc'["cop"] = "sealed" /\ pc["cop"] = "decide"
    BY <1>1, <1>4, <1>6, SidesAreTwo
  <2>6. pc["thief"] \in Committed => (NotYet' => NotYet)
    BY <1>0, <1>1, <2>5, TurnPasses
  <2>7. ThiefIsFree' /\ ThiefIsInTheOpen'
    BY <1>0, <1>1, <2>2, <2>5, <2>6, ThiefUntouched
  <2> QED BY <1>3, <2>3, <2>4, <2>7 DEF Inv
<1>7. CASE s = "thief"
  <2>1. /\ d \in Plans /\ d.wall = None /\ d.aim \in LegalMoves(at["thief"], walls["thief"])
        /\ HasEscape(at["thief"], walls["thief"]) => HasEscape(d.aim, walls["thief"])
    BY <1>2, <1>5, <1>7, ThiefDecidesSafely DEF Decisions
  <2>2. plan' \in [Sides -> Plans] /\ plan'["thief"] = d /\ plan'["cop"] = plan["cop"]
    BY <1>0, <1>2, <1>7, <2>1, SidesAreTwo DEF Typed
  <2>3. Typed'
    BY <1>0, <1>1, <1>4, <2>2 DEF Typed
  <2>4. pc'["cop"] = pc["cop"] /\ pc'["thief"] = "sealed" /\ pc["thief"] = "decide"
    BY <1>1, <1>4, <1>7, SidesAreTwo
  <2>5. CopIsFree'
    BY <1>0, <1>1, <2>1, <2>2, <2>4, CopUntouched
  <2>6. HasEscape(at["thief"], walls["thief"])
    BY <1>0, <1>1, <2>4 DEF ThiefIsFree, BoxedIn
  <2>7. Heading' \in {at["thief"], d.aim}
    BY <1>1, <2>2 DEF Heading, SettleMove
  <2>8. ThiefIsFree'
    BY <1>1, <2>1, <2>4, <2>6, <2>7 DEF ThiefIsFree, BoxedInByAWall
  <2>9. ~caught => at["thief"] \notin walls["thief"] /\ d.aim \notin walls["thief"]
    BY <1>0, <1>1, <1>5, <2>1, <2>4, StepsAreCells
       DEF ThiefIsInTheOpen, NobodyPlaysOnInAWall, LegalMoves
  <2>10. ThiefIsInTheOpen'
    BY <1>1, <2>2, <2>4, <2>7, <2>9 DEF ThiefIsInTheOpen, NobodyPlaysOnInAWall
  <2> QED BY <1>3, <2>3, <2>5, <2>8, <2>10 DEF Inv
<1> QED BY <1>6, <1>7, SidesAreTwo

LEMMA PullKeeps ==
    ASSUME Inv, NEW s \in Sides, Pull(s)
    PROVE  Inv'
<1>0. Typed /\ InStep /\ CopIsFree /\ ThiefIsFree /\ ThiefIsInTheOpen
  BY DEF Inv
<1>1. /\ path = "wire" /\ pc[s] = "applied" /\ pc' = [pc EXCEPT ![s] = "heard"]
      /\ UNCHANGED <<path, at, walls, step, plan, caught, outcome, landed>>
  BY DEF Pull, terms
<1>2. InStep'
  BY <1>0, PullInStep
<1>3. pc' \in [Sides -> Places] /\ pc'[s] = "heard" /\ pc'[Other(s)] = pc[Other(s)]
  BY <1>0, <1>1, OneSideGoesOn DEF Places
<1>4. Typed'
  BY <1>0, <1>1, <1>3 DEF Typed
<1>5. CopIsFree'
  <2>1. plan'["thief"].wall = None
    BY <1>0, <1>1 DEF CopIsFree
  <2>2. pc'["cop"] = pc["cop"] \/ pc'["cop"] \notin Committed
    BY <1>3, SidesAreTwo DEF Committed
  <2> QED BY <1>0, <1>1, <2>1, <2>2, CopUntouched
<1>6. CASE s = "cop"
  <2>1. pc'["thief"] = pc["thief"] /\ pc'["cop"] = "heard"
    BY <1>3, <1>6, SidesAreTwo
  <2>2. pc["thief"] \in Committed => (NotYet' => NotYet)
    BY <1>0, <1>1, <2>1, TurnPasses
  <2> QED BY <1>0, <1>1, <1>2, <1>4, <1>5, <2>1, <2>2, ThiefUntouched DEF Inv
<1>7. CASE s = "thief"
  <2>1. pc'["thief"] = "heard" /\ pc["thief"] = "applied"
    BY <1>1, <1>3, <1>7
  <2>2. ThiefIsFree'
    BY <1>0, <1>1, <2>1 DEF ThiefIsFree, BoxedIn, BoxedInByAWall, Committed
  <2>3. ThiefIsInTheOpen'
    BY <1>0, <1>1, <2>1 DEF ThiefIsInTheOpen, NobodyPlaysOnInAWall, Committed
  <2> QED BY <1>2, <1>4, <1>5, <2>2, <2>3 DEF Inv
<1> QED BY <1>6, <1>7, SidesAreTwo


\* The harness has no sealed and no revealed steps.
LEMMA CommittedOnTheWire ==
    ASSUME Inv, NEW s \in Sides, pc[s] \in Committed
    PROVE  path = "wire"
<1>1. path # "harness"
  BY SidesAreTwo DEF Inv, InStep, Abreast, Committed
<1> QED BY <1>1 DEF Inv, Typed

LEMMA RevealKeeps ==
    ASSUME Inv, NEW s \in Sides, Reveal(s)
    PROVE  Inv'
<1>0. Typed /\ InStep /\ CopIsFree /\ ThiefIsFree /\ ThiefIsInTheOpen
  BY DEF Inv
<1>1. /\ pc[s] = "sealed" /\ pc' = [pc EXCEPT ![s] = "revealed"]
      /\ UNCHANGED <<path, at, step, plan, outcome>>
      /\ walls' = [walls EXCEPT ![Other(s)] = @ \cup Walled(plan[s])]
  BY DEF Reveal, terms
<1>2. path = "wire"
  BY <1>1, CommittedOnTheWire DEF Committed
<1>3. InStep' /\ step[s] = step[Other(s)] /\ pc[Other(s)] \in Committed
  BY <1>0, <1>2, RevealInStep DEF Committed
<1>4. pc' \in [Sides -> Places] /\ pc'[s] = "revealed" /\ pc'[Other(s)] = pc[Other(s)]
  BY <1>0, <1>1, OneSideGoesOn DEF Places
<1>5. plan[s] \in Plans
  BY <1>0 DEF Typed
<1>6. Walled(plan[s]) \in SUBSET Cells
  BY <1>5 DEF Walled, Plans
<1>7. walls' \in [Sides -> SUBSET Cells]
  BY <1>0, <1>1, <1>6, SidesAreTwo DEF Typed
<1>8. Typed'
  BY <1>0, <1>1, <1>4, <1>7 DEF Typed
<1>9. CASE s = "thief"
  <2>1. Walled(plan["thief"]) = {}
    BY <1>0 DEF CopIsFree, Walled
  <2>2. walls' = walls
    BY <1>0, <1>1, <1>9, <2>1, SidesAreTwo DEF Typed
  <2>3. caught' = caught \/ (caught /\ caught') \/ (~caught /\ ~caught')
    BY <1>9 DEF Reveal
  <2>4. landed' = landed /\ (caught' <=> caught)
    BY <1>9 DEF Reveal
  <2>5. pc'["cop"] = pc["cop"] /\ pc["thief"] = "sealed" /\ pc'["thief"] = "revealed"
    BY <1>1, <1>4, <1>9, SidesAreTwo
  <2>6. CopIsFree'
    BY <1>0, <1>1, <2>2, <2>5, CopUntouched DEF CopIsFree
  <2>7. NotYet' <=> NotYet
    BY <1>1, <2>5 DEF NotYet
  <2>8. Heading' = Heading
    BY <1>1, <2>2 DEF Heading
  <2>9. ThiefIsFree'
    BY <1>0, <1>1, <2>2, <2>4, <2>5, <2>7, <2>8 DEF ThiefIsFree, BoxedInByAWall, Committed
  <2>10. ThiefIsInTheOpen'
    BY <1>0, <1>1, <2>2, <2>4, <2>5, <2>7, <2>8
       DEF ThiefIsInTheOpen, NobodyPlaysOnInAWall, Committed
  <2> QED BY <1>3, <1>8, <2>6, <2>9, <2>10 DEF Inv
<1>10. CASE s = "cop"
  <2> DEFINE w == plan["cop"].wall
             known == walls["thief"]
             cell == at["thief"]
             aim == plan["thief"].aim
  <2>1. /\ walls'["cop"] = walls["cop"] /\ walls'["thief"] = known \cup Walled(plan["cop"])
        /\ pc'["cop"] = "revealed" /\ pc["cop"] = "sealed" /\ pc'["thief"] = pc["thief"]
        /\ pc["thief"] \in Committed /\ step["cop"] = step["thief"]
    BY <1>0, <1>1, <1>3, <1>4, <1>10, SidesAreTwo DEF Typed
  <2>2. landed' = w
    BY <1>10 DEF Reveal
  <2>3. caught' = (caught \/ Settled("thief", plan["thief"], walls'["thief"]) = Claimed(plan["cop"]))
    BY <1>10, SidesAreTwo, Zenon DEF Reveal
  <2>4. Settled("thief", plan["thief"], walls'["thief"]) = Heading'
    BY <1>0, <1>1 DEF Settled, Heading, CopIsFree
  <2>5. CopIsFree'
    BY <1>0, <1>1, <2>1, CopUntouched DEF CopIsFree, Committed
  <2>6. NotYet /\ ~NotYet'
    BY <1>0, <1>1, <1>2, <2>1, SidesAreTwo DEF NotYet, Typed
  <2>7. ThiefIsFree'
    <3>1. ASSUME landed' = None PROVE HasEscape(Heading', walls'["thief"])
      <4>1. walls'["thief"] = known
        BY <2>1, <2>2, <3>1 DEF Walled
      <4>2. Heading' = Heading
        BY <1>1, <4>1 DEF Heading
      <4>3. HasEscape(Heading, known)
        BY <1>0, <2>1, <2>6 DEF ThiefIsFree
      <4> QED BY <4>1, <4>2, <4>3
    <3> QED BY <2>1, <2>6, <3>1 DEF ThiefIsFree, BoxedInByAWall, Committed
  <2>8. ~caught => cell \notin known /\ aim \notin known
    BY <1>0, <2>1, <2>6 DEF ThiefIsInTheOpen
  <2>9. ASSUME ~caught' PROVE Heading' \notin walls'["thief"]
    <3>1. Heading' = IF aim \in walls'["thief"] THEN cell ELSE aim
      BY <1>1 DEF Heading, SettleMove
    <3>2. cell \notin known /\ aim \notin known /\ Heading' # Claimed(plan["cop"])
      BY <2>3, <2>4, <2>8, <2>9
    <3>3. CASE w = None
      BY <2>1, <3>1, <3>2, <3>3 DEF Walled
    <3>4. CASE w # None
      <4>1. Claimed(plan["cop"]) = w /\ walls'["thief"] = known \cup {w}
        BY <2>1, <3>4 DEF Claimed, Walled
      <4> QED BY <3>1, <3>2, <4>1
    <3> QED BY <3>3, <3>4
  <2>10. ThiefIsInTheOpen'
    BY <2>1, <2>6, <2>9 DEF ThiefIsInTheOpen, NobodyPlaysOnInAWall, Committed
  <2> QED BY <1>3, <1>8, <2>5, <2>7, <2>10 DEF Inv
<1> QED BY <1>9, <1>10, SidesAreTwo

LEMMA ApplyKeeps ==
    ASSUME Inv, NEW s \in Sides, Apply(s)
    PROVE  Inv'
<1>0. Typed /\ InStep /\ CopIsFree /\ ThiefIsFree /\ ThiefIsInTheOpen
  BY DEF Inv
<1>1. /\ pc[s] = "revealed" /\ pc' = [pc EXCEPT ![s] = "applied"]
      /\ UNCHANGED <<path, step, plan, caught, outcome, landed>>
      /\ walls' = [walls EXCEPT ![s] = @ \cup Walled(plan[s])]
      /\ at' = [at EXCEPT ![s] = Settled(s, plan[s], walls[s])]
      /\ HasRevealed(Other(s))
  BY DEF Apply, ApplyOwnMove, terms
<1>2. path = "wire"
  BY <1>1, CommittedOnTheWire DEF Committed
<1>3. InStep'
  BY <1>0, <1>2, ApplyInStep
<1>4. pc' \in [Sides -> Places] /\ pc'[s] = "applied" /\ pc'[Other(s)] = pc[Other(s)]
  BY <1>0, <1>1, OneSideGoesOn DEF Places
<1>5. plan[s] \in Plans /\ at[s] \in Cells
  BY <1>0 DEF Typed
<1>6. Walled(plan[s]) \in SUBSET Cells /\ Settled(s, plan[s], walls[s]) \in Cells
  BY <1>5 DEF Walled, Plans, Settled, SettleMove
<1>7. walls' \in [Sides -> SUBSET Cells] /\ at' \in [Sides -> Cells]
  BY <1>0, <1>1, <1>6 DEF Typed
<1>8. Typed'
  BY <1>0, <1>1, <1>4, <1>7 DEF Typed
<1>9. CASE s = "cop"
  <2>1. /\ walls'["cop"] = walls["cop"] \cup Walled(plan["cop"])
        /\ walls'["thief"] = walls["thief"] /\ at'["thief"] = at["thief"]
        /\ at'["cop"] = Settled("cop", plan["cop"], walls["cop"])
        /\ pc'["cop"] = "applied" /\ pc["cop"] = "revealed" /\ pc'["thief"] = pc["thief"]
    BY <1>0, <1>1, <1>4, <1>9, SidesAreTwo DEF Typed
  <2>2. CopIsFree'
    <3>1. Sound(plan["cop"], at["cop"], walls["cop"]) /\ plan["cop"] \in Plans
      BY <1>0, <1>5, <1>9, <2>1 DEF CopIsFree, Committed
    <3>2. plan'["thief"].wall = None
      BY <1>0, <1>1 DEF CopIsFree
    <3> QED BY <1>0, <2>1, <3>1, <3>2, CopMoved DEF Committed
  <2>3. pc["thief"] \in Committed => (NotYet' => NotYet)
    BY <1>0, <1>1, <1>2, <2>1, TurnPasses
  <2> QED BY <1>0, <1>1, <1>2, <1>3, <1>8, <2>1, <2>2, <2>3, ThiefUntouched DEF Inv
<1>10. CASE s = "thief"
  <2>1. Walled(plan["thief"]) = {} /\ plan["thief"].wall = None
    BY <1>0 DEF CopIsFree, Walled
  <2>2. /\ walls'["cop"] = walls["cop"] /\ walls'["thief"] = walls["thief"]
        /\ at'["cop"] = at["cop"] /\ at'["thief"] = Heading
        /\ pc'["thief"] = "applied" /\ pc["thief"] = "revealed" /\ pc'["cop"] = pc["cop"]
    BY <1>0, <1>1, <1>4, <1>10, <2>1, SidesAreTwo DEF Typed, Settled, Heading
  <2>3. CopIsFree'
    BY <1>0, <1>1, <2>1, <2>2, CopUntouched
  <2>4. ThiefIsFree'
    BY <1>0, <1>1, <2>2 DEF ThiefIsFree, BoxedIn, BoxedInByAWall, Committed
  <2>5. ThiefIsInTheOpen'
    BY <1>0, <1>1, <2>2 DEF ThiefIsInTheOpen, NobodyPlaysOnInAWall, Committed
  <2> QED BY <1>3, <1>8, <2>3, <2>4, <2>5 DEF Inv
<1> QED BY <1>9, <1>10, SidesAreTwo

LEMMA EndOfTurnKeeps ==
    ASSUME Inv, NEW s \in Sides, EndOfTurn(s)
    PROVE  Inv'
<1>0. Typed /\ InStep /\ CopIsFree /\ ThiefIsFree /\ ThiefIsInTheOpen
  BY DEF Inv
<1>1. /\ path = "wire" /\ pc[s] = "heard"
      /\ UNCHANGED <<path, at, walls, plan, caught, landed>>
  BY DEF EndOfTurn, terms
<1>2. /\ InStep' /\ pc'[s] \in {"decide", "over"} /\ pc'[Other(s)] = pc[Other(s)]
      /\ pc' \in [Sides -> Places] /\ step' \in [Sides -> Nat]
      /\ step'[s] = step[s] + 1 /\ step'[Other(s)] = step[Other(s)]
  BY <1>0, EndOfTurnInStep
<1>3. Typed'
  <2> DEFINE o == IF Captured(s) THEN "capture"
                  ELSE IF step'[s] >= Threshold[path] THEN "survival" ELSE None
  <2>1. outcome' = [outcome EXCEPT ![s] = o]
    BY DEF EndOfTurn
  <2>2. o \in {"capture", "survival", None}
    OBVIOUS
  <2> HIDE DEF o
  <2>3. outcome' \in [Sides -> {"capture", "survival", None}]
    BY <1>0, <2>1, <2>2 DEF Typed
  <2> QED BY <1>0, <1>1, <1>2, <2>3 DEF Typed
<1>4. CopIsFree'
  <2>1. plan'["thief"].wall = None
    BY <1>0, <1>1 DEF CopIsFree
  <2>2. pc'["cop"] = pc["cop"] \/ pc'["cop"] \notin Committed
    BY <1>2, SidesAreTwo DEF Committed
  <2> QED BY <1>0, <1>1, <2>1, <2>2, CopUntouched
<1>5. CASE s = "cop"
  <2>1. /\ pc'["thief"] = pc["thief"] /\ pc["cop"] = "heard"
        /\ step'["cop"] = step["cop"] + 1 /\ step'["thief"] = step["thief"]
    BY <1>1, <1>2, <1>5, SidesAreTwo
  <2>2. pc["thief"] \in Committed => (NotYet' => NotYet)
    BY <1>0, <1>1, <2>1, TurnPasses
  <2> QED BY <1>0, <1>1, <1>2, <1>3, <1>4, <2>1, <2>2, ThiefUntouched DEF Inv
<1>6. CASE s = "thief"
  <2>1. pc["thief"] = "heard" /\ pc'["thief"] \in {"decide", "over"}
    BY <1>1, <1>2, <1>6
  <2>2. pc'["thief"] = "decide" => ~BoxedIn
    <3>1. BoxedIn => outcome'["thief"] = "capture"
      BY <1>0, <1>6 DEF Typed, EndOfTurn, Captured
    <3>2. outcome'["thief"] # None => pc'["thief"] = "over"
      BY <1>0, <1>6 DEF Typed, EndOfTurn
    <3> QED BY <3>1, <3>2, ChaseAssumption
  <2>3. ThiefIsFree'
    BY <1>0, <1>1, <2>1, <2>2 DEF ThiefIsFree, BoxedIn, BoxedInByAWall, Committed
  <2>4. ThiefIsInTheOpen'
    BY <1>0, <1>1, <2>1 DEF ThiefIsInTheOpen, NobodyPlaysOnInAWall, Committed
  <2> QED BY <1>2, <1>3, <1>4, <2>3, <2>4 DEF Inv
<1> QED BY <1>5, <1>6, SidesAreTwo


-----------------------------------------------------------------------------
(* The steps of the harness. *)

LEMMA HalfTurnKeeps ==
    ASSUME Inv, NEW s \in Sides, HalfTurn(s)
    PROVE  Inv'
<1>0. Typed /\ InStep /\ CopIsFree /\ ThiefIsFree /\ ThiefIsInTheOpen
  BY DEF Inv
<1>1. /\ path = "harness" /\ pc[s] = "decide" /\ pc' = [pc EXCEPT ![s] = "applied"]
      /\ s = "thief" => pc["cop"] = "applied"
      /\ UNCHANGED <<path, step, caught, outcome>>
  BY DEF HalfTurn, terms
<1>2. PICK d \in Decisions(s) :
        /\ plan' = [plan EXCEPT ![s] = d]
        /\ at' = [at EXCEPT ![s] = Settled(s, d, walls[s])]
        /\ walls' = [t \in Sides |-> walls[t] \cup Walled(d)]
        /\ landed' = IF s = "cop" THEN d.wall ELSE landed
  BY DEF HalfTurn, ApplyOwnMove
<1>3. pc' \in [Sides -> Places] /\ pc'[s] = "applied" /\ pc'[Other(s)] = pc[Other(s)]
  BY <1>0, <1>1, OneSideGoesOn DEF Places
<1>4. at["cop"] \in Cells /\ at["thief"] \in Cells /\ path' = "harness" /\ ~NotYet'
  BY <1>0, <1>1, SidesAreTwo DEF Typed, NotYet
<1>5. /\ walls'["cop"] = walls["cop"] \cup Walled(d)
      /\ walls'["thief"] = walls["thief"] \cup Walled(d)
  BY <1>2, SidesAreTwo
<1>6. ASSUME d \in Plans, Settled(s, d, walls[s]) \in Cells
      PROVE  Typed'
  <2>1. Walled(d) \in SUBSET Cells
    BY <1>6 DEF Walled, Plans
  <2>2. walls' \in [Sides -> SUBSET Cells]
    BY <1>0, <1>2, <2>1 DEF Typed
  <2>3. at' \in [Sides -> Cells] /\ plan' \in [Sides -> Plans]
    BY <1>0, <1>2, <1>6 DEF Typed
  <2> QED BY <1>0, <1>1, <1>3, <2>2, <2>3 DEF Typed
<1>7. CASE s = "cop"
  <2>1. d \in Plans /\ Sound(d, at["cop"], walls["cop"])
    BY <1>0, <1>2, <1>4, <1>7, CopWallSet, CopDecidesSoundly DEF Decisions
  <2>2. /\ at'["cop"] = Settled("cop", d, walls["cop"]) /\ at'["thief"] = at["thief"]
        /\ plan'["thief"] = plan["thief"]
        /\ pc'["cop"] = "applied" /\ pc'["thief"] = pc["thief"] /\ pc["cop"] = "decide"
    BY <1>0, <1>1, <1>2, <1>3, <1>7, SidesAreTwo DEF Typed
  <2>3. at'["cop"] \in Cells /\ CopIsFree'
    <3>1. plan'["thief"].wall = None
      BY <1>0, <2>2 DEF CopIsFree
    <3> QED BY <1>0, <1>5, <2>1, <2>2, <3>1, CopMoved DEF Committed
  <2>4. Typed'
    BY <1>6, <1>7, <2>1, <2>2, <2>3
  <2>5. pc["thief"] = "decide"
    BY <1>0, <1>1, <2>2 DEF InStep, Abreast
  <2>6. InStep'
    BY <1>4, <2>2, <2>5 DEF InStep, Abreast
  <2>7. ThiefIsFree'
    <3>1. ASSUME landed' = None PROVE ~BoxedIn'
      <4>1. walls'["thief"] = walls["thief"]
        BY <1>2, <1>5, <1>7, <3>1 DEF Walled
      <4> QED BY <1>0, <1>1, <2>2, <2>5, <4>1 DEF ThiefIsFree, BoxedIn
    <3> QED BY <1>4, <2>2, <2>5, <3>1 DEF ThiefIsFree, BoxedInByAWall, Committed
  <2>8. ThiefIsInTheOpen'
    BY <1>4, <2>2, <2>5 DEF ThiefIsInTheOpen, NobodyPlaysOnInAWall, Committed
  <2> QED BY <2>3, <2>4, <2>6, <2>7, <2>8 DEF Inv
<1>8. CASE s = "thief"
  <2>1. /\ d \in Plans /\ d.wall = None /\ d.aim \in LegalMoves(at["thief"], walls["thief"])
        /\ HasEscape(at["thief"], walls["thief"]) => HasEscape(d.aim, walls["thief"])
    BY <1>2, <1>4, <1>8, ThiefDecidesSafely DEF Decisions
  <2>2. walls'["cop"] = walls["cop"] /\ walls'["thief"] = walls["thief"] /\ landed' = landed
    BY <1>2, <1>5, <1>8, <2>1 DEF Walled
  <2>3. /\ at'["cop"] = at["cop"] /\ at'["thief"] \in {at["thief"], d.aim}
        /\ plan'["thief"] = d /\ plan'["cop"] = plan["cop"]
        /\ Settled(s, d, walls[s]) \in {at["thief"], d.aim}
        /\ pc'["thief"] = "applied" /\ pc'["cop"] = pc["cop"] /\ pc["cop"] = "applied"
        /\ pc["thief"] = "decide"
    BY <1>0, <1>1, <1>2, <1>3, <1>8, SidesAreTwo DEF Typed, Settled, SettleMove
  <2>4. Typed'
    BY <1>4, <1>6, <2>1, <2>3 DEF Plans
  <2>5. InStep'
    BY <1>4, <2>3 DEF InStep, Abreast
  <2>6. CopIsFree'
    BY <1>0, <2>1, <2>2, <2>3, CopUntouched
  <2>7. ThiefIsFree'
    <3>1. landed = None => HasEscape(at["thief"], walls["thief"])
      BY <1>0, <2>3 DEF ThiefIsFree, BoxedIn
    <3>2. landed = None => ~BoxedIn'
      BY <2>1, <2>2, <2>3, <3>1 DEF BoxedIn
    <3> QED BY <2>2, <2>3, <3>2 DEF ThiefIsFree, BoxedInByAWall, Committed
  <2>8. ThiefIsInTheOpen'
    BY <1>4, <2>3 DEF ThiefIsInTheOpen, NobodyPlaysOnInAWall, Committed
  <2> QED BY <2>4, <2>5, <2>6, <2>7, <2>8 DEF Inv
<1> QED BY <1>7, <1>8, SidesAreTwo

\* Both sides go on together, where they are and with the walls they have.
LEMMA TogetherKeeps ==
    ASSUME Inv, path = "harness", path' = path, NEW k \in {"heard", "over", "decide"},
           pc' = [s \in Sides |-> k],
           UNCHANGED <<at, walls, plan, caught, landed>>,
           step' \in [Sides -> Nat],
           outcome' \in [Sides -> {"capture", "survival", None}],
           pc["thief"] \in {"applied", "heard"},
           k = "decide" => ~BoxedIn
    PROVE  Inv'
<1>0. Typed /\ InStep /\ CopIsFree /\ ThiefIsFree /\ ThiefIsInTheOpen
  BY DEF Inv
<1>1. pc'["cop"] = k /\ pc'["thief"] = k /\ pc' \in [Sides -> Places]
  BY SidesAreTwo DEF Places
<1>2. Typed'
  BY <1>0, <1>1 DEF Typed
<1>3. InStep'
  BY <1>1 DEF InStep, Abreast
<1>4. CopIsFree'
  <2>1. plan'["thief"].wall = None
    BY <1>0 DEF CopIsFree
  <2> QED BY <1>0, <1>1, <2>1, CopUntouched DEF Committed
<1>5. ThiefIsFree'
  BY <1>0, <1>1 DEF ThiefIsFree, BoxedIn, BoxedInByAWall, Committed
<1>6. ThiefIsInTheOpen'
  BY <1>1 DEF ThiefIsInTheOpen, NobodyPlaysOnInAWall, Committed
<1> QED BY <1>2, <1>3, <1>4, <1>5, <1>6 DEF Inv

LEMMA ExchangeScentKeeps ==
    ASSUME Inv, ExchangeScent
    PROVE  Inv'
<1>1. /\ path = "harness" /\ path' = path /\ pc' = [s \in Sides |-> "heard"]
      /\ pc["thief"] = "applied"
      /\ UNCHANGED <<at, walls, plan, step, outcome, caught, landed>>
  BY SidesAreTwo DEF ExchangeScent, terms
<1>2. /\ step' \in [Sides -> Nat]
      /\ outcome' \in [Sides -> {"capture", "survival", None}]
  BY <1>1 DEF Inv, Typed
<1> QED BY <1>1, <1>2, TogetherKeeps

LEMMA CaptureKeeps ==
    ASSUME Inv, Capture
    PROVE  Inv'
<1>1. /\ path = "harness" /\ path' = path /\ pc' = [s \in Sides |-> "over"]
      /\ pc["thief"] = "heard"
      /\ outcome' = [s \in Sides |-> "capture"]
      /\ UNCHANGED <<at, walls, plan, step, caught, landed>>
  BY SidesAreTwo DEF Capture, terms
<1>2. /\ step' \in [Sides -> Nat]
      /\ outcome' \in [Sides -> {"capture", "survival", None}]
  BY <1>1 DEF Inv, Typed
<1> QED BY <1>1, <1>2, TogetherKeeps

LEMMA FullTurnKeeps ==
    ASSUME Inv, FullTurn
    PROVE  Inv'
<1>1. /\ path = "harness" /\ path' = path /\ pc["thief"] = "heard" /\ ~BoxedIn
      /\ step' = [s \in Sides |-> step[s] + 1]
      /\ UNCHANGED <<at, walls, plan, caught, landed>>
  BY SidesAreTwo DEF FullTurn, terms, TerminalOutcome
<1>2. step' \in [Sides -> Nat]
  BY <1>1 DEF Inv, Typed
<1>3. CASE step'["thief"] >= Threshold[path]
  <2>1. pc' = [s \in Sides |-> "over"] /\ outcome' = [s \in Sides |-> "survival"]
    BY <1>3 DEF FullTurn
  <2>2. outcome' \in [Sides -> {"capture", "survival", None}]
    BY <2>1
  <2> QED BY <1>1, <1>2, <2>1, <2>2, TogetherKeeps
<1>4. CASE ~(step'["thief"] >= Threshold[path])
  <2>1. pc' = [s \in Sides |-> "decide"] /\ outcome' = outcome
    BY <1>4 DEF FullTurn
  <2>2. outcome' \in [Sides -> {"capture", "survival", None}]
    BY <2>1 DEF Inv, Typed
  <2> QED BY <1>1, <1>2, <2>1, <2>2, TogetherKeeps
<1> QED BY <1>3, <1>4

-----------------------------------------------------------------------------
(* The theorems. *)

THEOREM Invariance == Spec => []Inv
<1>1. ASSUME Inv, [Next]_vars PROVE Inv'
  <2>1. CASE UNCHANGED vars
    <3>1. UNCHANGED <<path, pc, at, walls, step, plan, caught, outcome, landed>>
      BY <2>1 DEF vars, terms
    <3> QED
      BY <1>1, <3>1 DEF Inv, Typed, InStep, Abreast, CopIsFree, CopStaysFree, ThiefIsFree,
         ThiefIsInTheOpen, NotYet, Heading, BoxedIn, BoxedInByAWall, NobodyPlaysOnInAWall
  <2>2. CASE Next
    <3>1. ASSUME NEW s \in Sides, Step(s) PROVE Inv'
      BY <1>1, <3>1, HalfTurnKeeps, DecideKeeps, RevealKeeps, ApplyKeeps, PullKeeps,
         EndOfTurnKeeps DEF Step
    <3> QED BY <1>1, <2>2, <3>1, ExchangeScentKeeps, CaptureKeeps, FullTurnKeeps DEF Next
  <2> QED BY <1>1, <2>1, <2>2
<1> QED BY InitInv, <1>1, PTL DEF Spec

\* The cop never stands in a wall nor walls itself in, on either path and whatever its
\* settings: not even the wall on the target's own cell, which _keeps_us_mobile lets
\* pass, is ever built (cop_brain.py).
THEOREM TheCopStaysFree == Spec => []CopStaysFree
<1>1. Inv => CopStaysFree
  BY DEF Inv, CopIsFree
<1> QED BY Invariance, <1>1, PTL

\* Left alone the thief never steps into a cell, nor stays in one, that it cannot leave
\* (thief_brain.py _survivable).
THEOREM BoxedInOnlyByAWall == Spec => []BoxedInByAWall
<1>1. Inv => BoxedInByAWall
  BY DEF Inv, ThiefIsFree
<1> QED BY Invariance, <1>1, PTL

\* Rule 46: a wall on the cell the thief settles on is answered as a capture, however
\* the two reveals and the two moves interleave (answer_capture_claim).
THEOREM NoPlayInsideAWall == Spec => []NobodyPlaysOnInAWall
<1>1. Inv => NobodyPlaysOnInAWall
  BY DEF Inv, ThiefIsInTheOpen
<1> QED BY Invariance, <1>1, PTL

-----------------------------------------------------------------------------
(* A trail read in time, without a lag. *)

\* The thief has emitted in the turn it is in.
Emitting == pc["thief"] \in {"applied", "heard"}

\* The turn the cop has sampled last.
Seen == IF pc["cop"] = "heard" THEN step["cop"] ELSE step["cop"] - 1

NewestCell == trod["thief"][Len(trod["thief"])]

ReadTyped ==
    /\ field \in [Sides -> [Cells -> Int]]
    /\ trod \in [Sides -> Seq(Cells)]
    /\ prompt \in Nat

\* What the thief's field is to the sample in time that the cop kept of it: that
\* sample, then decayed, then with the new cell's kernel on it.
Followed ==
    /\ path = "wire" /\ model = Book
    /\ last # None
    /\ step["thief"] = Seen => Emitting /\ field["thief"] = last
    /\ step["thief"] = Seen + 1 /\ ~Emitting => field["thief"] = Decay(Book, last)
    /\ step["thief"] = Seen + 1 /\ Emitting =>
            NewestCell \in Cells /\ field["thief"] = Predicted(last, NewestCell)

Live ==
    /\ ReadTyped
    /\ lag = 0 /\ prompt >= 1 => Followed
    /\ FreshTrailIsInverted

\* Every kernel is a strength everywhere on the board.
LEMMA DepositsAreStrengths ==
    ASSUME NEW c \in Cells, NEW d \in Cells, NEW m
    PROVE  Deposit(m, c, d) \in Int /\ 0 <= Deposit(m, c, d) /\ Deposit(m, c, d) <= Peak
<1> DEFINE i == Distance(c[1], d[1])
           j == Distance(c[2], d[2])
<1>1. i \in Nat /\ j \in Nat
  BY CellsArePairs DEF Distance
<1>2. Larger(i, j) \in Nat /\ i <= Larger(i, j) /\ j <= Larger(i, j)
  BY <1>1 DEF Larger
<1>3. Deposit(m, c, d) = IF Larger(i, j) > 2 THEN 0
                         ELSE IF m = Book THEN 10000 * BookTable[i + 1][j + 1]
                         ELSE Peak - 300000 * Larger(i, j)
  BY DEF Deposit
<1> HIDE DEF i, j
<1>4. Larger(i, j) <= 2 => BookTable[i + 1][j + 1] \in 0 .. 90
  <2> SUFFICES ASSUME Larger(i, j) <= 2 PROVE BookTable[i + 1][j + 1] \in 0 .. 90
    OBVIOUS
  <2>1. i \in {0, 1, 2} /\ j \in {0, 1, 2}
    BY <1>1, <1>2
  <2> QED BY <2>1 DEF BookTable
<1>5. CASE Larger(i, j) > 2
  BY <1>3, <1>5 DEF Peak
<1>6. CASE Larger(i, j) <= 2 /\ m = Book
  BY <1>2, <1>3, <1>4, <1>6 DEF Peak
<1>7. CASE Larger(i, j) <= 2 /\ m # Book
  BY <1>2, <1>3, <1>7 DEF Peak
<1> QED BY <1>2, <1>5, <1>6, <1>7

\* Decays and emissions make fields out of fields.
LEMMA FieldsAreNumbers ==
    ASSUME NEW f \in [Cells -> Int], NEW m
    PROVE  /\ Decay(m, f) \in [Cells -> Int]
           /\ \A c \in Cells : Emit(m, f, c) \in [Cells -> Int]
<1>1. Decay(m, f) \in [Cells -> Int]
  BY DEF Decay, Larger
<1>2. ASSUME NEW c \in Cells PROVE Emit(m, f, c) \in [Cells -> Int]
  <2>1. ASSUME NEW d \in Cells
        PROVE (IF m = Book THEN Smaller(Peak, f[d] + Deposit(m, c, d))
                           ELSE Larger(f[d], Deposit(m, c, d))) \in Int
    BY <2>1, <1>2, DepositsAreStrengths DEF Smaller, Larger, Peak
  <2> QED BY <2>1 DEF Emit
<1> QED BY <1>1, <1>2

\* Decaying and then emitting at a cell is what the fit predicts for that cell.
LEMMA FitRepeatsTheTrail ==
    ASSUME NEW f, NEW c
    PROVE  Emit(Book, Decay(Book, f), c) = Predicted(f, c)
<1>1. \A d \in Cells : Decay(Book, f)[d] = (f[d] * 9) \div 10
  BY DEF Decay
<1> QED BY <1>1 DEF Emit, Predicted

\* The fit considers every cell of the board.
LEMMA CellsAreCandidates == Cells \subseteq Candidates
<1>1. GridSize \in Int /\ 0 .. GridSize - 1 \subseteq (-2) .. (GridSize + 1)
  BY BoardAssumption
<1> QED BY <1>1 DEF Cells, Candidates

\* Nothing was sampled before the first turn.
LEMMA LiveInit == Init => Live
<1> SUFFICES ASSUME Init PROVE Live
  OBVIOUS
<1>1. prompt = 0
  BY DEF Init
<1>2. ReadTyped
  <2>1. Silent \in [Cells -> Int]
    BY DEF Silent
  <2>2. field = [s \in Sides |-> Silent] /\ trod = [s \in Sides |-> <<>>]
    BY DEF Init
  <2> QED BY <1>1, <2>1, <2>2 DEF ReadTyped
<1>3. ~(prompt >= 1) /\ ~(prompt >= 2)
  BY <1>1
<1> QED BY <1>2, <1>3 DEF Live, FreshTrailIsInverted

\* A step that leaves the thief's trail alone, and on whichever side of its turn
\* the thief was, changes nothing of what the cop may read from it.
LEMMA TrailUntouched ==
    ASSUME Live, UNCHANGED <<path, model, lag, last, fits, prompt>>,
           ReadTyped', field'["thief"] = field["thief"], trod'["thief"] = trod["thief"],
           step'["thief"] = step["thief"], Emitting' = Emitting, Seen' = Seen,
           pc'["cop"] = "heard" => pc["cop"] = "heard"
    PROVE  Live'
<1>1. lag' = 0 /\ prompt' >= 1 => Followed'
  BY DEF Live, Followed, NewestCell
<1>2. FreshTrailIsInverted'
  BY DEF Live, FreshTrailIsInverted
<1> QED BY <1>1, <1>2 DEF Live

\* The thief moves: its field, decayed since it was sampled, is emitted into.
LEMMA LiveApply ==
    ASSUME Inv, Inv', Live, NEW s \in Sides, Apply(s)
    PROVE  Live'
<1> DEFINE cell == at'[s]
<1>0. /\ pc[s] = "revealed" /\ pc' = [pc EXCEPT ![s] = "applied"] /\ step' = step
      /\ UNCHANGED <<path, model, lag, last, fits, prompt>>
  BY DEF Apply, terms, read
<1>1. /\ field' = [field EXCEPT ![s] = Emit(model, @, cell)]
      /\ trod' = [trod EXCEPT ![s] = Append(@, cell)]
  <2>1. at \in [Sides -> Cells]
    BY DEF Inv, Typed
  <2>2. ApplyOwnMove(s, plan[s])
    BY DEF Apply
  <2>3. cell = Settled(s, plan[s], walls[s])
    BY <2>1, <2>2 DEF ApplyOwnMove
  <2> QED BY <2>2, <2>3 DEF ApplyOwnMove
<1>2. cell \in Cells /\ pc \in [Sides -> Places] /\ step \in [Sides -> Nat]
  BY DEF Inv, Typed
<1> HIDE DEF cell
<1>3. field \in [Sides -> [Cells -> Int]] /\ trod \in [Sides -> Seq(Cells)] /\ prompt \in Nat
  BY DEF Live, ReadTyped
<1>4. /\ trod'[s] = Append(trod[s], cell) /\ trod'[s] \in Seq(Cells)
      /\ trod'[s][Len(trod'[s])] = cell
      /\ field'[s] = Emit(model, field[s], cell) /\ field'[s] \in [Cells -> Int]
  <2>1. field[s] \in [Cells -> Int] /\ trod[s] \in Seq(Cells)
    BY <1>3
  <2>2. Emit(model, field[s], cell) \in [Cells -> Int]
    BY <1>2, <2>1, FieldsAreNumbers
  <2>3. \A q \in Seq(Cells) : /\ Append(q, cell) \in Seq(Cells)
                              /\ Append(q, cell)[Len(Append(q, cell))] = cell
    BY <1>2
  <2> QED BY <1>1, <1>3, <2>1, <2>2, <2>3
<1>5. ReadTyped'
  BY <1>0, <1>1, <1>3, <1>4 DEF ReadTyped
<1>6. CASE s = "cop"
  <2>1. /\ field'["thief"] = field["thief"] /\ trod'["thief"] = trod["thief"]
        /\ pc'["thief"] = pc["thief"] /\ pc'["cop"] = "applied" /\ pc["cop"] = "revealed"
    BY <1>0, <1>1, <1>2, <1>3, <1>6, SidesAreTwo
  <2>2. Emitting' = Emitting /\ Seen' = Seen
    BY <1>0, <2>1 DEF Emitting, Seen
  <2> QED BY <1>0, <1>5, <2>1, <2>2, TrailUntouched
<1>7. CASE s = "thief"
  <2>1. pc'["cop"] = pc["cop"] /\ pc'["thief"] = "applied" /\ pc["thief"] = "revealed"
    BY <1>0, <1>2, <1>7, SidesAreTwo
  <2>2. Emitting' /\ ~Emitting /\ Seen' = Seen /\ Seen \in Int
    BY <1>0, <1>2, <2>1, SidesAreTwo DEF Emitting, Seen
  <2>3. NewestCell' = cell
    BY <1>4, <1>7 DEF NewestCell
  <2>4. ASSUME lag = 0, prompt >= 1 PROVE Followed' /\ pc["cop"] # "heard"
    <3>1. Followed
      BY <2>4 DEF Live
    <3>2. step["thief"] # Seen
      BY <2>2, <3>1 DEF Followed
    <3>3. ASSUME step["thief"] = Seen + 1 PROVE field'["thief"] = Predicted(last, cell)
      <4>1. field["thief"] = Decay(Book, last) /\ model = Book
        BY <2>2, <3>1, <3>3 DEF Followed
      <4> QED BY <1>4, <1>7, <4>1, FitRepeatsTheTrail
    <3>4. Followed'
      BY <1>0, <1>2, <2>2, <2>3, <3>1, <3>2, <3>3 DEF Followed
    <3>5. ASSUME pc["cop"] = "heard" PROVE FALSE
      <4>1. path = "wire" /\ Turns(step["cop"], pc["cop"], step["thief"], pc["thief"])
        BY <3>1 DEF Followed, Inv, InStep
      <4>2. step["cop"] \in Nat /\ step["thief"] \in Nat
        BY <1>2, SidesAreTwo
      <4>3. step["thief"] = Seen
        BY <2>1, <3>5, <4>1, <4>2 DEF Turns, Ahead, Level, Seen
      <4> QED BY <3>2, <4>3
    <3> QED BY <3>4, <3>5
  <2>5. lag' = 0 /\ prompt' >= 1 => Followed'
    BY <1>0, <2>4
  <2>6. FreshTrailIsInverted'
    <3> SUFFICES ASSUME lag = 0, pc["cop"] = "heard", prompt >= 2 PROVE FALSE
      BY <1>0, <2>1 DEF FreshTrailIsInverted
    <3>1. prompt >= 1
      BY <1>3
    <3> QED BY <2>4, <3>1
  <2> QED BY <1>5, <2>5, <2>6 DEF Live
<1> QED BY <1>6, <1>7, SidesAreTwo

\* The cop samples a thief that has emitted: the newest cell explains the sample,
\* if the one before it was taken in time as well.
LEMMA LivePull ==
    ASSUME Inv, Live, NEW s \in Sides, Pull(s)
    PROVE  Live'
<1>0. /\ path = "wire" /\ pc[s] = "applied" /\ pc' = [pc EXCEPT ![s] = "heard"]
      /\ step' = step /\ field' = field /\ trod' = trod
      /\ UNCHANGED <<path, model, lag>> /\ FitDeposit(s)
  BY DEF Pull, terms, scent
<1>1. pc \in [Sides -> Places] /\ step["cop"] \in Nat /\ step["thief"] \in Nat
  BY SidesAreTwo DEF Inv, Typed
<1>2. field["thief"] \in [Cells -> Int] /\ prompt \in Nat
  BY SidesAreTwo DEF Live, ReadTyped
<1>3. prompt' \in Nat
  BY <1>0, <1>2 DEF FitDeposit, read
<1>4. ReadTyped'
  BY <1>0, <1>3 DEF Live, ReadTyped
<1>5. CASE s = "thief"
  <2>1. UNCHANGED <<last, fits, prompt>>
    BY <1>0, <1>5 DEF FitDeposit, read
  <2>2. pc'["cop"] = pc["cop"] /\ pc'["thief"] = "heard" /\ pc["thief"] = "applied"
    BY <1>0, <1>1, <1>5, SidesAreTwo
  <2>3. Emitting' = Emitting /\ Seen' = Seen
    BY <1>0, <2>2 DEF Emitting, Seen
  <2> QED BY <1>0, <1>4, <2>1, <2>2, <2>3, TrailUntouched
<1>6. CASE s = "cop"
  <2>1. /\ pc["cop"] = "applied" /\ pc'["cop"] = "heard" /\ pc'["thief"] = pc["thief"]
        /\ Emitting' = Emitting /\ Seen = step["cop"] - 1 /\ Seen' = step["cop"]
        /\ NewestCell' = NewestCell
    BY <1>0, <1>1, <1>6, SidesAreTwo DEF Emitting, Seen, NewestCell
  <2>2. CASE model # Book
    <3>1. UNCHANGED <<last, fits, prompt>>
      BY <1>0, <2>2 DEF FitDeposit, read
    <3>2. lag = 0 => ~(prompt >= 1)
      BY <2>2 DEF Live, Followed
    <3>3. lag' = 0 => ~(prompt' >= 1) /\ ~(prompt' >= 2)
      BY <1>0, <1>2, <3>1, <3>2
    <3> QED BY <1>4, <3>3 DEF Live, FreshTrailIsInverted
  <2>3. CASE model = Book /\ lag = 0
    <3>1. Sampled("cop") = field["thief"]
      BY <2>3, SidesAreTwo DEF Sampled, Transmitted
    <3>2. /\ fits' = IF last = None THEN fits ELSE ExactFits(last, field["thief"])
          /\ last' = field["thief"]
          /\ prompt' = IF Emitting THEN prompt + 1 ELSE 0
      BY <1>0, <1>6, <2>3, <3>1 DEF FitDeposit, Emitting
    <3>3. last' # None
      BY <1>2, <3>2, ChaseAssumption
    <3>4. Emitting => step["thief"] = step["cop"]
      BY <1>0, <1>1, <2>1 DEF Inv, InStep, Turns, Ahead, Level, Emitting
    <3>5. prompt' >= 1 => Followed'
      <4> SUFFICES ASSUME prompt' >= 1 PROVE Followed'
        OBVIOUS
      <4>1. Emitting /\ step["thief"] = Seen'
        BY <2>1, <3>2, <3>4
      <4>2. step'["thief"] = Seen' /\ step'["thief"] # Seen' + 1 /\ Emitting'
        BY <1>0, <1>1, <2>1, <4>1
      <4> QED BY <1>0, <2>3, <3>2, <3>3, <4>2 DEF Followed
    <3>6. FreshTrailIsInverted'
      <4> SUFFICES ASSUME prompt' >= 2 PROVE NewestCell \in fits'
        BY <1>0 DEF FreshTrailIsInverted, NewestCell
      <4>1. Emitting /\ prompt >= 1
        BY <1>2, <3>2
      <4>2. Followed
        BY <2>3, <4>1 DEF Live
      <4>3. /\ last # None /\ NewestCell \in Cells
            /\ field["thief"] = Predicted(last, NewestCell)
        BY <1>1, <2>1, <3>4, <4>1, <4>2 DEF Followed
      <4>4. fits' = ExactFits(last, field["thief"])
        BY <3>2, <4>3
      <4>5. NewestCell \in fits'
        BY <4>3, <4>4, CellsAreCandidates DEF ExactFits
      <4> QED BY <4>5
    <3> QED BY <1>4, <3>5, <3>6 DEF Live
  <2>4. CASE lag # 0
    BY <1>0, <1>4, <2>4 DEF Live, FreshTrailIsInverted
  <2> QED BY <2>2, <2>3, <2>4
<1> QED BY <1>5, <1>6, SidesAreTwo

\* A turn ends: the thief's field decays, the sample that was kept does not.
LEMMA LiveEndOfTurn ==
    ASSUME Inv, Live, NEW s \in Sides, EndOfTurn(s)
    PROVE  Live'
<1>0. /\ path = "wire" /\ pc[s] = "heard"
      /\ pc' = [pc EXCEPT ![s] = IF outcome'[s] = None THEN "decide" ELSE "over"]
      /\ step' = [step EXCEPT ![s] = @ + 1]
      /\ field' = [field EXCEPT ![s] = Decay(model, @)] /\ trod' = trod
      /\ UNCHANGED <<path, model, lag, last, fits, prompt>>
  BY DEF EndOfTurn, terms, read
<1>1. pc \in [Sides -> Places] /\ step \in [Sides -> Nat]
  BY DEF Inv, Typed
<1>2. field \in [Sides -> [Cells -> Int]] /\ trod \in [Sides -> Seq(Cells)] /\ prompt \in Nat
  BY DEF Live, ReadTyped
<1>3. ReadTyped'
  <2>1. Decay(model, field[s]) \in [Cells -> Int]
    BY <1>2, FieldsAreNumbers
  <2> QED BY <1>0, <1>2, <2>1 DEF ReadTyped
<1>4. pc'[s] \in {"decide", "over"}
  BY <1>0, <1>1
<1>5. CASE s = "cop"
  <2>1. /\ field'["thief"] = field["thief"] /\ step'["thief"] = step["thief"]
        /\ pc'["thief"] = pc["thief"] /\ pc["cop"] = "heard" /\ pc'["cop"] # "heard"
        /\ step'["cop"] = step["cop"] + 1 /\ step["cop"] \in Nat
    BY <1>0, <1>1, <1>2, <1>4, <1>5, SidesAreTwo
  <2>2. Emitting' = Emitting /\ Seen' = Seen
    BY <2>1 DEF Emitting, Seen
  <2> QED BY <1>0, <1>3, <2>1, <2>2, TrailUntouched
<1>6. CASE s = "thief"
  <2>1. /\ field'["thief"] = Decay(model, field["thief"])
        /\ step'["thief"] = step["thief"] + 1 /\ step["thief"] \in Nat
        /\ pc'["cop"] = pc["cop"] /\ step'["cop"] = step["cop"] /\ step["cop"] \in Nat
        /\ pc["thief"] = "heard" /\ pc'["thief"] \notin {"applied", "heard"}
    BY <1>0, <1>1, <1>2, <1>4, <1>6, SidesAreTwo
  <2>2. Emitting /\ ~Emitting' /\ Seen' = Seen /\ Seen \in Int
    BY <2>1 DEF Emitting, Seen
  <2>3. ASSUME lag = 0, prompt >= 1 PROVE Followed'
    <3>1. Followed
      BY <2>3 DEF Live
    <3>2. path' = "wire" /\ model' = Book /\ last' # None /\ last' = last
      BY <1>0, <3>1 DEF Followed
    <3>3. step'["thief"] # Seen'
      <4>1. Turns(step["cop"], pc["cop"], step["thief"], pc["thief"])
        BY <1>0 DEF Inv, InStep
      <4> QED BY <1>1, <2>1, <2>2, <4>1 DEF Turns, Ahead, Level, Seen
    <3>4. step'["thief"] = Seen' + 1 => field'["thief"] = Decay(Book, last')
      <4>1. step'["thief"] = Seen' + 1 => step["thief"] = Seen
        BY <2>1, <2>2
      <4> QED BY <2>1, <3>1, <3>2, <4>1 DEF Followed
    <3> QED BY <2>2, <3>2, <3>3, <3>4 DEF Followed
  <2>4. FreshTrailIsInverted'
    BY <1>0, <2>1 DEF Live, FreshTrailIsInverted
  <2> QED BY <1>0, <1>3, <2>3, <2>4 DEF Live
<1> QED BY <1>5, <1>6, SidesAreTwo

\* Deciding and revealing move no trail.
LEMMA LiveSealed ==
    ASSUME Inv, Live, NEW s \in Sides, path = "wire", Decide(s) \/ Reveal(s)
    PROVE  Live'
<1>0. /\ UNCHANGED <<path, model, lag, last, fits, prompt, field, trod, step>>
      /\ pc[s] \in {"decide", "sealed"}
      /\ \E k \in {"sealed", "revealed"} : pc' = [pc EXCEPT ![s] = k]
  BY DEF Decide, Reveal, terms, scent, read
<1>1. pc \in [Sides -> Places]
  BY DEF Inv, Typed
<1>2. /\ pc'[s] \in {"sealed", "revealed"}
      /\ \A o \in Sides : o # s => pc'[o] = pc[o]
  BY <1>0, <1>1
<1>3. Emitting' = Emitting
  BY <1>0, <1>2, SidesAreTwo DEF Emitting
<1>4. (pc'["cop"] = "heard") = (pc["cop"] = "heard")
  BY <1>0, <1>2, SidesAreTwo
<1>5. Seen' = Seen
  BY <1>0, <1>4 DEF Seen
<1>6. ReadTyped'
  BY <1>0 DEF Live, ReadTyped
<1> QED BY <1>0, <1>3, <1>4, <1>5, <1>6, TrailUntouched

\* The harness reads nothing.
LEMMA LiveHarness ==
    ASSUME Inv, Inv', Live, path = "harness",
           (\E s \in Sides : HalfTurn(s)) \/ ExchangeScent \/ Capture \/ FullTurn
    PROVE  Live'
<1>1. UNCHANGED <<path, model, lag, prompt>>
  BY DEF HalfTurn, ExchangeScent, Capture, FullTurn, terms, read
<1>2. lag = 0 => ~(prompt >= 1) /\ ~(prompt >= 2)
  BY DEF Live, Followed, ReadTyped
<1>3. ReadTyped'
  <2>0. field \in [Sides -> [Cells -> Int]] /\ trod \in [Sides -> Seq(Cells)] /\ prompt \in Nat
    BY DEF Live, ReadTyped
  <2>1. CASE \E s \in Sides : HalfTurn(s)
    <3>0. PICK s \in Sides : HalfTurn(s)
      BY <2>1
    <3>1. PICK d \in Decisions(s) : ApplyOwnMove(s, d)
      BY <3>0 DEF HalfTurn
    <3>2. at'[s] \in Cells /\ at \in [Sides -> Cells]
      BY DEF Inv, Typed
    <3> DEFINE cell == Settled(s, d, walls[s])
    <3>3. /\ cell \in Cells
          /\ field' = [field EXCEPT ![s] = Emit(model, @, cell)]
          /\ trod' = [trod EXCEPT ![s] = Append(@, cell)]
      BY <3>1, <3>2 DEF ApplyOwnMove
    <3> HIDE DEF cell
    <3>4. field[s] \in [Cells -> Int] /\ trod[s] \in Seq(Cells)
      BY <2>0
    <3>5. Append(trod[s], cell) \in Seq(Cells)
      BY <3>3, <3>4
    <3>6. Emit(model, field[s], cell) \in [Cells -> Int]
      BY <3>3, <3>4, FieldsAreNumbers
    <3> QED BY <1>1, <2>0, <3>3, <3>5, <3>6 DEF ReadTyped
  <2>2. CASE ExchangeScent \/ Capture
    BY <1>1, <2>0, <2>2 DEF ExchangeScent, Capture, scent, ReadTyped
  <2>3. CASE FullTurn
    <3>1. field' = [s \in Sides |-> Decay(model, field[s])] /\ trod' = trod
      BY <2>3 DEF FullTurn
    <3> QED BY <1>1, <2>0, <3>1, FieldsAreNumbers DEF ReadTyped
  <2> QED BY <2>1, <2>2, <2>3
<1> QED BY <1>1, <1>2, <1>3 DEF Live, FreshTrailIsInverted

\* With no lag, on every board and however saturated the field is, the cell the
\* thief has just trod explains what the cop samples, whenever this sample and the
\* one before were taken between the thief's step and the end of its turn
\* (trail_inversion.py deposit_centre): the fit repeats decay, deposit and clamp in
\* the order in which the field was made.
THEOREM LiveTrailsAreInverted == Spec => []FreshTrailIsInverted
<1>1. Init => Live
  BY LiveInit
<1>2. ASSUME Inv, Inv', Live, [Next]_vars PROVE Live'
  <2>1. CASE UNCHANGED vars
    <3>1. UNCHANGED <<path, lag, model, field, trod, last, fits, prompt, pc, step>>
      BY <2>1 DEF vars, terms, scent, read
    <3>2. Emitting' = Emitting /\ Seen' = Seen /\ ReadTyped'
      BY <1>2, <3>1 DEF Emitting, Seen, Live, ReadTyped
    <3> QED BY <1>2, <3>1, <3>2, TrailUntouched
  <2>2. ASSUME NEW s \in Sides, Step(s) PROVE Live'
    <3>1. CASE HalfTurn(s)
      BY <1>2, <3>1, LiveHarness DEF HalfTurn
    <3>2. CASE Decide(s)
      BY <1>2, <3>2, LiveSealed DEF Decide
    <3>3. CASE Reveal(s)
      BY <1>2, <3>3, LiveSealed, CommittedOnTheWire DEF Reveal, Committed
    <3>4. CASE Apply(s)
      BY <1>2, <3>4, LiveApply
    <3>5. CASE Pull(s)
      BY <1>2, <3>5, LivePull
    <3>6. CASE EndOfTurn(s)
      BY <1>2, <3>6, LiveEndOfTurn
    <3> QED BY <2>2, <3>1, <3>2, <3>3, <3>4, <3>5, <3>6 DEF Step
  <2>3. CASE ExchangeScent \/ Capture \/ FullTurn
    BY <1>2, <2>3, LiveHarness DEF ExchangeScent, Capture, FullTurn
  <2> QED BY <1>2, <2>1, <2>2, <2>3 DEF Next
<1>3. Live => FreshTrailIsInverted
  BY DEF Live
<1> QED BY <1>1, <1>2, <1>3, Invariance, PTL DEF Spec

-----------------------------------------------------------------------------
(* Induction: a set of numbers has a least one, a set that holds 0 and the *)
(* successor of whatever it holds has them all, and what is defined by     *)
(* recursion over the numbers exists.                                      *)

\* The least-number principle is taken from the well-foundedness of < on Nat.
LEMMA LeastIn ==
    ASSUME NEW S \in SUBSET Nat, S # {}
    PROVE  \E m \in S : \A n \in S : m <= n
<1>0. \A a, b \in Nat : a < b => <<a, b>> \in OpToRel(<, Nat)
  BY DEF OpToRel
<1>1. \E R : IsWellFoundedOn(R, Nat) /\ \A a, b \in Nat : a < b => <<a, b>> \in R
  BY <1>0, NatLessThanWellFounded, Zenon
<1>2. PICK R : IsWellFoundedOn(R, Nat) /\ \A a, b \in Nat : a < b => <<a, b>> \in R
  BY <1>1
<1>3. IsWellFoundedOn(R, Nat) /\ S \subseteq Nat /\ S # {}
  BY <1>2
<1>4. \E m \in S : \A n \in S : ~ (<<n, m>> \in R)
  BY <1>3, WFMin
<1>5. PICK m \in S : \A n \in S : ~ (<<n, m>> \in R)
  BY <1>4
<1>6. \A n \in S : ~ (n < m)
  BY <1>2, <1>5
<1>7. \A n \in S : m <= n
  BY <1>6
<1> QED BY <1>7

\* A set that holds 0 and the successor of whatever it holds has all the numbers.
LEMMA SetInduction ==
    ASSUME NEW S, 0 \in S, \A n \in Nat : n \in S => n + 1 \in S
    PROVE  Nat \subseteq S
<1> SUFFICES ASSUME Nat \ S # {} PROVE FALSE
  OBVIOUS
<1>1. PICK m \in Nat \ S : \A n \in Nat \ S : m <= n
  BY LeastIn
<1>2. m # 0 /\ m - 1 \in Nat /\ m - 1 \notin Nat \ S
  BY <1>1
<1> QED BY <1>1, <1>2

Follows(g, a, F) == g[0] = a /\ \A n \in Nat : g[n + 1] = F[<<n + 1, g[n]>>]

\* What is given at 0, and from each number to the next, is given for all of them.
LEMMA PrimitiveRecursion ==
    ASSUME NEW S, NEW a \in S, NEW F \in [Nat \X S -> S]
    PROVE  \E g \in [Nat -> S] : Follows(g, a, F)
<1> DEFINE Starts(n) == {g \in [0 .. n -> S] :
                 g[0] = a /\ \A i \in Nat : i < n => g[i + 1] = F[<<i + 1, g[i]>>]}
           Started == {n \in Nat : Starts(n) # {}}
<1>1. Nat \subseteq Started
  <2>1. 0 \in Started
    <3>1. [i \in 0 .. 0 |-> a] \in Starts(0)
      OBVIOUS
    <3> QED BY <3>1
  <2>2. ASSUME NEW n \in Nat, n \in Started PROVE n + 1 \in Started
    <3>1. PICK g \in [0 .. n -> S] :
              g[0] = a /\ \A i \in Nat : i < n => g[i + 1] = F[<<i + 1, g[i]>>]
      BY <2>2
    <3> DEFINE h == [i \in 0 .. n + 1 |-> IF i = n + 1 THEN F[<<n + 1, g[n]>>] ELSE g[i]]
    <3>2. g[n] \in S /\ F[<<n + 1, g[n]>>] \in S
      BY <2>2, <3>1
    <3>3. h \in [0 .. n + 1 -> S]
      <4>1. ASSUME NEW i \in 0 .. n + 1
            PROVE  (IF i = n + 1 THEN F[<<n + 1, g[n]>>] ELSE g[i]) \in S
        BY <2>2, <3>1, <3>2, <4>1
      <4> QED BY <4>1
    <3>4. h[0] = a
      BY <2>2, <3>1
    <3>5. ASSUME NEW i \in Nat, i < n + 1 PROVE h[i + 1] = F[<<i + 1, h[i]>>]
      <4>1. CASE i = n
        <5>1. h[n + 1] = F[<<n + 1, g[n]>>] /\ h[n] = g[n]
          BY <2>2
        <5> HIDE DEF h
        <5> QED BY <4>1, <5>1
      <4>2. CASE i < n
        BY <2>2, <3>1, <3>5, <4>2
      <4> QED BY <2>2, <3>5, <4>1, <4>2
    <3>6. h \in Starts(n + 1)
      <4> HIDE DEF h
      <4> QED BY <2>2, <3>3, <3>4, <3>5
    <3> HIDE DEF h, Starts
    <3> QED BY <2>2, <3>6
  <2> HIDE DEF Started
  <2> QED BY <2>1, <2>2, SetInduction
<1>2. ASSUME NEW n \in Nat, NEW g \in Starts(n), NEW h \in Starts(n + 1)
      PROVE  g[n] = h[n]
  <2> DEFINE Agreed == {k \in Nat : k <= n => g[k] = h[k]}
  <2>1. 0 \in Agreed
    BY <1>2
  <2>2. ASSUME NEW k \in Nat, k \in Agreed PROVE k + 1 \in Agreed
    <3>1. CASE k + 1 <= n
      <4>1. k < n /\ k < n + 1
        BY <1>2, <2>2, <3>1
      <4>2. g[k + 1] = F[<<k + 1, g[k]>>] /\ h[k + 1] = F[<<k + 1, h[k]>>]
        BY <1>2, <4>1
      <4> QED BY <2>2, <3>1, <4>2
    <3>2. CASE ~ (k + 1 <= n)
      BY <2>2, <3>2
    <3> QED BY <3>1, <3>2
  <2>3. Nat \subseteq Agreed
    <3> HIDE DEF Agreed
    <3> QED BY <2>1, <2>2, SetInduction
  <2> QED BY <1>2, <2>3
<1> DEFINE start == [n \in Nat |-> CHOOSE g \in Starts(n) : TRUE]
           all == [n \in Nat |-> start[n][n]]
<1>3. \A n \in Nat : start[n] \in Starts(n)
  BY <1>1
<1>4. \A n \in Nat : all[n] = start[n][n]
  OBVIOUS
<1>5. all \in [Nat -> S]
  <2>1. ASSUME NEW n \in Nat PROVE start[n][n] \in S
    <3>1. start[n] \in [0 .. n -> S]
      BY <1>3
    <3> HIDE DEF start
    <3> QED BY <2>1, <3>1
  <2> HIDE DEF start
  <2> QED BY <2>1
<1>6. all[0] = a
  BY <1>3, <1>4
<1>7. ASSUME NEW n \in Nat PROVE all[n + 1] = F[<<n + 1, all[n]>>]
  <2>1. start[n][n] = start[n + 1][n]
    <3> HIDE DEF start, Starts
    <3> QED BY <1>2, <1>3, <1>7
  <2>2. start[n + 1][n + 1] = F[<<n + 1, start[n + 1][n]>>]
    <3>1. start[n + 1] \in Starts(n + 1)
      <4> HIDE DEF start, Starts
      <4> QED BY <1>3, <1>7
    <3>2. n < n + 1
      BY <1>7
    <3> HIDE DEF start
    <3> QED BY <1>7, <3>1, <3>2
  <2> HIDE DEF all, start, Starts
  <2> QED BY <1>4, <1>7, <2>1, <2>2
<1> HIDE DEF all
<1> QED BY <1>5, <1>6, <1>7 DEF Follows

-----------------------------------------------------------------------------

\* what one decay leaves of a strength
Weaker(m, v) == IF m = Book THEN (v * 9) \div 10 ELSE Larger(0, v - 100000)

\* What is left of a deposit, decay by decay.
LEMMA RestUnfolds ==
    ASSUME NEW m, NEW c \in Cells, NEW d \in Cells
    PROVE  /\ Rest(m, c, d, 0) = Deposit(m, c, d)
           /\ \A n \in Nat : /\ Rest(m, c, d, n) \in Int
                             /\ Rest(m, c, d, n + 1) = Weaker(m, Rest(m, c, d, n))
<1> DEFINE F == [p \in Nat \X Int |-> Weaker(m, p[2])]
           Is(g) == g = [i \in Nat |->
                         IF i = 0 THEN Deposit(m, c, d)
                         ELSE IF m = Book THEN (g[i - 1] * 9) \div 10
                         ELSE Larger(0, g[i - 1] - 100000)]
<1>1. \A v \in Int : Weaker(m, v) \in Int
  BY DEF Weaker, Larger
<1>2. F \in [Nat \X Int -> Int] /\ Deposit(m, c, d) \in Int
  BY <1>1, DepositsAreStrengths
<1>3. \A n \in Nat, v \in Int : F[<<n, v>>] = Weaker(m, v)
  OBVIOUS
<1>4. PICK g \in [Nat -> Int] : Follows(g, Deposit(m, c, d), F)
  <2> HIDE DEF F
  <2> QED BY <1>2, PrimitiveRecursion, Zenon
<1>5. Is(g)
  <2>1. ASSUME NEW i \in Nat
        PROVE  g[i] = IF i = 0 THEN Deposit(m, c, d) ELSE Weaker(m, g[i - 1])
    <3> HIDE DEF F
    <3>1. CASE i = 0
      BY <1>4, <3>1 DEF Follows
    <3>2. CASE i # 0
      <4>1. i - 1 \in Nat /\ i - 1 + 1 = i /\ g[i - 1] \in Int
        BY <1>4, <2>1, <3>2
      <4>2. g[i - 1 + 1] = F[<<i - 1 + 1, g[i - 1]>>]
        BY <1>4, <4>1 DEF Follows
      <4> QED BY <1>3, <3>2, <4>1, <4>2
    <3> QED BY <3>1, <3>2
  <2> QED BY <1>4, <2>1 DEF Weaker
<1> DEFINE rest == CHOOSE h : Is(h)
<1>6. Is(rest)
  <2> HIDE DEF Is
  <2> QED BY <1>5
<1>7. \A n : Rest(m, c, d, n) = rest[n]
  BY DEF Rest
<1> HIDE DEF rest
<1>8. /\ rest[0] = Deposit(m, c, d)
      /\ \A n \in Nat : rest[n + 1] = Weaker(m, rest[n])
  BY <1>6 DEF Weaker
<1>9. \A n \in Nat : rest[n] \in Int
  <2> DEFINE Numbers == {n \in Nat : rest[n] \in Int}
  <2>1. 0 \in Numbers /\ \A n \in Nat : n \in Numbers => n + 1 \in Numbers
    BY <1>1, <1>2, <1>8
  <2>2. Nat \subseteq Numbers
    <3> HIDE DEF Numbers
    <3> QED BY <2>1, SetInduction
  <2> QED BY <2>2
<1> QED BY <1>7, <1>8, <1>9

\* The sums of what is left of the first emissions.
AddsUp(sum, m, cells, d, turns) ==
    /\ sum[0] = 0
    /\ \A i \in 1 .. Len(cells) : sum[i] = sum[i - 1] + Left(m, cells, d, turns, i)
    /\ Together(m, cells, d, turns) = sum[Len(cells)]

\* What is left of all deposits is the last of such sums.
LEMMA TogetherUnfolds ==
    ASSUME NEW m, NEW cells \in Seq(Cells), NEW d \in Cells, NEW turns \in Nat,
           Len(cells) <= turns + 1
    PROVE  \E sum \in [0 .. Len(cells) -> Int] : AddsUp(sum, m, cells, d, turns)
<1> DEFINE Piece(i) == Left(m, cells, d, turns, i)
           n == Len(cells)
           F == [p \in Nat \X Int |-> IF p[1] \in 1 .. n THEN p[2] + Piece(p[1]) ELSE 0]
           Is(g) == g = [i \in 0 .. n |-> IF i = 0 THEN 0 ELSE g[i - 1] + Piece(i)]
<1>1. n \in Nat
  OBVIOUS
<1>2. \A i \in 1 .. n : Piece(i) \in Int
  <2>1. ASSUME NEW i \in 1 .. n PROVE Piece(i) \in Int
    <3>1. cells[i] \in Cells /\ turns - i + 1 \in Nat
      BY <2>1
    <3> QED BY <3>1, RestUnfolds DEF Left
  <2> QED BY <2>1
<1>3. F \in [Nat \X Int -> Int] /\ 0 \in Int
  <2> HIDE DEF Piece
  <2> QED BY <1>2
<1>4. \A i \in 1 .. n, v \in Int : F[<<i, v>>] = v + Piece(i)
  <2> HIDE DEF Piece
  <2> QED BY <1>1
<1> HIDE DEF Piece, F, n
<1>5. PICK h \in [Nat -> Int] : Follows(h, 0, F)
  BY <1>3, PrimitiveRecursion, Zenon
<1> DEFINE g == [i \in 0 .. n |-> h[i]]
<1>6. Is(g)
  <2>1. ASSUME NEW i \in 0 .. n
        PROVE  h[i] = IF i = 0 THEN 0 ELSE g[i - 1] + Piece(i)
    <3>1. CASE i = 0
      BY <1>5, <3>1 DEF Follows
    <3>2. CASE i # 0
      <4>1. i \in 1 .. n /\ i - 1 \in Nat /\ i - 1 \in 0 .. n /\ i - 1 + 1 = i
        BY <1>1, <2>1, <3>2
      <4>2. h[i - 1 + 1] = F[<<i - 1 + 1, h[i - 1]>>] /\ h[i - 1] \in Int
        BY <1>5, <4>1 DEF Follows
      <4> QED BY <1>4, <3>2, <4>1, <4>2
    <3> QED BY <3>1, <3>2
  <2> QED BY <2>1
<1> DEFINE sum == CHOOSE f : Is(f)
<1>7. Is(sum)
  <2> HIDE DEF Is, g
  <2> QED BY <1>6
<1>8. Together(m, cells, d, turns) = sum[n]
  BY DEF Together, Piece, n
<1> HIDE DEF sum
<1>9. sum[0] = 0 /\ \A i \in 1 .. n : sum[i] = sum[i - 1] + Piece(i)
  BY <1>1, <1>7
<1>10. sum \in [0 .. n -> Int]
  <2> DEFINE Numbers == {i \in Nat : i <= n => sum[i] \in Int}
  <2>1. 0 \in Numbers
    BY <1>9
  <2>2. ASSUME NEW i \in Nat, i \in Numbers PROVE i + 1 \in Numbers
    <3>1. CASE i + 1 <= n
      <4>1. i + 1 \in 1 .. n /\ i + 1 - 1 = i /\ sum[i] \in Int
        BY <1>1, <2>2, <3>1
      <4> QED BY <1>2, <1>9, <4>1
    <3>2. CASE ~ (i + 1 <= n)
      BY <2>2, <3>2
    <3> QED BY <3>1, <3>2
  <2>3. Nat \subseteq Numbers
    <3> HIDE DEF Numbers
    <3> QED BY <2>1, <2>2, SetInduction
  <2>4. \A i \in 0 .. n : sum[i] \in Int
    BY <1>1, <2>3
  <2> QED BY <1>7, <2>4
<1> QED BY <1>8, <1>9, <1>10 DEF AddsUp, Piece, n

\* The field after each of the emissions at these cells.
Grows(live, m, cells) ==
    /\ live[0] = Silent
    /\ \A i \in 1 .. Len(cells) : live[i] = Emit(m, Decay(m, live[i - 1]), cells[i])

LEMMA SilentIsAField == Silent \in [Cells -> Int]
BY DEF Silent

\* The fields a trail makes, emission by emission.
LEMMA EmittedUnfolds ==
    ASSUME NEW m, NEW cells \in Seq(Cells)
    PROVE  \E live \in [0 .. Len(cells) -> [Cells -> Int]] :
               /\ Grows(live, m, cells)
               /\ \A k \in 0 .. Len(cells) : Emitted(m, cells, k) = live[k]
<1> DEFINE n == Len(cells)
           S == [Cells -> Int]
           F == [p \in Nat \X S |->
                    IF p[1] \in 1 .. n THEN Emit(m, Decay(m, p[2]), cells[p[1]]) ELSE Silent]
           Is(g) == g = [i \in 0 .. n |->
                         IF i = 0 THEN Silent ELSE Emit(m, Decay(m, g[i - 1]), cells[i])]
<1>1. n \in Nat /\ Silent \in S /\ \A i \in 1 .. n : cells[i] \in Cells
  BY SilentIsAField
<1>2. \A f \in S, i \in 1 .. n : Emit(m, Decay(m, f), cells[i]) \in S
  <2> SUFFICES ASSUME NEW f \in S, NEW i \in 1 .. n
               PROVE  Emit(m, Decay(m, f), cells[i]) \in S
    OBVIOUS
  <2>1. Decay(m, f) \in S /\ cells[i] \in Cells
    BY <1>1, FieldsAreNumbers
  <2> QED BY <2>1, FieldsAreNumbers
<1>3. F \in [Nat \X S -> S]
  <2>1. ASSUME NEW p \in Nat \X S
        PROVE  (IF p[1] \in 1 .. n THEN Emit(m, Decay(m, p[2]), cells[p[1]]) ELSE Silent) \in S
    <3>1. p[2] \in S
      BY <2>1
    <3> HIDE DEF S, n
    <3> QED BY <1>1, <1>2, <3>1
  <2> HIDE DEF S, n
  <2> QED BY <2>1
<1>4. \A i \in 1 .. n : \A f \in S : F[<<i, f>>] = Emit(m, Decay(m, f), cells[i])
  <2> SUFFICES ASSUME NEW i \in 1 .. n, NEW f \in S
               PROVE  F[<<i, f>>] = Emit(m, Decay(m, f), cells[i])
    OBVIOUS
  <2>1. <<i, f>> \in Nat \X S
    BY <1>1
  <2> HIDE DEF S, n
  <2> QED BY <2>1
<1> HIDE DEF S, F, n
<1>5. PICK h \in [Nat -> S] : Follows(h, Silent, F)
  BY <1>1, <1>3, PrimitiveRecursion, Zenon
<1> DEFINE g == [i \in 0 .. n |-> h[i]]
<1>6. Is(g)
  <2>1. ASSUME NEW i \in 0 .. n
        PROVE  h[i] = IF i = 0 THEN Silent ELSE Emit(m, Decay(m, g[i - 1]), cells[i])
    <3>1. CASE i = 0
      BY <1>5, <3>1 DEF Follows
    <3>2. CASE i # 0
      <4>1. i \in 1 .. n /\ i - 1 \in Nat /\ i - 1 \in 0 .. n /\ i - 1 + 1 = i
        BY <1>1, <2>1, <3>2
      <4>2. h[i - 1 + 1] = F[<<i - 1 + 1, h[i - 1]>>] /\ h[i - 1] \in S
        BY <1>5, <4>1 DEF Follows
      <4>3. g[i - 1] = h[i - 1]
        BY <4>1
      <4> HIDE DEF g
      <4> QED BY <1>4, <3>2, <4>1, <4>2, <4>3
    <3> QED BY <3>1, <3>2
  <2> QED BY <2>1
<1> DEFINE live == CHOOSE f : Is(f)
<1>7. Is(live)
  <2> HIDE DEF Is, g
  <2> QED BY <1>6
<1>8. \A k : Emitted(m, cells, k) = IF k <= 0 THEN Silent ELSE live[k]
  BY DEF Emitted, n
<1> HIDE DEF live
<1>9. /\ live[0] = Silent
      /\ \A i \in 1 .. n : live[i] = Emit(m, Decay(m, live[i - 1]), cells[i])
  BY <1>1, <1>7
<1>10. live \in [0 .. n -> S]
  <2> DEFINE Fields == {i \in Nat : i <= n => live[i] \in S}
  <2>1. 0 \in Fields
    BY <1>1, <1>9
  <2>2. ASSUME NEW i \in Nat, i \in Fields PROVE i + 1 \in Fields
    <3>1. CASE i + 1 <= n
      <4>1. i + 1 \in 1 .. n /\ i + 1 - 1 = i /\ live[i] \in S
        BY <1>1, <2>2, <3>1
      <4> QED BY <1>2, <1>9, <4>1
    <3>2. CASE ~ (i + 1 <= n)
      BY <2>2, <3>2
    <3> QED BY <3>1, <3>2
  <2>3. Nat \subseteq Fields
    <3> HIDE DEF Fields
    <3> QED BY <2>1, <2>2, SetInduction
  <2>4. \A i \in 0 .. n : live[i] \in S
    BY <1>1, <2>3
  <2> QED BY <1>7, <2>4
<1>11. \A k \in 0 .. n : Emitted(m, cells, k) = live[k]
  BY <1>1, <1>8, <1>9
<1> QED BY <1>9, <1>10, <1>11 DEF Grows, S, n

\* One emission more leaves the fields before it as they were.
LEMMA EmittedStays ==
    ASSUME NEW m, NEW cells \in Seq(Cells), NEW c \in Cells
    PROVE  LET more == Append(cells, c) IN
           /\ \A k \in 0 .. Len(cells) : Emitted(m, more, k) = Emitted(m, cells, k)
           /\ Emitted(m, more, Len(more)) = Emit(m, Stale(m, cells, Len(more)), c)
<1> DEFINE more == Append(cells, c)
           n == Len(cells)
<1>1. /\ n \in Nat /\ more \in Seq(Cells) /\ Len(more) = n + 1 /\ more[n + 1] = c
      /\ \A i \in 1 .. n : more[i] = cells[i]
  OBVIOUS
<1> HIDE DEF more
<1>2. PICK old \in [0 .. n -> [Cells -> Int]] :
          Grows(old, m, cells) /\ \A k \in 0 .. n : Emitted(m, cells, k) = old[k]
  BY EmittedUnfolds
<1>3. PICK new \in [0 .. n + 1 -> [Cells -> Int]] :
          Grows(new, m, more) /\ \A k \in 0 .. n + 1 : Emitted(m, more, k) = new[k]
  <2>1. \E new \in [0 .. Len(more) -> [Cells -> Int]] :
            Grows(new, m, more) /\ \A k \in 0 .. Len(more) : Emitted(m, more, k) = new[k]
    BY <1>1, EmittedUnfolds
  <2> HIDE DEF n
  <2> QED BY <1>1, <2>1
<1> HIDE DEF n
<1> DEFINE Same == {k \in Nat : k <= n => new[k] = old[k]}
<1>4. 0 \in Same
  BY <1>2, <1>3 DEF Grows
<1>5. ASSUME NEW k \in Nat, k \in Same PROVE k + 1 \in Same
  <2>1. CASE k + 1 <= n
    <3>1. k + 1 \in 1 .. n /\ k + 1 \in 1 .. n + 1 /\ k + 1 - 1 = k /\ new[k] = old[k]
      BY <1>1, <1>5, <2>1
    <3>2. old[k + 1] = Emit(m, Decay(m, old[k + 1 - 1]), cells[k + 1])
      BY <1>2, <3>1 DEF Grows, n
    <3>3. new[k + 1] = Emit(m, Decay(m, new[k + 1 - 1]), more[k + 1])
      BY <1>1, <1>3, <3>1 DEF Grows
    <3> QED BY <1>1, <3>1, <3>2, <3>3
  <2>2. CASE ~ (k + 1 <= n)
    BY <1>5, <2>2
  <2> QED BY <2>1, <2>2
<1>6. Nat \subseteq Same
  <2> HIDE DEF Same
  <2> QED BY <1>4, <1>5, SetInduction
<1>7. ASSUME NEW k \in 0 .. n PROVE Emitted(m, more, k) = Emitted(m, cells, k)
  <2>1. k \in Nat /\ k <= n /\ k \in 0 .. n + 1
    BY <1>1, <1>7
  <2>2. new[k] = old[k]
    BY <1>6, <2>1
  <2> QED BY <1>2, <1>3, <1>7, <2>1, <2>2
<1>8. Emitted(m, more, n + 1) = Emit(m, Decay(m, Emitted(m, cells, n)), c)
  <2>1. n + 1 \in 1 .. n + 1 /\ n + 1 - 1 = n /\ n \in 0 .. n /\ n \in Nat /\ n + 1 \in 0 .. n + 1
    BY <1>1
  <2>2. new[n + 1] = Emit(m, Decay(m, new[n + 1 - 1]), more[n + 1])
    BY <1>1, <1>3, <2>1 DEF Grows
  <2>3. new[n] = old[n]
    BY <1>6, <2>1
  <2> QED BY <1>1, <1>2, <1>3, <2>1, <2>2, <2>3
<1>9. n + 1 - 1 = n
  BY <1>1
<1> QED BY <1>1, <1>7, <1>8, <1>9 DEF Stale, more, n

-----------------------------------------------------------------------------
(* A field and what is left of the emissions that made it. *)

\* What FieldIsTheTrail says of one strength.
Explains(m, cells, turns, d, v) ==
    LET n == Len(cells)
        rests == {Left(m, cells, d, turns, i) : i \in 1 .. n} \cup {0}
    IN  /\ \A r \in rests : r <= v
        /\ IF m = Subtractive THEN v \in rests
           ELSE v <= Smaller(Peak, Together(m, cells, d, turns) + Rounding * n)

\* A new emission is a piece of its own; the others are as they were.
LEMMA OnePieceMore ==
    ASSUME NEW m, NEW cells \in Seq(Cells), NEW c \in Cells, NEW d \in Cells
    PROVE  LET n == Len(cells)
               more == Append(cells, c)
           IN  /\ \A i \in 1 .. n : Left(m, more, d, n, i) = Left(m, cells, d, n, i)
               /\ Left(m, more, d, n, n + 1) = Deposit(m, c, d)
               /\ Together(m, more, d, n) = Together(m, cells, d, n) + Deposit(m, c, d)
               /\ Together(m, cells, d, n) \in Int
<1> DEFINE n == Len(cells)
           more == Append(cells, c)
<1>1. /\ n \in Nat /\ more \in Seq(Cells) /\ Len(more) = n + 1 /\ more[n + 1] = c
      /\ \A i \in 1 .. n : more[i] = cells[i]
  OBVIOUS
<1>2. PICK old \in [0 .. n -> Int] : AddsUp(old, m, cells, d, n)
  <2>1. n \in Nat /\ n <= n + 1
    BY <1>1
  <2> QED BY <2>1, TogetherUnfolds, Zenon
<1> HIDE DEF more
<1>3. PICK new \in [0 .. Len(more) -> Int] : AddsUp(new, m, more, d, n)
  <2> HIDE DEF n
  <2>1. Len(more) <= n + 1
    BY <1>1
  <2> QED BY <1>1, <2>1, TogetherUnfolds, Zenon
<1>a. /\ old[0] = 0 /\ \A i \in 1 .. n : old[i] = old[i - 1] + Left(m, cells, d, n, i)
      /\ Together(m, cells, d, n) = old[n]
  BY <1>2 DEF AddsUp
<1>b. /\ new[0] = 0 /\ \A i \in 1 .. n + 1 : new[i] = new[i - 1] + Left(m, more, d, n, i)
      /\ Together(m, more, d, n) = new[n + 1]
  BY <1>1, <1>3 DEF AddsUp
<1> HIDE DEF n
<1>4. \A i \in 1 .. n : Left(m, more, d, n, i) = Left(m, cells, d, n, i)
  BY <1>1 DEF Left
<1>5. Left(m, more, d, n, n + 1) = Deposit(m, c, d)
  <2>1. n - (n + 1) + 1 = 0
    BY <1>1
  <2> QED BY <1>1, <2>1, RestUnfolds DEF Left
<1> DEFINE Same == {k \in Nat : k <= n => new[k] = old[k]}
<1>6. 0 \in Same
  BY <1>a, <1>b
<1>7. ASSUME NEW k \in Nat, k \in Same PROVE k + 1 \in Same
  <2>1. CASE k + 1 <= n
    <3>1. k + 1 \in 1 .. n /\ k + 1 \in 1 .. n + 1 /\ k + 1 - 1 = k /\ new[k] = old[k]
      BY <1>1, <1>7, <2>1
    <3>2. old[k + 1] = old[k] + Left(m, cells, d, n, k + 1)
      BY <1>a, <3>1
    <3>3. new[k + 1] = new[k] + Left(m, more, d, n, k + 1)
      BY <1>b, <3>1
    <3> QED BY <1>4, <3>1, <3>2, <3>3
  <2>2. CASE ~ (k + 1 <= n)
    BY <1>7, <2>2
  <2> QED BY <2>1, <2>2
<1>8. Nat \subseteq Same
  <2> HIDE DEF Same
  <2> QED BY <1>6, <1>7, SetInduction
<1>9. new[n + 1] = old[n] + Deposit(m, c, d)
  <2>1. n + 1 \in 1 .. n + 1 /\ n + 1 - 1 = n /\ new[n] = old[n]
    BY <1>1, <1>8
  <2> DEFINE j == n + 1
  <2>2. j \in 1 .. n + 1 /\ j - 1 = n
    BY <2>1
  <2> HIDE DEF j
  <2>3. new[j] = new[j - 1] + Left(m, more, d, n, j)
    BY <1>b, <2>2
  <2>4. new[j] = new[n] + Left(m, more, d, n, j)
    BY <2>2, <2>3
  <2> QED BY <1>5, <2>1, <2>4 DEF j
<1>10. old[n] \in Int
  BY <1>1, <1>2
<1> QED BY <1>a, <1>b, <1>4, <1>5, <1>9, <1>10 DEF n, more

\* An emission at c keeps a strength explained: the new deposit is one piece more.
LEMMA EmissionExplained ==
    ASSUME NEW m \in Models, NEW cells \in Seq(Cells), NEW c \in Cells, NEW d \in Cells,
           NEW v \in Int, Explains(m, cells, Len(cells), d, v)
    PROVE  Explains(m, Append(cells, c), Len(cells), d,
                    IF m = Book THEN Smaller(Peak, v + Deposit(m, c, d))
                                ELSE Larger(v, Deposit(m, c, d)))
<1> DEFINE n == Len(cells)
           more == Append(cells, c)
           D == Deposit(m, c, d)
           L(i) == Left(m, cells, d, n, i)
           M(i) == Left(m, more, d, n, i)
           sum == Together(m, cells, d, n)
           w == IF m = Book THEN Smaller(Peak, v + D) ELSE Larger(v, D)
<1>1. n \in Nat /\ Len(more) = n + 1
  OBVIOUS
<1>2. D \in Int /\ 0 <= D /\ D <= Peak /\ Peak \in Nat
  <2>1. Peak \in Nat
    BY DEF Peak
  <2> QED BY <2>1, DepositsAreStrengths
<1>3. /\ \A i \in 1 .. n : M(i) = L(i)
      /\ M(n + 1) = D /\ Together(m, more, d, n) = sum + D /\ sum \in Int
  <2>1. /\ \A i \in 1 .. n : Left(m, more, d, n, i) = Left(m, cells, d, n, i)
        /\ Left(m, more, d, n, n + 1) = Deposit(m, c, d)
        /\ Together(m, more, d, n) = Together(m, cells, d, n) + Deposit(m, c, d)
        /\ Together(m, cells, d, n) \in Int
    BY OnePieceMore, Zenon
  <2> QED BY <2>1
<1>4. /\ \A i \in 1 .. n : L(i) <= v
      /\ 0 <= v
      /\ m = Subtractive => v = 0 \/ \E i \in 1 .. n : v = L(i)
      /\ m # Subtractive => v <= Smaller(Peak, sum + Rounding * n)
  BY DEF Explains
<1>5. \A i \in 1 .. n : L(i) \in Int
  <2>1. ASSUME NEW i \in 1 .. n PROVE L(i) \in Int
    <3>1. cells[i] \in Cells /\ n - i + 1 \in Nat
      BY <2>1
    <3> QED BY <3>1, RestUnfolds DEF Left
  <2> QED BY <2>1
<1> HIDE DEF D, L, M, sum, n, more
<1>6. m = Book <=> m # Subtractive
  BY DEF Models, Book, Subtractive
<1>7. w \in Int /\ 0 <= w /\ D <= w /\ \A i \in 1 .. n : L(i) <= w
  <2>1. CASE m = Book
    <3>1. v <= Peak
      BY <1>1, <1>2, <1>3, <1>4, <1>6, <2>1 DEF Smaller, Rounding
    <3>2. w \in Int /\ v <= w /\ D <= w
      BY <1>2, <1>4, <2>1, <3>1 DEF Smaller
    <3> HIDE DEF w
    <3> QED BY <1>2, <1>4, <1>5, <3>2
  <2>2. CASE m # Book
    <3>1. w \in Int /\ v <= w /\ D <= w
      BY <1>2, <1>4, <2>2 DEF Larger
    <3> HIDE DEF w
    <3> QED BY <1>2, <1>4, <1>5, <3>1
  <2> QED BY <2>1, <2>2
<1>8. m = Subtractive => w = 0 \/ w = D \/ \E i \in 1 .. n : w = L(i)
  BY <1>4, <1>6 DEF Larger
<1>9. m # Subtractive => w <= Smaller(Peak, sum + D + Rounding * (n + 1))
  BY <1>1, <1>2, <1>3, <1>4, <1>6 DEF Smaller, Rounding
<1> HIDE DEF w
<1>10. \A i \in 1 .. n + 1 : M(i) <= w
  <2>1. ASSUME NEW i \in 1 .. n + 1 PROVE M(i) <= w
    <3>1. CASE i = n + 1
      BY <1>3, <1>7, <3>1
    <3>2. CASE i \in 1 .. n
      BY <1>3, <1>7, <3>2
    <3> QED BY <1>1, <2>1, <3>1, <3>2
  <2> QED BY <2>1
<1>11. m = Subtractive => w = 0 \/ \E i \in 1 .. n + 1 : w = M(i)
  <2> SUFFICES ASSUME m = Subtractive, w # 0 PROVE \E i \in 1 .. n + 1 : w = M(i)
    OBVIOUS
  <2>1. CASE w = D
    <3>1. n + 1 \in 1 .. n + 1
      BY <1>1
    <3> QED BY <1>3, <2>1, <3>1
  <2>2. CASE \E i \in 1 .. n : w = L(i)
    <3>1. PICK i \in 1 .. n : w = L(i)
      BY <2>2
    <3>2. i \in 1 .. n + 1 /\ M(i) = L(i)
      BY <1>1, <1>3
    <3> QED BY <3>1, <3>2
  <2> QED BY <1>8, <2>1, <2>2
<1>12. Explains(m, more, n, d, w)
  BY <1>1, <1>3, <1>7, <1>9, <1>10, <1>11 DEF Explains, M
<1> QED BY <1>12 DEF n, more, w, D

\* A decay keeps the order of strengths and makes none of them greater.
LEMMA WeakerIsOrdered ==
    ASSUME NEW m
    PROVE  /\ Weaker(m, 0) = 0
           /\ \A a \in Int : Weaker(m, a) \in Int
           /\ \A a, b \in Int : a <= b => Weaker(m, a) <= Weaker(m, b)
           /\ \A a \in Int : 0 <= a => Weaker(m, a) <= a
BY DEF Weaker, Larger

\* A turn later each piece has decayed once more.
LEMMA PiecesWeaken ==
    ASSUME NEW m, NEW cells \in Seq(Cells), NEW d \in Cells, NEW turns \in Nat,
           Len(cells) <= turns + 1
    PROVE  \A i \in 1 .. Len(cells) :
               /\ Left(m, cells, d, turns, i) \in Int
               /\ Left(m, cells, d, turns + 1, i) = Weaker(m, Left(m, cells, d, turns, i))
<1> SUFFICES ASSUME NEW i \in 1 .. Len(cells)
             PROVE  /\ Left(m, cells, d, turns, i) \in Int
                    /\ Left(m, cells, d, turns + 1, i) = Weaker(m, Left(m, cells, d, turns, i))
  OBVIOUS
<1> DEFINE k == turns - i + 1
<1>1. k \in Nat /\ turns + 1 - i + 1 = k + 1 /\ cells[i] \in Cells
  OBVIOUS
<1>2. Left(m, cells, d, turns, i) = Rest(m, cells[i], d, k)
  BY DEF Left
<1>3. Left(m, cells, d, turns + 1, i) = Rest(m, cells[i], d, k + 1)
  BY <1>1 DEF Left
<1> HIDE DEF k
<1> QED BY <1>1, <1>2, <1>3, RestUnfolds

\* Rounded piece by piece, a sum loses less than a unit for each piece.
LEMMA TogetherWeakens ==
    ASSUME NEW cells \in Seq(Cells), NEW d \in Cells, NEW turns \in Nat,
           Len(cells) <= turns + 1
    PROVE  /\ Together(Book, cells, d, turns) \in Int
           /\ Together(Book, cells, d, turns + 1) \in Int
           /\ 9 * Together(Book, cells, d, turns) - 9 * Len(cells)
                <= 10 * Together(Book, cells, d, turns + 1)
<1> DEFINE n == Len(cells)
           L(i) == Left(Book, cells, d, turns, i)
           M(i) == Left(Book, cells, d, turns + 1, i)
<1>1. n \in Nat /\ turns + 1 \in Nat /\ n <= turns + 1 /\ n <= turns + 1 + 1
  OBVIOUS
<1>2. PICK old \in [0 .. n -> Int] : AddsUp(old, Book, cells, d, turns)
  BY <1>1, TogetherUnfolds, Zenon
<1>3. PICK new \in [0 .. n -> Int] : AddsUp(new, Book, cells, d, turns + 1)
  BY <1>1, TogetherUnfolds, Zenon
<1>4. /\ old[0] = 0 /\ new[0] = 0
      /\ \A i \in 1 .. n : old[i] = old[i - 1] + L(i)
      /\ \A i \in 1 .. n : new[i] = new[i - 1] + M(i)
      /\ Together(Book, cells, d, turns) = old[n]
      /\ Together(Book, cells, d, turns + 1) = new[n]
  BY <1>2, <1>3 DEF AddsUp
<1>5. \A i \in 1 .. n : L(i) \in Int /\ M(i) = (L(i) * 9) \div 10
  BY PiecesWeaken DEF Weaker
<1> HIDE DEF n, L, M
<1> DEFINE Near == {k \in Nat : k <= n => 9 * old[k] - 9 * k <= 10 * new[k]}
<1>6. 0 \in Near
  BY <1>4
<1>7. ASSUME NEW k \in Nat, k \in Near PROVE k + 1 \in Near
  <2>1. CASE k + 1 <= n
    <3> DEFINE j == k + 1
    <3>1. j \in 1 .. n /\ j - 1 = k /\ k \in 0 .. n
      BY <1>1, <1>7, <2>1
    <3> HIDE DEF j
    <3>2. old[j] = old[k] + L(j) /\ new[j] = new[k] + M(j)
      BY <1>4, <3>1
    <3>3. L(j) \in Int /\ M(j) = (L(j) * 9) \div 10 /\ old[k] \in Int /\ new[k] \in Int
      BY <1>5, <3>1
    <3>4. 9 * old[k] - 9 * k <= 10 * new[k]
      BY <1>1, <1>7, <3>1
    <3>5. 9 * L(j) - 9 <= 10 * M(j) /\ M(j) \in Int
      <4>1. \A a \in Int : (a * 9) \div 10 \in Int /\ 9 * a - 9 <= 10 * ((a * 9) \div 10)
        OBVIOUS
      <4> QED BY <3>3, <4>1
    <3>6. 9 * old[j] - 9 * j <= 10 * new[j]
      <4> DEFINE a == old[k]
                 b == new[k]
                 l == L(j)
                 r == M(j)
      <4>1. /\ a \in Int /\ b \in Int /\ l \in Int /\ r \in Int /\ k \in Int
            /\ 9 * a - 9 * k <= 10 * b /\ 9 * l - 9 <= 10 * r
        BY <1>7, <3>3, <3>4, <3>5
      <4> HIDE DEF a, b, l, r
      <4>2. 9 * (a + l) - 9 * (k + 1) <= 10 * (b + r)
        BY <4>1
      <4>3. j = k + 1
        BY DEF j
      <4> QED BY <3>2, <4>2, <4>3 DEF a, b, l, r
    <3> QED BY <1>7, <3>6 DEF j
  <2>2. CASE ~ (k + 1 <= n)
    BY <1>7, <2>2
  <2> QED BY <2>1, <2>2
<1>8. Nat \subseteq Near
  <2> HIDE DEF Near
  <2> QED BY <1>6, <1>7, SetInduction
<1>9. old[n] \in Int /\ new[n] \in Int /\ 9 * old[n] - 9 * n <= 10 * new[n]
  BY <1>1, <1>8
<1> QED BY <1>4, <1>9 DEF n

\* A decay keeps a strength explained: every piece decays with it.
LEMMA DecayExplained ==
    ASSUME NEW m \in Models, NEW cells \in Seq(Cells), NEW d \in Cells, NEW turns \in Nat,
           Len(cells) <= turns + 1, NEW v \in Int, Explains(m, cells, turns, d, v)
    PROVE  Explains(m, cells, turns + 1, d, Weaker(m, v))
<1> DEFINE n == Len(cells)
           L(i) == Left(m, cells, d, turns, i)
           M(i) == Left(m, cells, d, turns + 1, i)
           sum == Together(m, cells, d, turns)
           rest == Together(m, cells, d, turns + 1)
           w == Weaker(m, v)
<1>1. n \in Nat
  OBVIOUS
<1>2. \A i \in 1 .. n : L(i) \in Int /\ M(i) = Weaker(m, L(i))
  BY PiecesWeaken
<1>3. m # Subtractive => /\ sum \in Int /\ rest \in Int
                         /\ 9 * sum - 9 * n <= 10 * rest
  <2>1. m # Subtractive => m = Book
    BY DEF Models
  <2> QED BY <2>1, TogetherWeakens
<1>4. /\ \A i \in 1 .. n : L(i) <= v
      /\ 0 <= v
      /\ m = Subtractive => v = 0 \/ \E i \in 1 .. n : v = L(i)
      /\ m # Subtractive => v <= Smaller(Peak, sum + Rounding * n)
  BY DEF Explains
<1> HIDE DEF n, L, M, sum, rest
<1>5. /\ w \in Int /\ 0 <= w /\ w <= v
      /\ \A i \in 1 .. n : M(i) <= w
  <2>1. \A a \in Int : a <= v => Weaker(m, a) <= w
    BY WeakerIsOrdered
  <2>2. w \in Int /\ w <= v
    BY <1>4, WeakerIsOrdered
  <2>3. 0 <= w
    BY <1>4, <2>1, WeakerIsOrdered
  <2> HIDE DEF w
  <2>4. ASSUME NEW i \in 1 .. n PROVE M(i) <= w
    BY <1>2, <1>4, <2>1
  <2> QED BY <2>2, <2>3, <2>4
<1>6. m = Subtractive => w = 0 \/ \E i \in 1 .. n : w = M(i)
  <2> SUFFICES ASSUME m = Subtractive PROVE w = 0 \/ \E i \in 1 .. n : w = M(i)
    OBVIOUS
  <2>1. CASE v = 0
    BY <2>1, WeakerIsOrdered
  <2>2. CASE \E i \in 1 .. n : v = L(i)
    <3>1. PICK i \in 1 .. n : v = L(i)
      BY <2>2
    <3>2. w = M(i)
      BY <1>2, <3>1
    <3> QED BY <3>2
  <2> QED BY <1>4, <2>1, <2>2
<1>7. m # Subtractive => w <= Smaller(Peak, rest + Rounding * n)
  <2> SUFFICES ASSUME m # Subtractive PROVE w <= Smaller(Peak, rest + Rounding * n)
    OBVIOUS
  <2>1. Peak \in Nat /\ rest \in Int /\ sum \in Int /\ 9 * sum - 9 * n <= 10 * rest
    BY <1>3 DEF Peak
  <2>2. v <= Peak /\ v <= sum + 9 * n
    BY <1>1, <1>4, <2>1 DEF Smaller, Rounding
  <2>3. w = (v * 9) \div 10
    BY DEF Weaker, Models
  <2>4. 10 * w <= 9 * v
    <3>1. \A a \in Int : 10 * ((a * 9) \div 10) <= 9 * a
      OBVIOUS
    <3> QED BY <2>3, <3>1
  <2> HIDE DEF w
  <2>5. w <= rest + 9 * n
    BY <1>1, <1>5, <2>1, <2>2, <2>4
  <2> QED BY <1>1, <1>5, <2>1, <2>2, <2>5 DEF Smaller, Rounding
<1> HIDE DEF w
<1>8. Explains(m, cells, turns + 1, d, w)
  BY <1>5, <1>6, <1>7 DEF Explains, M, n, rest
<1> QED BY <1>8 DEF w

-----------------------------------------------------------------------------
(* The fields, the lines and the samples, on both paths. *)

\* How far the trail of s has come, and what its field and its line are then.
Trodden(s) ==
    LET n == Len(trod[s])
    IN  /\ pc[s] \in {"applied", "heard"} =>
               n = step[s] + 1 /\ field[s] = Emitted(model, trod[s], n)
        /\ pc[s] \in {"decide", "sealed", "revealed"} => n = step[s]
        /\ pc[s] = "over" => n \in {step[s], step[s] + 1}
        /\ pc[s] \in {"decide", "sealed", "revealed"} \/ (pc[s] = "over" /\ path = "wire") =>
               field[s] = Stale(model, trod[s], n + 1)
        /\ pc[s] = "over" /\ path = "wire" => n = step[s]
        /\ lag = 1 => line[s] = IF n = 0 THEN <<>> ELSE <<Stale(model, trod[s], n)>>
        /\ \A d \in Cells : Explains(model, trod[s], step[s], d, field[s][d])

\* The fields HeardAsAgreed allows in a turn.
Allowed(m, cells, turn, p, lg) ==
    LET agreed == {turn} \cap 1 .. Len(cells)
        earlier == IF p = "wire" THEN {turn - 1, turn} \cap 0 .. Len(cells) ELSE {}
    IN  IF lg = 1 THEN {Stale(m, cells, n) : n \in agreed \cup earlier}
        ELSE {Emitted(m, cells, n) : n \in agreed}
                \cup {Stale(m, cells, n + 1) : n \in earlier}

Hears(s) ==
    pc[s] = "heard" => heard[s] \in Allowed(model, trod[Other(s)], step[s] + 1, path, lag)

ScentTyped ==
    /\ model \in Models /\ lag \in {0, 1}
    /\ field \in [Sides -> [Cells -> Int]]
    /\ trod \in [Sides -> Seq(Cells)]
    /\ line \in [Sides -> Seq([Cells -> Int])]
    /\ heard \in [Sides -> [Cells -> Int]]

Scented ==
    /\ ScentTyped
    /\ path = "harness" => step["cop"] = step["thief"]
    /\ \A s \in Sides : Trodden(s) /\ Hears(s)

\* A sample allowed so far stays allowed when the trail grows.
LEMMA AllowedStays ==
    ASSUME NEW m, NEW cells \in Seq(Cells), NEW c \in Cells, NEW turn \in Nat, NEW p, NEW lg
    PROVE  Allowed(m, cells, turn, p, lg) \subseteq Allowed(m, Append(cells, c), turn, p, lg)
<1> DEFINE n == Len(cells)
           more == Append(cells, c)
           agreed == {turn} \cap 1 .. n
           earlier == IF p = "wire" THEN {turn - 1, turn} \cap 0 .. n ELSE {}
           agreedMore == {turn} \cap 1 .. Len(more)
           earlierMore == IF p = "wire" THEN {turn - 1, turn} \cap 0 .. Len(more) ELSE {}
<1>1. n \in Nat /\ Len(more) = n + 1
  OBVIOUS
<1>2. agreed \subseteq agreedMore /\ earlier \subseteq earlierMore
      /\ agreed \subseteq 0 .. n /\ earlier \subseteq 0 .. n
  BY <1>1
<1>3. \A k \in 0 .. n : Emitted(m, more, k) = Emitted(m, cells, k)
  BY EmittedStays, Zenon
<1>4. \A k \in 0 .. n : Stale(m, more, k + 1) = Stale(m, cells, k + 1)
  <2>1. \A k \in 0 .. n : k + 1 - 1 = k
    BY <1>1
  <2> QED BY <1>3, <2>1 DEF Stale
<1>5. \A k \in 0 .. n : Stale(m, more, k) = Stale(m, cells, k)
  <2> SUFFICES ASSUME NEW k \in 0 .. n PROVE Emitted(m, more, k - 1) = Emitted(m, cells, k - 1)
    BY DEF Stale
  <2>1. CASE k = 0
    BY <2>1 DEF Emitted
  <2>2. CASE k # 0
    <3>1. k - 1 \in 0 .. n
      BY <1>1, <2>2
    <3> QED BY <1>3, <3>1
  <2> QED BY <2>1, <2>2
<1>6. /\ Allowed(m, cells, turn, p, lg) =
             IF lg = 1 THEN {Stale(m, cells, k) : k \in agreed \cup earlier}
             ELSE {Emitted(m, cells, k) : k \in agreed}
                    \cup {Stale(m, cells, k + 1) : k \in earlier}
      /\ Allowed(m, more, turn, p, lg) =
             IF lg = 1 THEN {Stale(m, more, k) : k \in agreedMore \cup earlierMore}
             ELSE {Emitted(m, more, k) : k \in agreedMore}
                    \cup {Stale(m, more, k + 1) : k \in earlierMore}
  BY DEF Allowed
<1> HIDE DEF n, more, agreed, earlier, agreedMore, earlierMore
<1>7. CASE lg = 1
  BY <1>2, <1>5, <1>6, <1>7 DEF more
<1>8. CASE lg # 1
  <2>1. \A k \in agreed : Emitted(m, cells, k) \in Allowed(m, more, turn, p, lg)
    BY <1>2, <1>3, <1>6, <1>8
  <2>2. \A k \in earlier : Stale(m, cells, k + 1) \in Allowed(m, more, turn, p, lg)
    BY <1>2, <1>4, <1>6, <1>8
  <2> QED BY <1>6, <1>8, <2>1, <2>2 DEF more
<1> QED BY <1>7, <1>8

LEMMA SilenceDecays ==
    ASSUME NEW m
    PROVE  Decay(m, Silent) = Silent
BY DEF Decay, Silent, Larger

\* Before the first turn nothing was trod and everything is silent.
LEMMA ScentedInit == Init => Scented
<1> SUFFICES ASSUME Init PROVE Scented
  OBVIOUS
<1>1. model \in Models /\ lag \in {0, 1}
  <2>1. PICK g \in Games : model = g.model /\ lag = g.lag
    BY DEF Init
  <2> QED BY <2>1, ChaseAssumption
<1>2. /\ field = [s \in Sides |-> Silent] /\ heard = [s \in Sides |-> Silent]
      /\ trod = [s \in Sides |-> <<>>] /\ line = [s \in Sides |-> <<>>]
      /\ pc = [s \in Sides |-> "decide"] /\ step = [s \in Sides |-> 0]
  BY DEF Init
<1>3. Silent \in [Cells -> Int]
  BY SilentIsAField
<1>4. ScentTyped
  <2>1. field \in [Sides -> [Cells -> Int]] /\ heard \in [Sides -> [Cells -> Int]]
    BY <1>2, <1>3
  <2>2. trod \in [Sides -> Seq(Cells)]
    BY <1>2
  <2>3. line \in [Sides -> Seq([Cells -> Int])]
    BY <1>2
  <2> QED BY <1>1, <2>1, <2>2, <2>3 DEF ScentTyped
<1>5. ASSUME NEW s \in Sides PROVE Trodden(s) /\ Hears(s)
  <2>1. /\ field[s] = Silent /\ trod[s] = <<>> /\ line[s] = <<>>
        /\ pc[s] = "decide" /\ step[s] = 0 /\ Len(trod[s]) = 0
    BY <1>2, <1>5
  <2>2. Stale(model, <<>>, 0 + 1) = Silent
    BY SilenceDecays DEF Stale, Emitted
  <2>3. ASSUME NEW d \in Cells PROVE Explains(model, <<>>, 0, d, 0)
    <3>1. Together(model, <<>>, d, 0) = 0
      <4>1. <<>> \in Seq(Cells) /\ Len(<<>>) = 0
        OBVIOUS
      <4>2. 0 \in Nat /\ Len(<<>>) <= 0 + 1
        BY <4>1
      <4>3. PICK sum \in [0 .. Len(<<>>) -> Int] : AddsUp(sum, model, <<>>, d, 0)
        BY <4>1, <4>2, TogetherUnfolds, Zenon
      <4> QED BY <4>1, <4>3 DEF AddsUp
    <3>2. Len(<<>>) = 0
      OBVIOUS
    <3>3. 0 <= Smaller(Peak, 0 + Rounding * 0)
      BY DEF Smaller, Peak, Rounding
    <3> QED BY <3>1, <3>2, <3>3 DEF Explains
  <2>4. \A d \in Cells : Silent[d] = 0
    BY DEF Silent
  <2> QED BY <2>1, <2>2, <2>3, <2>4 DEF Trodden, Hears
<1>6. step["cop"] = step["thief"]
  BY <1>2, SidesAreTwo
<1> QED BY <1>4, <1>5, <1>6 DEF Scented

\* A line of one place holds the field it was given last.
LEMMA RecordKeepsTheLast ==
    ASSUME NEW q \in Seq([Cells -> Int]), q = <<>> \/ Len(q) = 1, NEW f \in [Cells -> Int]
    PROVE  Record(1, q, f) = <<f>>
<1> DEFINE longer == Append(q, f)
           n == Len(longer)
<1>1. longer \in Seq([Cells -> Int]) /\ n = Len(q) + 1 /\ Len(q) \in {0, 1} /\ longer[n] = f
  OBVIOUS
<1>2. Record(1, q, f) = SubSeq(longer, Larger(1, n - 1 + 1), n)
  BY DEF Record
<1>3. Larger(1, n - 1 + 1) = n
  BY <1>1 DEF Larger
<1> HIDE DEF longer
<1>4. SubSeq(longer, n, n) = <<longer[n]>>
  <2>1. n \in 1 .. Len(longer)
    BY <1>1
  <2>2. /\ SubSeq(longer, n, n) = [i \in 1 .. 1 |-> longer[n + i - 1]]
    BY <1>1, <2>1
  <2>3. [i \in 1 .. 1 |-> longer[n + i - 1]] = <<longer[n]>>
    BY <1>1
  <2> QED BY <2>2, <2>3
<1> QED BY <1>1, <1>2, <1>3, <1>4

\* s moves: its line takes the field as it was, its field the new emission.
LEMMA SideMoves ==
    ASSUME Scented, Typed, Typed', NEW s \in Sides, pc[s] \in {"decide", "revealed"},
           pc' = [pc EXCEPT ![s] = "applied"], NEW d, ApplyOwnMove(s, d),
           UNCHANGED <<path, model, lag, step, heard>>
    PROVE  Scented'
<1> DEFINE cells == trod[s]
           cell == at'[s]
           n == Len(cells)
           more == Append(cells, cell)
<1>0. ScentTyped /\ Trodden(s) /\ (path = "harness" => step["cop"] = step["thief"])
      /\ \A o \in Sides : Trodden(o) /\ Hears(o)
  BY DEF Scented
<1>1. /\ cell \in Cells /\ cell = Settled(s, d, walls[s])
      /\ pc \in [Sides -> Places] /\ step \in [Sides -> Nat]
  <2>1. at \in [Sides -> Cells] /\ at' \in [Sides -> Cells]
    BY DEF Typed
  <2> QED BY <2>1 DEF Typed, ApplyOwnMove
<1>2. /\ field' = [field EXCEPT ![s] = Emit(model, @, cell)]
      /\ trod' = [trod EXCEPT ![s] = Append(@, cell)]
      /\ line' = [line EXCEPT ![s] = Record(lag, @, field[s])]
  BY <1>1 DEF ApplyOwnMove
<1> HIDE DEF cell
<1>3. /\ cells \in Seq(Cells) /\ n \in Nat /\ more \in Seq(Cells) /\ Len(more) = n + 1
      /\ field[s] \in [Cells -> Int] /\ n = step[s] /\ field[s] = Stale(model, cells, n + 1)
      /\ model \in Models /\ lag \in {0, 1}
  BY <1>0, <1>1 DEF ScentTyped, Trodden
<1>4. /\ field'[s] = Emit(model, field[s], cell) /\ trod'[s] = more
      /\ line'[s] = Record(lag, line[s], field[s])
      /\ pc'[s] = "applied" /\ step'[s] = step[s]
  BY <1>0, <1>1, <1>2 DEF ScentTyped
<1>5. /\ \A k \in 0 .. n : Emitted(model, more, k) = Emitted(model, cells, k)
      /\ field'[s] = Emitted(model, more, n + 1)
  <2> HIDE DEF n, cells
  <2>1. /\ \A k \in 0 .. Len(cells) : Emitted(model, more, k) = Emitted(model, cells, k)
        /\ Emitted(model, more, Len(more)) = Emit(model, Stale(model, cells, Len(more)), cell)
    BY <1>1, <1>3, EmittedStays, Zenon
  <2> QED BY <1>3, <1>4, <2>1 DEF n
<1>6. field'[s] \in [Cells -> Int]
  <2>1. Emit(model, field[s], cell) \in [Cells -> Int]
    BY <1>1, <1>3, FieldsAreNumbers
  <2> QED BY <1>4, <2>1
<1>7. lag = 1 => line'[s] = <<field[s]>> /\ field[s] = Stale(model, more, n + 1)
  <2> SUFFICES ASSUME lag = 1
               PROVE  line'[s] = <<field[s]>> /\ field[s] = Stale(model, more, n + 1)
    OBVIOUS
  <2>1. line[s] \in Seq([Cells -> Int]) /\ (line[s] = <<>> \/ Len(line[s]) = 1)
    BY <1>0 DEF ScentTyped, Trodden
  <2>2. line'[s] = <<field[s]>>
    BY <1>3, <1>4, <2>1, RecordKeepsTheLast
  <2>3. n + 1 - 1 = n /\ n \in 0 .. n
    BY <1>3
  <2> QED BY <1>3, <1>5, <2>2, <2>3 DEF Stale
<1>8. line'[s] \in Seq([Cells -> Int])
  <2>1. CASE lag = 1
    <3> DEFINE S == [Cells -> Int]
    <3>1. field[s] \in S /\ line'[s] = <<field[s]>>
      BY <1>3, <1>7, <2>1
    <3> HIDE DEF S
    <3>2. line'[s] \in Seq(S)
      BY <3>1
    <3> QED BY <3>2 DEF S
  <2>2. CASE lag = 0
    <3>1. line'[s] = line[s]
      BY <1>4, <2>2 DEF Record
    <3> QED BY <1>0, <3>1 DEF ScentTyped
  <2> QED BY <1>3, <2>1, <2>2
<1>9. ScentTyped'
  <2>1. field' \in [Sides -> [Cells -> Int]]
    BY <1>0, <1>2, <1>4, <1>6 DEF ScentTyped
  <2>2. trod' \in [Sides -> Seq(Cells)]
    BY <1>0, <1>2, <1>3, <1>4 DEF ScentTyped
  <2>3. line' \in [Sides -> Seq([Cells -> Int])]
    BY <1>0, <1>2, <1>4, <1>8 DEF ScentTyped
  <2> QED BY <1>0, <2>1, <2>2, <2>3 DEF ScentTyped
<1>10. \A e \in Cells : Explains(model, more, step[s], e, field'[s][e])
  <2> SUFFICES ASSUME NEW e \in Cells
               PROVE  Explains(model, more, step[s], e, field'[s][e])
    OBVIOUS
  <2>1. Explains(model, cells, n, e, field[s][e]) /\ field[s][e] \in Int
    BY <1>0, <1>3 DEF Trodden
  <2>2. Explains(model, more, n, e,
                 IF model = Book THEN Smaller(Peak, field[s][e] + Deposit(model, cell, e))
                                 ELSE Larger(field[s][e], Deposit(model, cell, e)))
    BY <1>1, <1>3, <2>1, EmissionExplained
  <2>3. field'[s][e] = IF model = Book THEN Smaller(Peak, field[s][e] + Deposit(model, cell, e))
                                       ELSE Larger(field[s][e], Deposit(model, cell, e))
    BY <1>4 DEF Emit
  <2> QED BY <1>3, <2>2, <2>3
<1> HIDE DEF cells, more
<1>11. Trodden(s)'
  <2>1. n + 1 # 0
    BY <1>3
  <2> HIDE DEF n
  <2> QED BY <1>3, <1>4, <1>5, <1>7, <1>10, <2>1 DEF Trodden
<1>12. ASSUME NEW o \in Sides, o # s PROVE Trodden(o)'
  <2>1. /\ pc'[o] = pc[o] /\ field'[o] = field[o] /\ trod'[o] = trod[o] /\ line'[o] = line[o]
    BY <1>0, <1>1, <1>2, <1>12 DEF ScentTyped
  <2>2. Trodden(o)
    BY <1>0
  <2> QED BY <2>1, <2>2 DEF Trodden
<1>13. ASSUME NEW o \in Sides PROVE Hears(o)'
  <2> SUFFICES ASSUME pc'[o] = "heard"
               PROVE  heard[o] \in Allowed(model, trod'[Other(o)], step[o] + 1, path, lag)
    BY DEF Hears
  <2>1. o # s /\ pc[o] = "heard" /\ Other(o) = s
    BY <1>1, <1>4, SidesAreTwo
  <2>2. heard[o] \in Allowed(model, cells, step[o] + 1, path, lag)
    BY <1>0, <2>1 DEF Hears, cells
  <2>3. step[o] + 1 \in Nat
    BY <1>1
  <2> QED BY <1>1, <1>3, <1>4, <2>1, <2>2, <2>3, AllowedStays DEF more
<1> QED BY <1>0, <1>9, <1>11, <1>12, <1>13 DEF Scented

\* A turn of s ends: its field decays, and everything left of it with it.
LEMMA TroddenEnds ==
    ASSUME ScentTyped, NEW s \in Sides, Trodden(s), step[s] \in Nat, pc[s] = "heard",
           pc'[s] \in {"decide", "over"}, field'[s] = Decay(model, field[s]),
           step'[s] = step[s] + 1, UNCHANGED <<path, model, lag, line, trod>>
    PROVE  Trodden(s)' /\ field'[s] \in [Cells -> Int]
<1> DEFINE cells == trod[s]
           n == Len(cells)
<1>1. /\ cells \in Seq(Cells) /\ n \in Nat /\ n = step[s] + 1 /\ n <= step[s] + 1
      /\ field[s] = Emitted(model, cells, n) /\ field[s] \in [Cells -> Int]
      /\ model \in Models
  BY DEF ScentTyped, Trodden
<1>2. field'[s] \in [Cells -> Int]
  <2>1. Decay(model, field[s]) \in [Cells -> Int]
    BY <1>1, FieldsAreNumbers
  <2> QED BY <2>1
<1>3. field'[s] = Stale(model, cells, n + 1)
  <2>1. n + 1 - 1 = n
    BY <1>1
  <2> QED BY <1>1, <2>1 DEF Stale
<1>4. \A d \in Cells : Explains(model, cells, step[s] + 1, d, field'[s][d])
  <2> SUFFICES ASSUME NEW d \in Cells
               PROVE  Explains(model, cells, step[s] + 1, d, field'[s][d])
    OBVIOUS
  <2>1. Explains(model, cells, step[s], d, field[s][d]) /\ field[s][d] \in Int
    BY <1>1 DEF Trodden
  <2>2. Explains(model, cells, step[s] + 1, d, Weaker(model, field[s][d]))
    BY <1>1, <2>1, DecayExplained
  <2>3. field'[s][d] = Weaker(model, field[s][d])
    BY DEF Decay, Weaker
  <2> QED BY <2>2, <2>3
<1>5. lag = 1 => line[s] = IF n = 0 THEN <<>> ELSE <<Stale(model, cells, n)>>
  BY DEF Trodden
<1> QED BY <1>1, <1>2, <1>3, <1>4, <1>5 DEF Trodden

\* A step of s that neither moves it nor ends its turn.
LEMMA TroddenStays ==
    ASSUME NEW s \in Sides, Trodden(s),
           \/ pc[s] \in {"decide", "sealed", "revealed"} /\ pc'[s] \in {"decide", "sealed", "revealed"}
           \/ pc[s] \in {"applied", "heard"} /\ pc'[s] \in {"applied", "heard"}
           \/ pc[s] = "heard" /\ pc'[s] = "over" /\ path = "harness"
           \/ pc[s] = "over" /\ pc'[s] = "over",
           field'[s] = field[s], trod'[s] = trod[s], line'[s] = line[s], step'[s] = step[s],
           step[s] \in Nat, UNCHANGED <<path, model, lag>>
    PROVE  Trodden(s)'
BY DEF Trodden

\* What s samples where the other is: what the pair agreed, or a turn less.
LEMMA SampleIsAllowed ==
    ASSUME Inv, Scented, NEW s \in Sides, pc[s] = "applied",
           path = "wire" \/ (path = "harness" /\ pc[Other(s)] = "applied")
    PROVE  Sampled(s) \in Allowed(model, trod[Other(s)], step[s] + 1, path, lag)
<1> DEFINE o == Other(s)
           cells == trod[o]
           n == Len(cells)
           turn == step[s] + 1
           agreed == {turn} \cap 1 .. n
           earlier == IF path = "wire" THEN {turn - 1, turn} \cap 0 .. n ELSE {}
<1>1. o \in Sides /\ step[s] \in Nat /\ step[o] \in Nat /\ Other(o) = s
  BY SidesAreTwo DEF Inv, Typed
<1>2. ScentTyped /\ Trodden(o) /\ (path = "harness" => step["cop"] = step["thief"])
  BY <1>1 DEF Scented
<1>3. n \in Nat
  BY <1>1, <1>2 DEF ScentTyped
<1>4. \/ path = "harness" /\ pc[o] = "applied" /\ step[o] = step[s]
      \/ path = "wire" /\ pc[o] \in {"revealed", "applied", "heard"} /\ step[o] = step[s]
      \/ path = "wire" /\ pc[o] \in {"decide", "sealed", "over"} /\ step[o] = step[s] + 1
  <2>1. CASE path = "harness"
    BY <1>2, <2>1, SidesAreTwo
  <2>2. CASE path = "wire"
    <3>1. Turns(step[s], pc[s], step[o], pc[o])
      BY <2>2, TurnsAreMutual DEF Inv
    <3> QED BY <1>1, <2>2, <3>1 DEF Turns, Ahead, Level
  <2> QED BY <2>1, <2>2
<1>5. /\ Sampled(s) = IF lag = 0 THEN field[o]
                      ELSE IF line[o] = <<>> THEN Silent ELSE Head(line[o])
      /\ lag \in {0, 1}
  BY <1>2 DEF Sampled, Transmitted, ScentTyped
<1> DEFINE A == Allowed(model, cells, turn, path, lag)
<1>6. /\ lag = 1 => \A k \in agreed \cup earlier : Stale(model, cells, k) \in A
      /\ lag = 0 => \A k \in agreed : Emitted(model, cells, k) \in A
      /\ lag = 0 => \A k \in earlier : Stale(model, cells, k + 1) \in A
  BY DEF Allowed
<1> SUFFICES Sampled(s) \in A
  OBVIOUS
<1> HIDE DEF A
<1>7. CASE lag = 0
  <2>1. CASE pc[o] \in {"applied", "heard"}
    <3>1. n = turn /\ field[o] = Emitted(model, cells, n)
      BY <1>1, <1>2, <1>4, <2>1 DEF Trodden
    <3>2. turn \in agreed
      BY <1>1, <1>3, <3>1
    <3> HIDE DEF n, cells, agreed, turn
    <3> QED BY <1>5, <1>6, <1>7, <3>1, <3>2
  <2>2. CASE pc[o] \notin {"applied", "heard"}
    <3>1. /\ path = "wire" /\ n = step[o] /\ n \in {turn - 1, turn}
          /\ field[o] = Stale(model, cells, n + 1)
      BY <1>1, <1>2, <1>4, <2>2 DEF Trodden
    <3>2. n \in earlier
      BY <1>3, <3>1
    <3> HIDE DEF n, cells, earlier, turn
    <3> QED BY <1>5, <1>6, <1>7, <3>1, <3>2
  <2> QED BY <2>1, <2>2
<1>8. CASE lag = 1
  <2>1. Sampled(s) = Stale(model, cells, n)
    <3>1. line[o] = IF n = 0 THEN <<>> ELSE <<Stale(model, cells, n)>>
      BY <1>2, <1>8 DEF Trodden
    <3>2. Stale(model, cells, 0) = Silent
      BY SilenceDecays DEF Stale, Emitted
    <3>3. CASE n = 0
      BY <1>5, <1>8, <3>1, <3>2, <3>3
    <3>4. CASE n # 0
      <4> DEFINE f == Stale(model, cells, n)
      <4> HIDE DEF f
      <4>1. <<f>> # <<>> /\ Head(<<f>>) = f
        OBVIOUS
      <4> HIDE DEF n
      <4> QED BY <1>5, <1>8, <3>1, <3>4, <4>1 DEF f
    <3> QED BY <3>3, <3>4
  <2>2. n \in agreed \cup earlier
    <3>1. CASE path = "harness"
      <4>1. n = turn
        BY <1>1, <1>2, <1>4, <3>1 DEF Trodden
      <4> QED BY <1>1, <1>3, <4>1
    <3>2. CASE path = "wire"
      <4>1. n \in {turn - 1, turn}
        BY <1>1, <1>2, <1>4, <3>2 DEF Trodden
      <4> QED BY <1>3, <3>2, <4>1
    <3> QED BY <1>4, <3>1, <3>2
  <2> HIDE DEF n, cells, agreed, earlier, turn
  <2> QED BY <1>6, <1>8, <2>1, <2>2
<1> QED BY <1>5, <1>7, <1>8

\* A sample is a field.
LEMMA SamplesAreFields ==
    ASSUME ScentTyped, NEW s \in Sides
    PROVE  Sampled(s) \in [Cells -> Int]
<1> DEFINE S == [Cells -> Int]
           o == Other(s)
<1>1. o \in Sides /\ Silent \in S
  BY SidesAreTwo, SilentIsAField
<1>2. field[o] \in S /\ line[o] \in Seq(S)
  BY <1>1 DEF ScentTyped
<1>3. Sampled(s) = IF lag = 0 THEN field[o]
                   ELSE IF line[o] = <<>> THEN Silent ELSE Head(line[o])
  BY DEF Sampled, Transmitted
<1> HIDE DEF S, o
<1>4. line[o] # <<>> => Head(line[o]) \in S
  BY <1>2
<1>5. Sampled(s) \in S
  BY <1>1, <1>2, <1>3, <1>4
<1> QED BY <1>5 DEF S

\* A step of s that neither moves it nor ends its turn nor samples.
LEMMA ScentedStays ==
    ASSUME Inv, Scented, NEW s \in Sides, Decide(s) \/ Reveal(s)
    PROVE  Scented'
<1>0. ScentTyped /\ (path = "harness" => step["cop"] = step["thief"])
      /\ \A o \in Sides : Trodden(o) /\ Hears(o)
  BY DEF Scented
<1>1. pc \in [Sides -> Places] /\ step \in [Sides -> Nat]
  BY DEF Inv, Typed
<1>2. /\ UNCHANGED <<path, model, lag, step, field, trod, line, heard>>
      /\ pc[s] \in {"decide", "sealed"}
      /\ pc' = [pc EXCEPT ![s] = "sealed"] \/ pc' = [pc EXCEPT ![s] = "revealed"]
  BY DEF Decide, Reveal, terms, scent
<1>3. ScentTyped'
  BY <1>0, <1>2 DEF ScentTyped
<1>4. ASSUME NEW o \in Sides PROVE Trodden(o)' /\ Hears(o)'
  <2>1. Trodden(o) /\ Hears(o) /\ step[o] \in Nat
    BY <1>0, <1>1
  <2>2. pc'[o] = pc[o] \/ (pc[o] \in {"decide", "sealed"} /\ pc'[o] \in {"sealed", "revealed"})
    BY <1>1, <1>2
  <2>3. pc[o] \in Places
    BY <1>1
  <2>4. Trodden(o)'
    BY <1>2, <2>1, <2>2, <2>3, TroddenStays DEF Places
  <2>5. Hears(o)'
    BY <1>2, <2>1, <2>2 DEF Hears
  <2> QED BY <2>4, <2>5
<1> QED BY <1>0, <1>2, <1>3, <1>4 DEF Scented

\* A side samples on the wire, wherever the other one is.
LEMMA ScentedPull ==
    ASSUME Inv, Scented, NEW s \in Sides, Pull(s)
    PROVE  Scented'
<1>0. ScentTyped /\ \A o \in Sides : Trodden(o) /\ Hears(o)
  BY DEF Scented
<1>1. pc \in [Sides -> Places] /\ step \in [Sides -> Nat]
  BY DEF Inv, Typed
<1>2. /\ UNCHANGED <<path, model, lag, step, field, trod, line>>
      /\ path = "wire" /\ pc[s] = "applied" /\ pc' = [pc EXCEPT ![s] = "heard"]
      /\ heard' = [heard EXCEPT ![s] = Sampled(s)]
  BY DEF Pull, terms, scent
<1>3. Sampled(s) \in [Cells -> Int]
  BY <1>0, SamplesAreFields
<1>4. Sampled(s) \in Allowed(model, trod[Other(s)], step[s] + 1, path, lag)
  BY <1>2, SampleIsAllowed
<1> DEFINE f == Sampled(s)
<1> HIDE DEF f
<1>5. heard' = [heard EXCEPT ![s] = f] /\ heard \in [Sides -> [Cells -> Int]]
  BY <1>0, <1>2 DEF f, ScentTyped
<1>6. ScentTyped'
  <2>1. heard' \in [Sides -> [Cells -> Int]]
    BY <1>3, <1>5 DEF f
  <2> QED BY <1>0, <1>2, <2>1 DEF ScentTyped
<1>7. ASSUME NEW o \in Sides PROVE Trodden(o)' /\ Hears(o)'
  <2>1. Trodden(o) /\ Hears(o) /\ step[o] \in Nat /\ pc[o] \in Places
    BY <1>0, <1>1
  <2>2. pc'[o] = pc[o] \/ (pc[o] = "applied" /\ pc'[o] = "heard")
    BY <1>1, <1>2
  <2>3. Trodden(o)'
    BY <1>2, <2>1, <2>2, TroddenStays DEF Places
  <2>4. CASE o = s
    <3>1. heard'[s] = f
      BY <1>5
    <3> QED BY <1>2, <1>4, <2>3, <2>4, <3>1 DEF Hears, f
  <2>5. CASE o # s
    <3>1. heard'[o] = heard[o] /\ pc'[o] = pc[o]
      BY <1>1, <1>2, <1>5, <2>5
    <3> QED BY <1>2, <2>1, <2>3, <3>1 DEF Hears
  <2> QED BY <2>4, <2>5
<1> QED BY <1>2, <1>6, <1>7 DEF Scented

\* A side ends its turn on the wire.
LEMMA ScentedEndOfTurn ==
    ASSUME Inv, Inv', Scented, NEW s \in Sides, EndOfTurn(s)
    PROVE  Scented'
<1>0. ScentTyped /\ \A o \in Sides : Trodden(o) /\ Hears(o)
  BY DEF Scented
<1>1. pc \in [Sides -> Places] /\ step \in [Sides -> Nat]
  BY DEF Inv, Typed
<1>2. /\ UNCHANGED <<path, model, lag, trod, line>>
      /\ path = "wire" /\ pc[s] = "heard"
      /\ field' = [field EXCEPT ![s] = Decay(model, @)]
      /\ heard' = [heard EXCEPT ![s] = Decay(model, @)]
      /\ step' = [step EXCEPT ![s] = @ + 1]
  BY DEF EndOfTurn, terms
<1>3. pc'[s] \in {"decide", "over"} /\ \A o \in Sides : o # s => pc'[o] = pc[o]
  BY <1>1 DEF EndOfTurn
<1>4. /\ field'[s] = Decay(model, field[s]) /\ step'[s] = step[s] + 1
      /\ heard'[s] = Decay(model, heard[s]) /\ heard[s] \in [Cells -> Int]
      /\ \A o \in Sides : o # s => /\ field'[o] = field[o] /\ step'[o] = step[o]
                                   /\ heard'[o] = heard[o]
  BY <1>0, <1>1, <1>2 DEF ScentTyped
<1>5. Trodden(s)' /\ field'[s] \in [Cells -> Int]
  BY <1>0, <1>1, <1>2, <1>3, <1>4, TroddenEnds
<1>6. Decay(model, heard[s]) \in [Cells -> Int]
  BY <1>4, FieldsAreNumbers
<1>7. ScentTyped'
  <2>1. field' \in [Sides -> [Cells -> Int]]
    BY <1>0, <1>2, <1>4, <1>5 DEF ScentTyped
  <2>2. heard' \in [Sides -> [Cells -> Int]]
    BY <1>0, <1>2, <1>4, <1>6 DEF ScentTyped
  <2> QED BY <1>0, <1>2, <2>1, <2>2 DEF ScentTyped
<1>8. ASSUME NEW o \in Sides, o # s PROVE Trodden(o)'
  <2>1. Trodden(o) /\ step[o] \in Nat /\ pc[o] \in Places /\ pc'[o] = pc[o]
    BY <1>0, <1>1, <1>3, <1>8
  <2>2. trod'[o] = trod[o] /\ line'[o] = line[o]
    BY <1>2
  <2> QED BY <1>2, <1>4, <1>8, <2>1, <2>2, TroddenStays DEF Places
<1>9. ASSUME NEW o \in Sides PROVE Hears(o)'
  <2>1. CASE o = s
    BY <1>3, <2>1 DEF Hears
  <2>2. CASE o # s
    <3>1. Hears(o) /\ pc'[o] = pc[o] /\ heard'[o] = heard[o] /\ step'[o] = step[o]
      BY <1>0, <1>3, <1>4, <2>2
    <3> QED BY <1>2, <3>1 DEF Hears
  <2> QED BY <2>1, <2>2
<1> QED BY <1>2, <1>5, <1>7, <1>8, <1>9 DEF Scented

\* Both sample in the harness.
LEMMA ScentedExchange ==
    ASSUME Inv, Scented, ExchangeScent
    PROVE  Scented'
<1>0. ScentTyped /\ (path = "harness" => step["cop"] = step["thief"])
      /\ \A o \in Sides : Trodden(o) /\ Hears(o)
  BY DEF Scented
<1>1. /\ UNCHANGED <<path, model, lag, step, field, trod, line>> /\ path = "harness"
      /\ pc = [s \in Sides |-> "applied"] /\ pc' = [s \in Sides |-> "heard"]
      /\ heard' = [s \in Sides |-> Sampled(s)]
  BY DEF ExchangeScent, terms, scent
<1>2. ASSUME NEW s \in Sides
      PROVE  /\ Sampled(s) \in [Cells -> Int]
             /\ Sampled(s) \in Allowed(model, trod[Other(s)], step[s] + 1, path, lag)
  <2>1. pc[s] = "applied" /\ pc[Other(s)] = "applied"
    BY <1>1, SidesAreTwo
  <2> QED BY <1>0, <1>1, <2>1, SamplesAreFields, SampleIsAllowed
<1>3. ScentTyped'
  <2>1. heard' \in [Sides -> [Cells -> Int]]
    BY <1>1, <1>2
  <2> QED BY <1>0, <1>1, <2>1 DEF ScentTyped
<1>4. ASSUME NEW o \in Sides PROVE Trodden(o)' /\ Hears(o)'
  <2>1. Trodden(o) /\ pc[o] = "applied" /\ pc'[o] = "heard" /\ step[o] \in Nat
    BY <1>0, <1>1 DEF Inv, Typed
  <2>2. heard'[o] = Sampled(o)
    BY <1>1
  <2>3. Trodden(o)'
    BY <1>1, <2>1, TroddenStays
  <2> QED BY <1>1, <1>2, <2>2, <2>3 DEF Hears
<1> QED BY <1>0, <1>1, <1>3, <1>4 DEF Scented

\* A capture leaves the turn of the harness unfinished.
LEMMA ScentedCapture ==
    ASSUME Inv, Scented, Capture
    PROVE  Scented'
<1>0. ScentTyped /\ (path = "harness" => step["cop"] = step["thief"])
      /\ \A o \in Sides : Trodden(o) /\ Hears(o)
  BY DEF Scented
<1>1. /\ UNCHANGED <<path, model, lag, step, field, trod, line, heard>> /\ path = "harness"
      /\ pc = [s \in Sides |-> "heard"] /\ pc' = [s \in Sides |-> "over"]
  BY DEF Capture, terms, scent
<1>2. ASSUME NEW o \in Sides PROVE Trodden(o)' /\ Hears(o)'
  <2>1. Trodden(o) /\ pc[o] = "heard" /\ pc'[o] = "over" /\ step[o] \in Nat
    BY <1>0, <1>1 DEF Inv, Typed
  <2>2. Trodden(o)'
    BY <1>1, <2>1, TroddenStays
  <2> QED BY <2>1, <2>2 DEF Hears
<1> QED BY <1>0, <1>1, <1>2 DEF Scented, ScentTyped

\* Both end their turn in the harness.
LEMMA ScentedFullTurn ==
    ASSUME Inv, Scented, FullTurn
    PROVE  Scented'
<1>0. ScentTyped /\ (path = "harness" => step["cop"] = step["thief"])
      /\ \A o \in Sides : Trodden(o) /\ Hears(o)
  BY DEF Scented
<1>1. /\ UNCHANGED <<path, model, lag, trod, line>> /\ path = "harness"
      /\ pc = [s \in Sides |-> "heard"]
      /\ field' = [s \in Sides |-> Decay(model, field[s])]
      /\ heard' = [s \in Sides |-> Decay(model, heard[s])]
      /\ step' = [s \in Sides |-> step[s] + 1]
      /\ \A o \in Sides : pc'[o] \in {"over", "decide"}
  BY DEF FullTurn, terms
<1>2. ASSUME NEW o \in Sides
      PROVE  Trodden(o)' /\ field'[o] \in [Cells -> Int] /\ heard'[o] \in [Cells -> Int]
  <2>1. /\ Trodden(o) /\ pc[o] = "heard" /\ pc'[o] \in {"decide", "over"} /\ step[o] \in Nat
        /\ field'[o] = Decay(model, field[o]) /\ step'[o] = step[o] + 1
        /\ heard'[o] = Decay(model, heard[o]) /\ heard[o] \in [Cells -> Int]
    BY <1>0, <1>1 DEF Inv, Typed, ScentTyped
  <2>2. Trodden(o)' /\ field'[o] \in [Cells -> Int]
    BY <1>0, <1>1, <2>1, TroddenEnds
  <2>3. Decay(model, heard[o]) \in [Cells -> Int]
    BY <2>1, FieldsAreNumbers
  <2> QED BY <2>1, <2>2, <2>3
<1>3. ScentTyped'
  <2>1. field' \in [Sides -> [Cells -> Int]]
    BY <1>1, <1>2
  <2>2. heard' \in [Sides -> [Cells -> Int]]
    BY <1>1, <1>2
  <2> QED BY <1>0, <1>1, <2>1, <2>2 DEF ScentTyped
<1>4. \A o \in Sides : Hears(o)'
  BY <1>1 DEF Hears
<1>5. step'["cop"] = step'["thief"]
  BY <1>0, <1>1, SidesAreTwo
<1> QED BY <1>2, <1>3, <1>4, <1>5 DEF Scented

\* Fields, lines and samples stand as Scented says, in every state of either path.
THEOREM ScentInvariance == Spec => []Scented
<1>1. ASSUME Inv, Inv', Scented, [Next]_vars PROVE Scented'
  <2>1. CASE UNCHANGED vars
    <3>1. UNCHANGED <<path, model, lag, pc, step, field, trod, line, heard>>
      BY <2>1 DEF vars, terms, scent
    <3> QED BY <1>1, <3>1 DEF Scented, ScentTyped, Trodden, Hears
  <2>2. ASSUME NEW s \in Sides, Step(s) PROVE Scented'
    <3>1. CASE HalfTurn(s)
      <4>1. PICK d : ApplyOwnMove(s, d)
        BY <3>1 DEF HalfTurn
      <4> QED BY <1>1, <3>1, <4>1, SideMoves DEF HalfTurn, terms, Inv
    <3>2. CASE Apply(s)
      BY <1>1, <3>2, SideMoves DEF Apply, terms, Inv
    <3> QED BY <1>1, <2>2, <3>1, <3>2, ScentedStays, ScentedPull, ScentedEndOfTurn DEF Step
  <2> QED BY <1>1, <2>1, <2>2, ScentedExchange, ScentedCapture, ScentedFullTurn DEF Next
<1> QED BY ScentedInit, Invariance, <1>1, PTL DEF Spec

\* Whatever the number of turns, a field is what the disclosed cells explain: the
\* strongest of what is left of the deposits, or between that and their capped sum
\* (smell.py emit, decay_all).
THEOREM TrailsAreExplained == Spec => []FieldIsTheTrail
<1>1. Scented => FieldIsTheTrail
  BY DEF Scented, Trodden, Explains, FieldIsTheTrail
<1> QED BY <1>1, ScentInvariance, PTL

\* However the two sides interleave, a sample is of the agreed age or one turn older, and
\* under the lag it holds nothing of the cell the other goes to in that turn
\* (scent_broadcast.py, peer.py _pull_scent).
THEOREM SamplesAreAsAgreed == Spec => []HeardAsAgreed
<1>1. Scented => HeardAsAgreed
  BY DEF Scented, Hears, Allowed, HeardAsAgreed
<1> QED BY <1>1, ScentInvariance, PTL

=============================================================================
