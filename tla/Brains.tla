------------------------------- MODULE Brains -------------------------------
(***************************************************************************)
(* What the shipped brains may decide (domain/cop_brain.py,                *)
(* domain/thief_brain.py).  Kept are the rules that forbid: which walls    *)
(* the cop rejects, which moves the thief drops.  What only ranks is       *)
(* abstracted: the belief, the fitted deposit and the stall counter give   *)
(* the cop any target and leave it free to wall or to walk, and of the     *)
(* legal moves it, and the thief of those it has left, may take any.       *)
(*                                                                         *)
(* A decision is the cell its move aims at and the wall it builds, or None.*)
(***************************************************************************)
EXTENDS Board

CONSTANTS EngageRange,    \* barrier_engage_range
          Reserve,        \* barrier_endgame_reserve
          MinGain,        \* barrier_min_gain
          MinSafeExits,   \* exit_min_safe
          None

ASSUME BrainsAssumption ==
    /\ {EngageRange, Reserve, MinGain, MinSafeExits} \subseteq Int
    /\ None \notin Cells

(***************************************************************************)
(* The two searches of the board a wall is weighed by.  Both grow a ring   *)
(* of cells around c, whatever stands on c itself.                         *)
(***************************************************************************)
Grown(cells, walls) ==
    cells \cup {d \in Passable(walls) : \E e \in cells : Adjacent(d, e)}

\* longer than any path: shortest_path_length's None
NoPath == GridSize * GridSize

\* shortest_path_length
PathLength(c, d, walls) ==
    LET length[seen \in SUBSET Cells] ==
            IF d \in seen THEN 0
            ELSE LET ring == Grown(seen, walls)
                     rest == IF ring = seen THEN NoPath ELSE length[ring]
                 IN  IF rest = NoPath THEN NoPath ELSE rest + 1
    IN  IF d \in {c} \cup Passable(walls) THEN length[{c}] ELSE NoPath

\* reachable_area
Area(c, walls) ==
    LET reached[seen \in SUBSET Cells] ==
            LET ring == Grown(seen, walls)
            IN  IF ring = seen THEN seen ELSE reached[ring]
    IN  Cardinality(reached[{c}])

Exits(c, walls) == Cardinality(Steps(c, walls))

(***************************************************************************)
(* The cop.                                                                *)
(***************************************************************************)
ShouldConsiderBarrier(c, target, walls) ==
    /\ BarriersLeft(walls) > 0
    /\ PathLength(c, target, walls) <= EngageRange
    /\ BarriersLeft(walls) <= Reserve => PathLength(c, target, walls) <= 2

\* mutant: the last exit may be sealed
KeepsNothing(c, wall, walls, target) == TRUE

KeepsUsMobile(c, wall, walls, target) ==
    wall = target \/ HasEscape(c, walls \cup {wall})

\* _evaluate: the room the target loses
Gain(target, wall, walls) ==
    Area(target, walls) - Area(target, walls \cup {wall})

Gap(c, target, wall, walls) == PathLength(c, target, walls \cup {wall})

\* the walls left of _choose_barrier's options, for one target
Worthwhile(c, walls, target) ==
    {w \in BarrierTargets(c, walls) \ {c} :
        /\ KeepsUsMobile(c, w, walls, target)
        /\ Gap(c, target, w, walls) # NoPath
        /\ Gap(c, target, w, walls) <= PathLength(c, target, walls)
        /\ Gain(target, w, walls) >= MinGain}

\* twice _choose_barrier's score
Score(c, walls, target, w) ==
    2 * Gain(target, w, walls)
        - (Gap(c, target, w, walls) - PathLength(c, target, walls))

BestWalls(c, walls, target) ==
    {w \in Worthwhile(c, walls, target) :
        \A v \in Worthwhile(c, walls, target) :
            Score(c, walls, target, v) <= Score(c, walls, target, w)}

\* for every set of walls and every cell, as one table
WallSets == {w \in SUBSET Cells : Cardinality(w) <= MaxBarriers}

ChosenBarriers ==
    [walls \in WallSets |-> [c \in Cells |->
        UNION {BestWalls(c, walls, t) :
                  t \in {d \in Cells : ShouldConsiderBarrier(c, d, walls)}}]]

CopDecisions(c, walls) ==
    [aim : LegalMoves(c, walls), wall : {None}]
        \cup [aim : {c}, wall : ChosenBarriers[walls][c]]

(***************************************************************************)
(* The thief: a veto that would leave nothing is not applied.              *)
(***************************************************************************)
OrElse(some, otherwise) == IF some = {} THEN otherwise ELSE some

\* mutant: a dead end is as good as any cell
NoDeadEnds(c, moves, walls) == moves

WithoutDeadEnds(c, moves, walls) ==
    OrElse({d \in moves : d = c \/ Exits(d, walls) > 0}, moves)

WithoutTraps(moves, walls) ==
    OrElse({d \in moves : Exits(d, walls) > MinSafeExits}, moves)

Survivable(c, walls) ==
    LET safe == WithoutTraps(WithoutDeadEnds(c, LegalMoves(c, walls), walls),
                             walls)
    IN  IF Exits(c, walls) <= 1 THEN OrElse(safe \ {c}, safe) ELSE safe

ThiefDecisions(c, walls) == [aim : Survivable(c, walls), wall : {None}]
=============================================================================
