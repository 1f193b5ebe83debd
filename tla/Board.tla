------------------------------- MODULE Board -------------------------------
(***************************************************************************)
(* The board physics both peers share (domain/board.py): a square grid,    *)
(* orthogonal moves, permanent barriers bought from one quota.             *)
(*                                                                         *)
(* A move is the cell it aims at.  STAY aims at the mover's own cell; the  *)
(* four named directions aim at the four neighbours, whichever corner the  *)
(* origin is in (the corner only renames the directions).                  *)
(***************************************************************************)
EXTENDS Integers, FiniteSets

CONSTANTS GridSize,     \* board_and_agents.grid_size, 7 in config/*/game.json
          MaxBarriers   \* movement_and_barriers.max_barriers, 14 there

\* validate_shared reports any config whose grid is below its floor of 7
ASSUME BoardAssumption == /\ GridSize \in Nat \ {0, 1}
                          /\ MaxBarriers \in Nat

Cells == (0 .. GridSize - 1) \X (0 .. GridSize - 1)

Distance(i, j) == IF i < j THEN j - i ELSE i - j

Adjacent(c, d) == Distance(c[1], d[1]) + Distance(c[2], d[2]) = 1

Passable(walls) == Cells \ walls

\* The cells one movement away from c, STAY excluded.
Steps(c, walls) == {d \in Passable(walls) : Adjacent(c, d)}

\* legal_moves: STAY is always legal.
LegalMoves(c, walls) == {c} \cup Steps(c, walls)

HasEscape(c, walls) == Steps(c, walls) # {}

BarriersLeft(walls) == MaxBarriers - Cardinality(walls)

BarrierTargets(c, walls) ==
    IF BarriersLeft(walls) <= 0
      THEN {}
      ELSE {d \in Passable(walls) : d = c \/ Adjacent(c, d)}

\* OwnState.settle_move: a target walled off since the move was chosen leaves
\* the mover where it is.
SettleMove(c, aim, walls) == IF aim \in walls THEN c ELSE aim

=============================================================================
