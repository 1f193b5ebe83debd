--------------------------- MODULE MCServedTurns ---------------------------
(* Constants of the served-wire runs: two teams on a 2x2 board, the door   *)
(* started for one (GameGroup) and called by the other, or by both.        *)
EXTENDS ServedProperties

CONSTANTS A, B

Teams   == {A, B}
OneTeam == {A}

CopCorner   == <<0, 0>>
ThiefCorner == <<1, 1>>

=============================================================================
