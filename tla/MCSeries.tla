------------------------------ MODULE MCSeries ------------------------------
(***************************************************************************)
(* Four sub-games under the table of Appendix F, where one sub-game cannot *)
(* draw, and under one that pays a survival alike, where it can.           *)
(***************************************************************************)
EXTENDS SeriesProperties

Pay(cop, thief) == [police |-> cop, thief |-> thief]

AppendixF == [capture |-> Pay(20, 5), survival |-> Pay(5, 10),
              technical_loss |-> Pay(0, 0)]
LevelTable == [AppendixF EXCEPT !.survival = Pay(5, 5)]

MCTeams == {1, 2}
MCTables == {AppendixF, LevelTable}
=============================================================================
