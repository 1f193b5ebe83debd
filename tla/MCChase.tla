------------------------------ MODULE MCChase ------------------------------
EXTENDS ChaseProperties, TLC

\* a wall is built on a cell of the board
ASSUME ChosenBarriers \in [WallSets -> [Cells -> SUBSET Cells]]

Game(path_, model_, lag_, cop, thief) ==
    [path |-> path_, model |-> model_, lag |-> lag_,
     starts |-> "cop" :> cop @@ "thief" :> thief]

\* the shipped lag is 0; 1 is what it was before
MCGames == {Game("harness", Book, 0, <<1, 1>>, <<2, 2>>),
            Game("harness", Book, 1, <<0, 0>>, <<1, 1>>),
            Game("wire", Book, 0, <<0, 0>>, <<1, 1>>),
            Game("wire", Book, 1, <<0, 1>>, <<1, 1>>),
            Game("wire", Subtractive, 0, <<0, 0>>, <<2, 2>>)}

\* only a trail held for a turn
MCLagged == {Game("wire", Book, 1, <<0, 1>>, <<1, 1>>)}

MCThreshold == "harness" :> 3 @@ "wire" :> 2
=============================================================================
