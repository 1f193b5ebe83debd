------------------------------- MODULE Trail -------------------------------
(***************************************************************************)
(* The scent an agent leaves by moving (domain/smell.py,                   *)
(* domain/scent_models.py) and the delay line the other one samples it     *)
(* through (domain/scent_broadcast.py), under either of the two models a   *)
(* pair may have locked, and the cell a reader fits to it                  *)
(* (domain/trail_inversion.py).                                            *)
(*                                                                         *)
(* A field gives every cell its strength in millionths, 0 where the code   *)
(* has no entry.  That is exact for the kernels below and four decays.     *)
(***************************************************************************)
EXTENDS Board, Sequences

Book        == "multiplicative_book_v1"
Subtractive == "subtractive_chebyshev_v1"
Models      == {Book, Subtractive}

Larger(i, j)  == IF i < j THEN j ELSE i
Smaller(i, j) == IF i < j THEN i ELSE j

Peak == 900000
Silent == [d \in Cells |-> 0]

\* a quarter of the 5x5 table, in hundredths: rows and columns off the centre
BookTable == <<<<90, 62, 20>>, <<62, 42, 14>>, <<20, 14, 4>>>>

\* the kernel of each model around c, at d
Deposit(model, c, d) ==
    LET i == Distance(c[1], d[1])
        j == Distance(c[2], d[2])
    IN  IF Larger(i, j) > 2 THEN 0
        ELSE IF model = Book THEN 10000 * BookTable[i + 1][j + 1]
        ELSE Peak - 300000 * Larger(i, j)

\* mutant: the subtractive model adds as well
EmitAdded(model, field, c) ==
    [d \in Cells |-> Smaller(Peak, field[d] + Deposit(model, c, d))]

Emit(model, field, c) ==
    [d \in Cells |->
        IF model = Book THEN Smaller(Peak, field[d] + Deposit(model, c, d))
                        ELSE Larger(field[d], Deposit(model, c, d))]

\* decay_all, once per full turn
Decay(model, field) ==
    [d \in Cells |->
        IF model = Book THEN (field[d] * 9) \div 10
                        ELSE Larger(0, field[d] - 100000)]

\* mutant: one snapshot more is kept than the lag owes
RecordLonger(lag, line, field) ==
    LET longer == Append(line, field)
    IN  SubSeq(longer, Larger(1, Len(longer) - lag), Len(longer))

\* LaggedTrail.record: only what the lag can still owe is kept
Record(lag, line, field) ==
    IF lag = 0 THEN line
    ELSE LET longer == Append(line, field)
         IN  SubSeq(longer, Larger(1, Len(longer) - lag + 1), Len(longer))

\* LaggedTrail.transmitted: silence before the line has filled
Transmitted(lag, line, field) ==
    IF lag = 0 THEN field ELSE IF line = <<>> THEN Silent ELSE Head(line)
\* the centres whose kernel touches a cell that was reported, on the board or off
Candidates ==
    ((-2) .. (GridSize + 1)) \X ((-2) .. (GridSize + 1))

\* mutant: deposit first, decay second
PredictedAfter(previous, c) ==
    [d \in Cells |->
        (9 * Smaller(Peak, previous[d] + Deposit(Book, c, d))) \div 10]

\* _predict: decay first, deposit second, clamp last
Predicted(previous, c) ==
    [d \in Cells |->
        Smaller(Peak, (previous[d] * 9) \div 10 + Deposit(Book, c, d))]

\* the centres deposit_centre finds no error at: it names the least of them, and
\* the least wrong candidate when there is none
ExactFits(previous, observed) ==
    {c \in Candidates : Predicted(previous, c) = observed}
=============================================================================
