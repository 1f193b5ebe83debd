-------------------------- MODULE ChaseProperties --------------------------
(***************************************************************************)
(* What the chase promises, over both paths (Chase).                       *)
(***************************************************************************)
EXTENDS Chase

\* what is left at d of an emission at c, n decays later, on its own
Rest(m, c, d, n) ==
    LET rest[i \in Nat] ==
            IF i = 0 THEN Deposit(m, c, d)
            ELSE IF m = Book THEN (rest[i - 1] * 9) \div 10
            ELSE Larger(0, rest[i - 1] - 100000)
    IN  rest[n]

\* what is left of the i-th of the emissions at these cells, after so many turns
Left(m, cells, d, turns, i) == Rest(m, cells[i], d, turns - i + 1)

\* and of all of them, added up
Together(m, cells, d, turns) ==
    LET sum[i \in 0 .. Len(cells)] ==
            IF i = 0 THEN 0 ELSE sum[i - 1] + Left(m, cells, d, turns, i)
    IN  sum[Len(cells)]

\* what rounding down may cost a deposit, however often it decays
Rounding == 9

(***************************************************************************)
(* A field can be recomputed from the cells its owner trod, which the      *)
(* audit discloses: under the subtractive model it is, cell by cell, the   *)
(* strongest of what is left of every deposit, under the book's it lies    *)
(* between the strongest and their capped sum, but for rounding            *)
(* (smell.py emit, decay_all).                                             *)
(***************************************************************************)
FieldIsTheTrail ==
    \A s \in Sides, d \in Cells :
        LET n == Len(trod[s])
            rests == {Left(model, trod[s], d, step[s], i) : i \in 1 .. n} \cup {0}
        IN  /\ \A r \in rests : r <= field[s][d]
            /\ IF model = Subtractive THEN field[s][d] \in rests
               ELSE field[s][d] <=
                    Smaller(Peak, Together(model, trod[s], d, step[s]) + Rounding * n)

\* the field that the first n emissions at these cells make, before the decay
\* that follows
Emitted(m, cells, n) ==
    LET live[i \in 0 .. Len(cells)] ==
            IF i = 0 THEN Silent
            ELSE Emit(m, Decay(m, live[i - 1]), cells[i])
    IN  IF n <= 0 THEN Silent ELSE live[n]

Stale(m, cells, n) == Decay(m, Emitted(m, cells, n - 1))

(***************************************************************************)
(* The field sampled in a turn is never of a later turn and at most one    *)
(* turn older than agreed, and with the lag on it holds nothing of the     *)
(* cell the other is moving to in that very turn; in the harness it is     *)
(* exactly as old as agreed (scent_broadcast.py, peer.py _pull_scent).     *)
(***************************************************************************)
HeardAsAgreed ==
    \A s \in Sides :
        pc[s] = "heard" =>
            LET cells == trod[Other(s)]
                turn == step[s] + 1
                agreed == {turn} \cap 1 .. Len(cells)
                earlier == IF path = "wire"
                           THEN {turn - 1, turn} \cap 0 .. Len(cells)
                           ELSE {}
            IN  IF lag = 1
                THEN heard[s] \in {Stale(model, cells, n) : n \in agreed \cup earlier}
                ELSE heard[s] \in {Emitted(model, cells, n) : n \in agreed}
                                    \cup {Stale(model, cells, n + 1) : n \in earlier}

(***************************************************************************)
(* The cop never stands in a wall and never walls itself in: with no move  *)
(* left it could not capture any more (cop_brain.py _keeps_us_mobile).     *)
(***************************************************************************)
CopStaysFree ==
    /\ at["cop"] \notin walls["cop"]
    /\ HasEscape(at["cop"], walls["cop"])

(***************************************************************************)
(* The thief is boxed in only by a wall of that very turn: left alone it   *)
(* never steps into a cell, nor stays in one, that it cannot leave         *)
(* (thief_brain.py _survivable).                                           *)
(***************************************************************************)
BoxedInByAWall ==
    (pc["thief"] \in {"applied", "heard", "over"} /\ BoxedIn) => landed # None

(***************************************************************************)
(* Rule 46 on the wire: a wall built on the cell the thief settles on is a *)
(* capture, so no thief ever ends its turn in a wall and plays on          *)
(* (peer_session.py capture_claim, answer_capture_claim).                  *)
(***************************************************************************)
NobodyPlaysOnInAWall ==
    (path = "wire" /\ pc["thief"] \notin {"sealed", "revealed"}
        /\ at["thief"] \in walls["thief"]) => caught

(***************************************************************************)
(* With no lag, the shipped term, a trail is read back without error       *)
(* whenever the cop's two latest samples were both taken of a thief that   *)
(* had made its step and not yet ended its turn: the cell it then trod     *)
(* explains the field exactly, however saturated it is                     *)
(* (trail_inversion.py deposit_centre, own_state.py _fit_deposit).         *)
(***************************************************************************)
FreshTrailIsInverted ==
    (lag = 0 /\ pc["cop"] = "heard" /\ prompt >= 2) =>
        trod["thief"][Len(trod["thief"])] \in fits

(***************************************************************************)
(* What trail_inversion.py:19 says of any received field: the fit recovers *)
(* the deposit exactly, so a cell really trod explains it.                 *)
(***************************************************************************)
TrailIsInverted ==
    (pc["cop"] = "heard" /\ fits # None) =>
        \E i \in DOMAIN trod["thief"] : trod["thief"][i] \in fits
=============================================================================
