------------------------------- MODULE Chase -------------------------------
(***************************************************************************)
(* The chase itself: two worlds with their walls and scent fields, played  *)
(* by the shipped brains, over either of the two paths the program has.    *)
(*                                                                         *)
(* "harness" is runtime/local_match.py: the cop acts, then the thief, then *)
(* both fields are sampled and the ending is judged on the true cells.     *)
(* "wire" is runtime/peer.py between two processes: decisions are sealed   *)
(* side by side, a reveal lands on the other's board before either applies *)
(* its own step, and each side samples, judges and ends its turn on its    *)
(* own clock.  The commitments, faults and chains of the wire, and how a   *)
(* side is told that the other has ended, are modelled in PeerProtocol;    *)
(* here calls succeed and a side left waiting stays where it is.           *)
(***************************************************************************)
EXTENDS Brains, Trail

Sides == {"cop", "thief"}
Other(s) == IF s = "cop" THEN "thief" ELSE "cop"

CONSTANTS Games,        \* what is played: a path, and the agreed scent model,
                        \* pheromone_transmit_lag, cop_start and thief_start
          Threshold     \* survival_threshold = max_moves, for each path

ASSUME ChaseAssumption ==
    /\ Games \subseteq [path : {"harness", "wire"}, model : Models, lag : {0, 1},
                        starts : [Sides -> Cells]]
    /\ \A g \in Games : g.path = "harness" => g.model = Book
    /\ Threshold \in [{"harness", "wire"} -> Nat \ {0}]
    /\ None \notin {"capture", "survival"}
    /\ None \notin [Cells -> Int]

VARIABLES
    path, model, lag,   \* what the pair agreed
    pc,         \* where each side is in its turn
    at,         \* position
    walls,      \* board.barriers
    step,       \* full turns ended
    plan,       \* the decision taken this turn
    field,      \* my_scent
    line,       \* broadcast.history
    heard,      \* opponent_scent
    last,       \* the cop's last_opponent_field, None before a sample
    fits,       \* the cells its opponent_deposit was chosen from, None before that
    caught,     \* the thief answered yes to a claim
    outcome,    \* each side's, None while it plays
    trod,       \* history: the cells each field was emitted at
    prompt,     \* history: the cop's latest samples in a row taken of a thief
                \* that had made its step of the turn and not ended the turn
    landed      \* history: the wall built in the turn under way, or None

terms == <<path, model, lag>>
scent == <<field, line, trod>>
read == <<last, fits, prompt>>
vars == <<terms, pc, at, walls, step, plan, scent, heard, read, caught,
          outcome, landed>>

Init ==
    /\ \E g \in Games : /\ path = g.path /\ model = g.model /\ lag = g.lag
                       /\ at = g.starts
    /\ pc = [s \in Sides |-> "decide"]
    /\ walls = [s \in Sides |-> {}]
    /\ step = [s \in Sides |-> 0]
    /\ plan = [s \in Sides |-> [aim |-> at[s], wall |-> None]]
    /\ field = [s \in Sides |-> Silent]
    /\ line = [s \in Sides |-> <<>>]
    /\ heard = [s \in Sides |-> Silent]
    /\ last = None /\ fits = None /\ prompt = 0
    /\ caught = FALSE
    /\ outcome = [s \in Sides |-> None]
    /\ trod = [s \in Sides |-> <<>>]
    /\ landed = None

Decisions(s) == IF s = "cop" THEN CopDecisions(at[s], walls[s])
                             ELSE ThiefDecisions(at[s], walls[s])

Walled(d) == {d.wall} \ {None}

\* settled_position: where decision d leaves s, with these walls on its board
Settled(s, d, known) ==
    IF d.wall # None THEN at[s] ELSE SettleMove(at[s], d.aim, known)

\* apply_own_move: the snapshot comes before this turn's emission
ApplyOwnMove(s, d) ==
    LET cell == Settled(s, d, walls[s])
    IN  /\ at' = [at EXCEPT ![s] = cell]
        /\ line' = [line EXCEPT ![s] = Record(lag, @, field[s])]
        /\ field' = [field EXCEPT ![s] = Emit(model, @, cell)]
        /\ trod' = [trod EXCEPT ![s] = Append(@, cell)]

\* what s may sample of the other's trail
Sampled(s) == Transmitted(lag, line[Other(s)], field[Other(s)])

\* _fit_deposit, under the book's model; track_deposit is on in the cop's setup,
\* and build_side passes no setup, so the harness never fits
FitDeposit(s) ==
    IF s = "cop" /\ model = Book
    THEN /\ fits' = IF last = None THEN fits ELSE ExactFits(last, Sampled(s))
         /\ last' = Sampled(s)
         /\ prompt' = IF pc["thief"] \in {"applied", "heard"} THEN prompt + 1 ELSE 0
    ELSE UNCHANGED read

(***************************************************************************)
(* The harness                                                             *)
(***************************************************************************)
\* play_half_turn
HalfTurn(s) ==
    /\ path = "harness"
    /\ pc[s] = "decide"
    /\ s = "thief" => pc["cop"] = "applied"
    /\ \E d \in Decisions(s) :
        /\ plan' = [plan EXCEPT ![s] = d]
        /\ ApplyOwnMove(s, d)
        /\ walls' = [t \in Sides |-> walls[t] \cup Walled(d)]
        /\ landed' = IF s = "cop" THEN d.wall ELSE landed
    /\ pc' = [pc EXCEPT ![s] = "applied"]
    /\ UNCHANGED <<terms, step, heard, read, caught, outcome>>

ExchangeScent ==
    /\ path = "harness"
    /\ pc = [s \in Sides |-> "applied"]
    /\ heard' = [s \in Sides |-> Sampled(s)]
    /\ pc' = [s \in Sides |-> "heard"]
    /\ UNCHANGED <<terms, at, walls, step, plan, scent, read, caught, outcome, landed>>

BoxedIn == ~ HasEscape(at["thief"], walls["thief"])

TerminalOutcome == at["cop"] = at["thief"] \/ BoxedIn

\* run_local_match after the exchange: a capture leaves the turn unfinished
Capture ==
    /\ path = "harness"
    /\ pc = [s \in Sides |-> "heard"]
    /\ TerminalOutcome
    /\ outcome' = [s \in Sides |-> "capture"]
    /\ pc' = [s \in Sides |-> "over"]
    /\ UNCHANGED <<terms, at, walls, step, plan, scent, heard, read, caught, landed>>

FullTurn ==
    /\ path = "harness"
    /\ pc = [s \in Sides |-> "heard"]
    /\ ~ TerminalOutcome
    /\ field' = [s \in Sides |-> Decay(model, field[s])]
    /\ heard' = [s \in Sides |-> Decay(model, heard[s])]
    /\ step' = [s \in Sides |-> step[s] + 1]
    /\ IF step'["thief"] >= Threshold[path]
         THEN /\ outcome' = [s \in Sides |-> "survival"]
              /\ pc' = [s \in Sides |-> "over"]
         ELSE /\ pc' = [s \in Sides |-> "decide"]
              /\ UNCHANGED outcome
    /\ UNCHANGED <<terms, at, walls, plan, read, line, trod, caught, landed>>

(***************************************************************************)
(* The wire                                                                *)
(***************************************************************************)
\* prepare_step and the push of its commitment
Decide(s) ==
    /\ path = "wire"
    /\ pc[s] = "decide"
    /\ \E d \in Decisions(s) : plan' = [plan EXCEPT ![s] = d]
    /\ pc' = [pc EXCEPT ![s] = "sealed"]
    /\ UNCHANGED <<terms, at, walls, step, scent, heard, read, caught, outcome, landed>>

\* s has at least sealed the step the other one is in
HasSealed(s) ==
    \/ step[s] > step[Other(s)]
    \/ step[s] = step[Other(s)] /\ pc[s] \notin {"decide", "over"}

HasRevealed(s) == HasSealed(s) /\ (step[s] = step[Other(s)] => pc[s] # "sealed")

\* mutant: the cell after moving, even when a wall was sealed
OwnCell(d) == Settled("cop", d, walls["cop"])

\* capture_claim: pending_cell of the cop
Claimed(d) == IF d.wall # None THEN d.wall ELSE Settled("cop", d, walls["cop"])

\* s pushes its reveal: on_reveal builds the wall, then answers the claim
Reveal(s) ==
    LET o == Other(s)
        d == plan[s]
    IN  /\ pc[s] = "sealed"
        /\ HasSealed(o)
        /\ walls' = [walls EXCEPT ![o] = @ \cup Walled(d)]
        /\ landed' = IF s = "cop" THEN d.wall ELSE landed
        /\ caught' = \/ caught
                     \/ s = "cop" /\ Settled(o, plan[o], walls'[o]) = Claimed(d)
        /\ pc' = [pc EXCEPT ![s] = "revealed"]
        /\ UNCHANGED <<terms, at, step, plan, scent, heard, read, outcome>>

\* apply_own_step, once the other's reveal has come
Apply(s) ==
    /\ pc[s] = "revealed"
    /\ HasRevealed(Other(s))
    /\ ApplyOwnMove(s, plan[s])
    /\ walls' = [walls EXCEPT ![s] = @ \cup Walled(plan[s])]
    /\ pc' = [pc EXCEPT ![s] = "applied"]
    /\ UNCHANGED <<terms, step, plan, heard, read, caught, outcome, landed>>

\* _pull_scent: sample_scent is answered at once, whatever step the other is in
Pull(s) ==
    /\ path = "wire"
    /\ pc[s] = "applied"
    /\ heard' = [heard EXCEPT ![s] = Sampled(s)]
    /\ FitDeposit(s)
    /\ pc' = [pc EXCEPT ![s] = "heard"]
    /\ UNCHANGED <<terms, at, walls, step, plan, scent, caught, outcome, landed>>

\* _captured: a claim was answered yes, or a thief is boxed in
Captured(s) == caught \/ (s = "thief" /\ BoxedIn)

\* end_of_turn and run_sub_game's two ways out of the loop
EndOfTurn(s) ==
    /\ path = "wire"
    /\ pc[s] = "heard"
    /\ field' = [field EXCEPT ![s] = Decay(model, @)]
    /\ heard' = [heard EXCEPT ![s] = Decay(model, @)]
    /\ step' = [step EXCEPT ![s] = @ + 1]
    /\ outcome' = [outcome EXCEPT ![s] =
                    IF Captured(s) THEN "capture"
                    ELSE IF step'[s] >= Threshold[path] THEN "survival"
                    ELSE None]
    /\ pc' = [pc EXCEPT ![s] = IF outcome'[s] = None THEN "decide" ELSE "over"]
    /\ UNCHANGED <<terms, at, walls, plan, read, line, trod, caught, landed>>

Step(s) ==
    \/ HalfTurn(s)
    \/ Decide(s) \/ Reveal(s) \/ Apply(s) \/ Pull(s)
    \/ EndOfTurn(s)

Next == (\E s \in Sides : Step(s)) \/ ExchangeScent \/ Capture \/ FullTurn

Spec == Init /\ [][Next]_vars

=============================================================================
