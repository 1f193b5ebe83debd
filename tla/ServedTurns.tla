---------------------------- MODULE ServedTurns ----------------------------
(***************************************************************************)
(* The served wire: our peer only answers.  A driver (another team's       *)
(* program) calls hello, declare_step0, submit_turn, confirm_result,       *)
(* final_audit and agree_result, and our turn rides home in the answer     *)
(* (mcp/interop.py, runtime/turn_loop.py, runtime/served_recorder.py,      *)
(* runtime/declaration_trace.py, runtime/pairing_guard.py).                *)
(*                                                                         *)
(* A handler runs to its end before the next one starts, so each action is *)
(* one call.  `peer` is what InteropAdapter holds: the session, its turn   *)
(* loop and the recorder.  What is hard here is not the interleaving but   *)
(* the sequence: answers get lost and turns are sent again, sub-games are  *)
(* started over, several teams knock at the same door.                     *)
(***************************************************************************)
EXTENDS Board, Sequences

CONSTANTS CopStart, ThiefStart, SurvivalThreshold,
          Groups,       \* the teams
          Callers,      \* those that call this door
          GameGroup,    \* the team our game id names
          None,         \* Python's None, and the empty string of an ending
          Unstated,     \* may a driver confirm a result without naming it?
          MaxGames,     \* bound: sub-games the drivers start
          MaxStep,      \* bound: turns a driver takes in one sub-game
          MaxLosses     \* bound: answers that never reach the driver

Cop   == "cop"
Thief == "thief"
Capture  == "capture"
Survival == "survival"
Endings  == {Capture, Survival}
Numbers  == 1 .. MaxGames + 1

\* A driver's sub-game: who plays it, which of theirs it is, its declared number
\* (0: never declared).  Commitments are abstracted to the sub-game they seal a
\* step of: a turn sent again carries the same one, a new sub-game another.
GamesOf == [group : Groups \cup {None}, id : 0 .. MaxGames, number : {0} \cup Numbers]

Turn == [game : GamesOf, step : 0 .. MaxStep, nil : BOOLEAN, barrier : Cells \cup {None},
         claim : Cells \cup {None}, win : BOOLEAN]

\* A TurnLoop.
Loops == [round : Nat, finished : Endings \cup {None}, claimed : Cells \cup {None},
          walled : Cells \cup {None}]

ASSUME ServedAssumption ==
    /\ CopStart \in Cells /\ ThiefStart \in Cells
    /\ SurvivalThreshold \in Nat \ {0}
    /\ GameGroup \in Groups /\ Callers \subseteq Groups
    /\ Unstated \in BOOLEAN
    /\ MaxGames \in Nat /\ MaxStep \in Nat \ {0} /\ MaxLosses \in Nat
    /\ None \notin Cells \cup Endings \cup GamesOf \cup Turn \cup Loops

VARIABLES
    role,      \* the side this door serves; a process serves one
    declares,  \* does the driver's dialect call declare_step0?
    peer,      \* [session, loop, recorder]
    driver,    \* the calling program
    begun,     \* how many sub-games drivers have begun
    losses     \* how many more answers may be lost

vars == <<role, declares, peer, driver, begun, losses>>

StartOf(r) == IF r = Cop THEN CopStart ELSE ThiefStart

\* PeerSession(...) for sub-game n.  `owner` and `resent` are not the code's: the
\* driver's sub-game the last turn was of, and whether a turn came twice.
FreshSession(n, opp) ==
    [sub |-> n, declared |-> 0, opponent |-> opp, clash |-> FALSE,
     pos |-> StartOf(role), walls |-> {}, records |-> <<>>, held |-> <<>>, seen |-> 0,
     caught |-> FALSE, ended |-> None, owner |-> None, resent |-> FALSE]

NewLoop == [round |-> 0, finished |-> None, claimed |-> None, walled |-> None]

\* InteropAdapter.turns: the loop is created once per session.
WithLoop(w) == IF w.loop = None THEN [w EXCEPT !.loop = NewLoop] ELSE w

BoxedIn(s) == role = Thief /\ ~HasEscape(s.pos, s.walls)

SurvivalReached(s) == Len(s.records) >= SurvivalThreshold

-----------------------------------------------------------------------------
(* The recorder: one artifact set per sub-game that ended. *)

NoteCaller(w, g) == [w EXCEPT !.recorder.opponent = g]

Row(w, ending) == [opponent |-> w.recorder.opponent, series |-> w.recorder.series,
                   sub |-> w.session.sub, ending |-> ending, owner |-> w.session.owner,
                   resent |-> w.session.resent]

\* Mutant: the settled key is not remembered.
SettleForgetful(w, ending) ==
    IF ending = None THEN w
    ELSE [w EXCEPT !.recorder.filed = Append(@, Row(w, ending))]

Settle(w, ending) ==
    LET key == <<w.recorder.opponent, w.recorder.series, w.session.sub>> IN
    IF ending = None \/ key \in w.recorder.recorded THEN w
    ELSE [w EXCEPT !.recorder.recorded = @ \cup {key},
                   !.recorder.filed = Append(@, Row(w, ending))]

\* A number already filed opens a new series.
Opened(w, n) ==
    IF <<w.recorder.opponent, w.recorder.series, n>> \in w.recorder.recorded
      THEN [w EXCEPT !.recorder.series = @ + 1]
      ELSE w

-----------------------------------------------------------------------------
(* Opening a sub-game.  n is the number the payload carries, 0 for none. *)

NoteDeclaration(s, n) == IF n = 0 THEN s ELSE [s EXCEPT !.declared = n]

Played(w) == w.loop # None /\ (w.loop.round > 0 \/ w.loop.finished # None)

OpeningNumber(s, n, played) ==
    CASE n > 0 -> n
      [] n = 0 /\ s.declared > 0 -> s.declared
      [] OTHER -> s.sub + (IF played THEN 1 ELSE 0)

\* adopt_or_open, nothing played yet: the number is ours, or taken in place.
AdoptOrStay(w, number) ==
    IF number = w.session.sub THEN w
    ELSE Opened([w EXCEPT !.session.sub = number], number)

\* Mutant: the sub-game being left is not settled.
RestartUnsettled(w, n) ==
    LET noted   == [w EXCEPT !.session = NoteDeclaration(@, n)]
        opening == OpeningNumber(noted.session, n, Played(w))
        fresh   == NoteDeclaration(FreshSession(opening, w.session.opponent), n)
    IN  IF Played(w)
          THEN Opened([noted EXCEPT !.session = fresh, !.loop = None], opening)
          ELSE AdoptOrStay(noted, opening)

\* _restart_if_a_new_sub_game: stay, adopt the number in place, or settle the
\* sub-game that was played and open a clean session.
Restart(w, n) ==
    LET noted   == [w EXCEPT !.session = NoteDeclaration(@, n)]
        opening == OpeningNumber(noted.session, n, Played(w))
        fresh   == NoteDeclaration(FreshSession(opening, w.session.opponent), n)
        settled == Settle(noted, w.loop.finished)
    IN  IF Played(w)
          THEN Opened([settled EXCEPT !.session = fresh, !.loop = None], opening)
          ELSE AdoptOrStay(noted, opening)

\* pairing_guard.adopt refuses once records are sealed; before, it rebuilds the
\* peer's own state for the new pairing and keeps the board.
Refuses(s, g) == g # s.opponent /\ s.records # <<>>

Adopt(s, g) ==
    IF g = s.opponent \/ Refuses(s, g) THEN s
    ELSE [s EXCEPT !.opponent = g, !.pos = StartOf(role), !.seen = 0]

\* at_the_door: a finished sub-game is retired for a caller that is not the one
\* being played, then the session is adopted for it.
AtTheDoor(w, g, n) ==
    LET retired == IF g # w.session.opponent /\ w.loop # None /\ w.loop.finished # None
                     THEN Restart(w, n) ELSE w
    IN  [retired EXCEPT !.session = Adopt(@, g)]

-----------------------------------------------------------------------------
(* Playing: TurnLoop. *)

\* Mutant: step 1 is no opener, so only the cop's door is ever reset.
OpenerIsNewStepZeroOnly(w, t) ==
    /\ w.loop # None
    /\ t.step = 0
    /\ w.loop.finished # None \/ w.session.seen > 0

\* _opener_is_a_retry: despite its name, whether the opener begins a new
\* sub-game and is not a repetition of this one's.
OpenerIsNew(w, t) ==
    /\ w.loop # None
    /\ \/ w.loop.finished # None
       \/ t.step > 0 /\ t.step \in DOMAIN w.session.held /\ w.session.held[t.step] # t.game.id
       \/ t.step = 0 /\ w.session.seen > 0

Arrived(w, t) ==
    IF t.step <= 1 /\ (w.loop = None \/ OpenerIsNew(w, t)) THEN Restart(w, 0) ELSE w

MayAct(w) == w.loop.round <= w.session.seen

\* Mutant: their step, or the one after it, whatever we have sealed already.
ReplyStepEchoed(w, theirs) == IF w.loop.round < theirs THEN theirs ELSE theirs + 1

ReplyStep(w, theirs) ==
    LET answer == IF w.loop.round < theirs THEN theirs ELSE theirs + 1
    IN  IF answer > w.loop.round THEN answer ELSE w.loop.round + 1

\* wall_capture: a thief watches a wall built on its own cell, and is caught by it
\* if its own move leaves it there.
Entering(s, wall) == IF role = Thief /\ wall = s.pos THEN wall ELSE None
Leaving(s, wall)  == wall # None /\ wall = s.pos

\* _absorb: the commitment, the wall and the claim, then rule 46's watch on the
\* wall and rule 47, then their claim of survival.
Absorb(w, t) ==
    LET s      == w.session
        walls  == s.walls \cup (IF t.barrier = None THEN {} ELSE {t.barrier})
        hit    == t.claim # None /\ t.claim = s.pos
        held   == [i \in DOMAIN s.held \cup {t.step} |->
                      IF i = t.step THEN t.game.id ELSE s.held[i]]
        told   == [s EXCEPT !.held = held, !.walls = walls,
                            !.seen = @ + 1, !.owner = t.game,
                            !.resent = @ \/ (t.step \in DOMAIN s.held
                                             /\ s.held[t.step] = t.game.id)]
        boxed  == BoxedIn(told)
    IN  [w EXCEPT
           !.session = [told EXCEPT !.caught = @ \/ hit \/ boxed],
           !.loop.walled = Entering(s, t.barrier),
           !.loop.finished = CASE t.win -> Survival
                               [] ~t.win /\ boxed -> Capture
                               [] OTHER -> @]

Decisions(s) ==
         {[aim |-> c, barrier |-> None] : c \in LegalMoves(s.pos, s.walls)}
    \cup {[aim |-> s.pos, barrier |-> b]
             : b \in IF role = Cop THEN BarrierTargets(s.pos, s.walls) \ {s.pos} ELSE {}}

ClaimOf(s, d) ==
    CASE role = Thief -> None
      [] role = Cop /\ d.barrier # None -> d.barrier
      [] OTHER -> SettleMove(s.pos, d.aim, s.walls)

\* _survival_claim, read before the step is applied.
ClaimsSurvival(s) == role = Thief /\ SurvivalReached(s) /\ ~BoxedIn(s)

\* take_turn: decide, seal, declare, apply, close the round at step n.
TakeTurn(w, n, d, game) ==
    LET s     == w.session
        moved == [s EXCEPT
                    !.pos = IF d.barrier = None THEN SettleMove(@, d.aim, s.walls) ELSE @,
                    !.walls = @ \cup (IF d.barrier = None THEN {} ELSE {d.barrier}),
                    !.records = Append(@, n), !.owner = game]
        lost  == Leaving(moved, w.loop.walled) \/ BoxedIn(moved)
    IN  [w EXCEPT
           !.session = [moved EXCEPT !.caught = @ \/ lost],
           !.loop = [round    |-> n,
                     walled   |-> None,
                     claimed  |-> IF role = Cop THEN ClaimOf(s, d) ELSE @.claimed,
                     finished |-> CASE lost -> Capture
                                    [] ~lost /\ ClaimsSurvival(s) -> Survival
                                    [] OTHER -> @.finished]]

Silence == [claim |-> None, wall |-> None, caught |-> FALSE, win |-> FALSE]

\* TurnLoop.receive: decline a handover, concede, or answer with a turn.
Answers(w, t) ==
    LET v    == IF t.nil THEN WithLoop(w) ELSE Absorb(WithLoop(w), t)
        step == IF t.nil THEN v.loop.round + 1 ELSE ReplyStep(v, t.step)
    IN  CASE t.nil /\ ~MayAct(v) -> {[peer |-> v, answer |-> Silence]}
          [] ~t.nil /\ v.session.caught ->
                {[peer   |-> [v EXCEPT !.loop.finished = Capture],
                  answer |-> [Silence EXCEPT !.caught = TRUE]]}
          [] OTHER ->
                {[peer   |-> TakeTurn(v, step, d, t.game),
                  answer |-> [claim |-> ClaimOf(v.session, d), wall |-> d.barrier,
                              caught |-> FALSE, win |-> ClaimsSurvival(v.session)]]
                   : d \in Decisions(v.session)}

-----------------------------------------------------------------------------
(* Endings. *)

\* record_ending: the first word counts, and no word means survival.
RecordEnding(recorded, stated) ==
    CASE recorded # None -> recorded
      [] recorded = None /\ stated # None -> stated
      [] OTHER -> Survival

\* TurnLoop.concede: a capture only where we claimed the cell conceded.
Concede(l, ending, cell) ==
    CASE ending = Survival -> [l EXCEPT !.finished = IF @ = None THEN Survival ELSE @]
      [] ending # Survival /\ l.claimed # None /\ cell \in {None, l.claimed} ->
            [l EXCEPT !.finished = Capture]
      [] OTHER -> l

\* Mutant: an ending nobody announced is not derived.
OutcomeObserved(w) == w.loop.finished

\* TurnLoop.outcome: what was observed, else rule 47, else the horizon.
Outcome(w) ==
    CASE w.loop.finished # None -> w.loop.finished
      [] w.loop.finished = None /\ BoxedIn(w.session) -> Capture
      [] w.loop.finished = None /\ ~BoxedIn(w.session) /\ SurvivalReached(w.session) -> Survival
      [] OTHER -> None

-----------------------------------------------------------------------------
(* The calls, and the program that makes them (external: seen only through *)
(* what it sends).  It plays honestly on its own board, may give a         *)
(* sub-game up and start over, may not hear an answer, may send the same   *)
(* turn again, and stops when it sees an ending.                           *)

NewSubGame(g, id, n) ==
    [game |-> [group |-> g, id |-> id, number |-> n], declared |-> FALSE, handed |-> FALSE,
     step |-> 0, pos |-> StartOf(IF role = Cop THEN Thief ELSE Cop), walls |-> {},
     unheard |-> None, over |-> None, confirmed |-> FALSE]

Playing(d) == d.game.id > 0

\* What the driver makes of the answer to its turn.
Hears(d, a) ==
    LET walls == d.walls \cup (IF a.wall = None THEN {} ELSE {a.wall})
        taken == \/ a.caught
                 \/ role = Cop /\ (a.claim = d.pos \/ ~HasEscape(d.pos, walls))
    IN  [d EXCEPT !.walls = walls, !.unheard = None,
                  !.over = CASE @ # None -> @
                             [] @ = None /\ taken -> Capture
                             [] @ = None /\ ~taken /\ a.win -> Survival
                             [] OTHER -> None]

\* hello and propose_config: whoever calls, is noted and judged.
Hello(g) ==
    LET w == AtTheDoor(NoteCaller(peer, g), g, 0) IN
    /\ peer' = w
    /\ driver' = IF g # driver.game.group /\ w.session.opponent = g
                   THEN NewSubGame(g, 0, 0) ELSE driver
    /\ UNCHANGED <<role, declares, begun, losses>>

\* The driver begins its next sub-game, giving up one that has not ended.
Begin ==
    /\ driver.game.group # None /\ begun < MaxGames
    /\ begun' = begun + 1
    /\ \E n \in IF declares THEN 1 .. MaxGames ELSE {0} :
         driver' = NewSubGame(driver.game.group, begun', n)
    /\ UNCHANGED <<role, declares, peer, losses>>

\* declare_step0.  clash: the role they declare is not the one ours leaves them;
\* a driver may correct it, or play on.
Declare(clash) ==
    LET g == driver.game.group
        n == driver.game.number
        w == AtTheDoor(NoteCaller(peer, g), g, n)
    IN  /\ declares /\ Playing(driver) /\ driver.step = 0 /\ ~driver.handed
        /\ peer' = IF w.session.opponent # g THEN w
                   ELSE [Restart(w, n) EXCEPT
                           !.session = [NoteDeclaration(@, n) EXCEPT !.clash = clash]]
        /\ driver' = [driver EXCEPT !.declared = TRUE]
        /\ UNCHANGED <<role, declares, begun, losses>>

\* submit_turn: the whole call; whether the answer is heard is the network's.
SubmitTurn(t, sent) ==
    \E r \in Answers(Arrived(peer, t), t) :
      /\ peer' = r.peer
      /\ \/ driver' = Hears(sent, r.answer) /\ losses' = losses
         \/ losses > 0 /\ losses' = losses - 1 /\ driver' = [sent EXCEPT !.unheard = t]

MayPlay == /\ Playing(driver) /\ (declares => driver.declared)
           /\ driver.over = None

\* The thief opens with a nil turn: your move.
Handover ==
    /\ MayPlay /\ role = Cop /\ ~driver.handed
    /\ SubmitTurn([game |-> driver.game, step |-> 0, nil |-> TRUE, barrier |-> None,
                   claim |-> None, win |-> FALSE],
                  [driver EXCEPT !.handed = TRUE])
    /\ UNCHANGED <<role, declares, begun>>

\* The thief moves, and may say so when it has survived.
ThiefTurn ==
    /\ MayPlay /\ role = Cop /\ driver.handed /\ driver.unheard = None
    /\ driver.step < MaxStep
    /\ \E c \in LegalMoves(driver.pos, driver.walls), win \in BOOLEAN :
         LET step == driver.step + 1
             over == step >= SurvivalThreshold
         IN  /\ win => over
             /\ SubmitTurn([game |-> driver.game, step |-> step, nil |-> FALSE,
                            barrier |-> None, claim |-> None, win |-> win],
                           [driver EXCEPT !.step = step, !.pos = c,
                                          !.over = IF over THEN Survival ELSE None])
    /\ UNCHANGED <<role, declares, begun>>

\* The cop moves and claims its cell, or walls a cell and may claim that.
CopTurn ==
    /\ MayPlay /\ role = Thief /\ driver.unheard = None
    /\ driver.step < MaxStep
    /\ \/ \E c \in LegalMoves(driver.pos, driver.walls) :
            SubmitTurn([game |-> driver.game, step |-> driver.step + 1, nil |-> FALSE,
                        barrier |-> None, claim |-> c, win |-> FALSE],
                       [driver EXCEPT !.step = @ + 1, !.pos = c])
       \/ \E b \in BarrierTargets(driver.pos, driver.walls) \ {driver.pos} :
            \E claim \in {None, b} :
              SubmitTurn([game |-> driver.game, step |-> driver.step + 1, nil |-> FALSE,
                          barrier |-> b, claim |-> claim, win |-> FALSE],
                         [driver EXCEPT !.step = @ + 1, !.walls = @ \cup {b}])
    /\ UNCHANGED <<role, declares, begun>>

\* No answer came: the same turn again.
SendAgain ==
    /\ MayPlay /\ driver.unheard # None
    /\ SubmitTurn(driver.unheard, driver)
    /\ UNCHANGED <<role, declares, begun>>

\* confirm_result, as often as the driver likes; where Unstated it may name no ending.
ConfirmResult ==
    /\ Playing(driver) /\ driver.over # None
    /\ \E ending \in {driver.over} \cup (IF Unstated THEN {None} ELSE {}) :
       \E cell \in {None} \cup (IF ending = Capture THEN {driver.pos} ELSE {}) :
         LET w == WithLoop(peer) IN
         peer' = [w EXCEPT !.session.ended = RecordEnding(@, ending),
                           !.loop = Concede(@, ending, cell)]
    /\ driver' = [driver EXCEPT !.confirmed = TRUE]
    /\ UNCHANGED <<role, declares, begun, losses>>

\* final_audit: the ending their disclosure names is recorded, first word wins.
FinalAudit ==
    /\ Playing(driver) /\ driver.over # None
    /\ peer' = [peer EXCEPT !.session.ended = RecordEnding(@, driver.over)]
    /\ UNCHANGED <<role, declares, driver, begun, losses>>

\* agree_result: our outcome is read off our board and the sub-game is filed.
AgreeResult ==
    /\ Playing(driver) /\ driver.over # None
    /\ LET w    == WithLoop(peer)
           read == [w EXCEPT !.session.caught =
                        @ \/ (w.loop.finished = None /\ BoxedIn(w.session))]
       IN  peer' = Settle(read, Outcome(w))
    /\ UNCHANGED <<role, declares, driver, begun, losses>>

-----------------------------------------------------------------------------
Init ==
    /\ role \in {Cop, Thief}
    /\ declares \in BOOLEAN
    /\ peer = [session  |-> FreshSession(1, GameGroup), loop |-> None,
               recorder |-> [opponent |-> None, series |-> 0, recorded |-> {},
                             filed |-> <<>>]]
    /\ driver = NewSubGame(None, 0, 0)
    /\ begun = 0
    /\ losses = MaxLosses

Next ==
    \/ \E g \in Callers : Hello(g)
    \/ Begin
    \/ \E clash \in BOOLEAN : Declare(clash)
    \/ Handover
    \/ ThiefTurn
    \/ CopTurn
    \/ SendAgain
    \/ ConfirmResult
    \/ FinalAudit
    \/ AgreeResult

Spec == Init /\ [][Next]_vars

=============================================================================
