---------------------------- MODULE ReferenceWire ----------------------------
(***************************************************************************)
(* The reference wire: two drivers that push turns into each other's       *)
(* inbox and get nothing back but an acknowledgement                       *)
(* (runtime/reference_driver.py, reference_inbox.py,                       *)
(* reference_handshake.py, reference_disclosure.py, session_terminal.py,   *)
(* mcp/reference_v3_server.py).  The thief opens every round; a claim of   *)
(* the cop is answered on the thief's next turn, or on a terminal step.    *)
(*                                                                         *)
(* A driver yields only in a push and in a wait, so each action runs from  *)
(* one of these to the next.  The receiving handler only enqueues, hence a *)
(* push is one step: it arrives, or raises, or arrives and still raises.   *)
(***************************************************************************)
EXTENDS Board, Sequences

CONSTANTS CopStart, ThiefStart,
          SurvivalThreshold,
          MaxMoves,     \* movement_and_barriers.max_moves
          None,
          CopMayStop,   \* may the cop be of a dialect that ends at the ceiling unprompted?
          MaxFaults,    \* bound: calls that raise, deadlines that run out on a live peer
          MaxCopies     \* bound: turns delivered a second time

Cop   == "cop"
Thief == "thief"
Peers == {Cop, Thief}
Other(p) == IF p = Cop THEN Thief ELSE Cop

Capture       == "capture"
Survival      == "survival"
TechnicalLoss == "technical_loss"
Outcomes == {Capture, Survival, TechnicalLoss}

ASSUME ReferenceAssumption ==
    /\ CopStart \in Cells /\ ThiefStart \in Cells
    /\ SurvivalThreshold \in Nat \ {0} /\ MaxMoves \in Nat \ {0}
    /\ CopMayStop \in BOOLEAN
    /\ MaxFaults \in Nat /\ MaxCopies \in Nat
    /\ None \notin Cells \cup Outcomes \cup [cell : Cells, caught : BOOLEAN]

VARIABLES
    peer,     \* [Peers -> a driver with its session, loop and inboxes]
    stops,    \* the cop is of that dialect
    faults,   \* how many more may happen
    copies

vars == <<peer, stops, faults, copies>>

StartPc(p) == IF p = Thief THEN "act" ELSE "wait"

NewDriver(p) ==
    [pc |-> "push", step |-> 1,
     agreements |-> 0, turns |-> <<>>, audits |-> <<>>,
     pos |-> IF p = Cop THEN CopStart ELSE ThiefStart, walls |-> {}, sealed |-> <<>>,
     held |-> {}, caught |-> FALSE, ended |-> None,
     finished |-> None, claimed |-> None, walled |-> None,
     owed |-> None, terminal |-> FALSE, idle |-> FALSE, outcome |-> None, last |-> None]

\* A push that raises goes through host_and_play as a traceback: "crashed".
Gone(p) == peer[p].pc \in {"done", "crashed"}

\* state.step counts the turns of ours that ended.
SurvivalReached(w) == Len(w.sealed) >= SurvivalThreshold

BoxedIn(p, w) == p = Thief /\ ~HasEscape(w.pos, w.walls)

Or(ending, otherwise) == IF ending # None THEN ending ELSE otherwise

-----------------------------------------------------------------------------
(* The inbox. *)

\* Mutant: a turn of an earlier step discharges the wait.
FoundStale(w) == {i \in DOMAIN w.turns : w.turns[i].step <= w.step}

\* take_turn_at: the first turn of this step, the later ones kept, older dropped.
Found(w) == {i \in DOMAIN w.turns : w.turns[i].step = w.step}

FirstFound(w) == CHOOSE i \in Found(w) : \A j \in Found(w) : i <= j

Kept(w) ==
    LET left   == {i \in DOMAIN w.turns : i # FirstFound(w) /\ w.turns[i].step >= w.step}
        Nth(k) == CHOOSE i \in left : Cardinality({j \in left : j <= i}) = k
    IN  [k \in 1 .. Cardinality(left) |-> w.turns[Nth(k)]]

-----------------------------------------------------------------------------
(* Playing. *)

\* Mutant: the cop settles at the ceiling without waiting for the terminal step.
WrapUpImpatient(p, w) ==
    [w EXCEPT !.pc = IF p = Thief /\ ~w.terminal THEN "close" ELSE "submit", !.step = @ + 1,
              !.outcome = IF p = Thief /\ ~w.terminal THEN @ ELSE Or(w.finished, Survival)]

\* wrap_up: the thief owes a terminal step unless it sent one; the cop waits for
\* it while a claim of its own may still be conceded.
WrapUp(p, w) ==
    LET pc == CASE w.terminal -> "submit"
                [] ~w.terminal /\ p = Thief -> "close"
                [] OTHER -> IF w.finished # None \/ w.claimed = None THEN "submit"
                                                                     ELSE "closing"
    IN  [w EXCEPT !.pc = pc, !.step = @ + 1,
                  !.outcome = IF pc = "submit" THEN Or(w.finished, Survival) ELSE @]

\* The loop over rounds after play_round returned False.
NextRound(p, w) ==
    IF SurvivalReached(w) \/ w.step = MaxMoves THEN WrapUp(p, w)
    ELSE [w EXCEPT !.pc = StartPc(p), !.step = @ + 1]

\* TurnLoop.concede, for a concession that names its cell.
ReadConcession(w, m) ==
    IF m.response # None /\ m.response.caught /\ w.claimed = m.response.cell
      THEN [w EXCEPT !.finished = Capture] ELSE w

\* wall_capture: a thief watches a wall built on its own cell, and is caught by it
\* if its own move leaves it there.
Entering(p, w, wall) == IF p = Thief /\ wall = w.pos THEN wall ELSE None
Leaving(w, wall)     == wall # None /\ wall = w.pos

\* Mutant: a declared wall is not put on our board.
AbsorbNoWall(p, w, m) ==
    LET hit == m.claim # None /\ m.claim = w.pos
    IN  [w EXCEPT
           !.held = @ \cup {m.step},
           !.caught = @ \/ hit,
           !.finished = IF m.win THEN Survival ELSE @,
           !.owed = IF m.claim = None THEN None ELSE [cell |-> m.claim, caught |-> hit]]

\* TurnLoop.absorb: the commitment, the wall, the claim, rules 46 and 47, and a
\* claim of survival.  The answer to the claim is what we owe.
Absorb(p, w, m) ==
    LET told  == [w EXCEPT !.held = @ \cup {m.step},
                           !.walls = @ \cup (IF m.barrier = None THEN {} ELSE {m.barrier})]
        hit   == m.claim # None /\ m.claim = w.pos
        boxed == BoxedIn(p, told)
    IN  [told EXCEPT
           !.caught = @ \/ hit \/ boxed,
           !.walled = Entering(p, w, m.barrier),
           !.finished = CASE m.win -> Survival
                          [] ~m.win /\ boxed -> Capture
                          [] OTHER -> @,
           !.owed = IF m.claim = None THEN None ELSE [cell |-> m.claim, caught |-> hit]]

Decisions(p, w) ==
         {[aim |-> c, barrier |-> None] : c \in LegalMoves(w.pos, w.walls)}
    \cup {[aim |-> w.pos, barrier |-> b]
             : b \in IF p = Cop THEN BarrierTargets(w.pos, w.walls) \ {w.pos} ELSE {}}

\* The cell a cop's decision claims: the one it walls, or the one it lands on.
ClaimOf(p, w, d) ==
    CASE p = Thief -> None
      [] p = Cop /\ d.barrier # None -> d.barrier
      [] OTHER -> SettleMove(w.pos, d.aim, w.walls)

ClaimsSurvival(p, w) == p = Thief /\ SurvivalReached(w) /\ ~BoxedIn(p, w)

\* TurnLoop.take_turn: seal, apply, judge rules 46 and 47, close the round.
TakeTurn(p, w, d) ==
    LET claim == ClaimOf(p, w, d)
        moved == [w EXCEPT !.pos = SettleMove(@, d.aim, w.walls),
                           !.walls = @ \cup (IF d.barrier = None THEN {} ELSE {d.barrier}),
                           !.sealed = Append(@, w.step),
                           !.claimed = Or(claim, @)]
        lost  == Leaving(moved, w.walled) \/ BoxedIn(p, moved)
    IN  [moved EXCEPT !.caught = @ \/ lost,
                      !.finished = CASE lost -> Capture
                                     [] ~lost /\ ClaimsSurvival(p, w) -> Survival
                                     [] OTHER -> @,
                      !.walled = None]

TurnOf(p, w, d) ==
    [step |-> w.step, barrier |-> d.barrier, claim |-> ClaimOf(p, w, d),
     response |-> w.owed, win |-> ClaimsSurvival(p, w)]

\* build_terminal: a sealed STAY that answers the last claim, and claims survival
\* unless we were caught.
TerminalOf(p, w) ==
    [step |-> w.step, barrier |-> None, claim |-> None, response |-> w.owed,
     win |-> p = Thief /\ SurvivalReached(w) /\ ~w.caught /\ ~BoxedIn(p, w)]

-----------------------------------------------------------------------------
(* One call of receive_turn, submit_audit or negotiate on the other peer.  *)
(* sender is the driver after the call, arrival the other's inbox.         *)

Delivered(p, sender, arrival) ==
    /\ ~Gone(Other(p))
    /\ peer' = [peer EXCEPT ![p] = sender, ![Other(p)] = arrival]
    /\ UNCHANGED faults

\* The call raises.  To a peer that has gone it always does.
Raised(p, sender, arrival) ==
    \/ /\ Gone(Other(p))
       /\ peer' = [peer EXCEPT ![p] = sender]
       /\ UNCHANGED faults
    \/ /\ ~Gone(Other(p)) /\ faults > 0
       /\ faults' = faults - 1
       /\ \E landed \in {arrival, peer[Other(p)]} :
            peer' = [peer EXCEPT ![p] = sender, ![Other(p)] = landed]

InTurns(q, m) == [peer[q] EXCEPT !.turns = Append(@, m)]

\* push_turn: a turn whose call raises takes the driver down.
PushTurn(p, m, sender) ==
    \/ Delivered(p, [sender EXCEPT !.last = m], InTurns(Other(p), m))
    \/ Raised(p, [sender EXCEPT !.pc = "crashed"], InTurns(Other(p), m))

\* push_agreement retries until it is delivered or its deadline has passed.
PushAgreement(p) ==
    LET w == [peer[p] EXCEPT !.pc = "agree"]
        arrival == [peer[Other(p)] EXCEPT !.agreements = @ + 1]
    IN  /\ peer[p].pc = "push"
        /\ Delivered(p, w, arrival) \/ Raised(p, w, arrival)
        /\ UNCHANGED <<stops, copies>>

TakeAgreement(p) ==
    /\ peer[p].pc = "agree" /\ peer[p].agreements > 0
    /\ peer' = [peer EXCEPT ![p].pc = StartPc(p), ![p].agreements = @ - 1]
    /\ UNCHANGED <<stops, faults, copies>>

\* act, and what play_round makes of it.
Act(p) ==
    LET w == peer[p] IN
    /\ w.pc = "act"
    /\ \E d \in Decisions(p, w) :
         LET acted == [TakeTurn(p, w, d) EXCEPT !.owed = None]
             after == CASE acted.finished # None -> WrapUp(p, acted)
                        [] acted.finished = None /\ p = Thief -> [acted EXCEPT !.pc = "wait"]
                        [] OTHER -> NextRound(p, acted)
         IN  PushTurn(p, TurnOf(p, w, d), after)
    /\ UNCHANGED <<stops, copies>>

\* A cop of the dialect that ends at the ceiling: it reads the thief's last turn,
\* sends none of its own and discloses its chain.
StopsHere(p, w) == p = Cop /\ stops /\ w.step = SurvivalThreshold

\* receive: the awaited turn is taken, absorbed, and its concession read.
Receive(p) ==
    LET w == peer[p] IN
    /\ w.pc = "wait" /\ Found(w) # {}
    /\ LET m     == w.turns[FirstFound(w)]
           taken == [w EXCEPT !.turns = Kept(w), !.idle = FALSE]
           heard == ReadConcession(Absorb(p, taken, m), m)
           after == CASE p = Cop /\ heard.finished # None -> WrapUp(p, heard)
                      [] p = Cop /\ heard.finished = None /\ StopsHere(p, heard) ->
                           [heard EXCEPT !.pc = "submit", !.outcome = Survival]
                      [] p = Cop /\ heard.finished = None /\ ~StopsHere(p, heard) ->
                           [heard EXCEPT !.pc = "act"]
                      [] p = Thief /\ heard.caught ->
                           [heard EXCEPT !.pc = "close", !.step = @ + 1]
                      [] p = Thief /\ ~heard.caught /\ heard.finished # None ->
                           WrapUp(p, heard)
                      [] OTHER -> NextRound(p, heard)
       IN  peer' = [peer EXCEPT ![p] = after]
    /\ UNCHANGED <<stops, faults, copies>>

\* finish: the thief's terminal step.
Close(p) ==
    LET w == peer[p]
        ending == IF w.caught THEN Capture ELSE w.finished
    IN  /\ w.pc = "close"
        /\ PushTurn(p, TerminalOf(p, w),
                    [w EXCEPT !.pc = "submit", !.sealed = Append(@, w.step), !.owed = None,
                              !.terminal = TRUE, !.finished = ending,
                              !.outcome = Or(ending, Survival)])
        /\ UNCHANGED <<stops, copies>>

\* wrap_up of a cop: only the concession is read off the terminal step.
ReadTerminal(p) ==
    LET w == peer[p] IN
    /\ w.pc = "closing" /\ Found(w) # {}
    /\ LET heard == ReadConcession([w EXCEPT !.turns = Kept(w)], w.turns[FirstFound(w)])
       IN  peer' = [peer EXCEPT ![p] = [heard EXCEPT !.pc = "submit",
                                                     !.outcome = Or(heard.finished, Survival)]]
    /\ UNCHANGED <<stops, faults, copies>>

-----------------------------------------------------------------------------
(* Waits that end without the awaited turn. *)

Empty(w) == Found(w) = {} /\ w.audits = <<>>

\* Their audit in place of a turn: OpponentFinishedError.
AuditInstead(p) ==
    LET w == peer[p] IN
    /\ w.pc \in {"wait", "closing"} /\ Found(w) = {} /\ w.audits # <<>>
    /\ peer' = [peer EXCEPT ![p] =
                  IF w.pc = "wait"
                    THEN [w EXCEPT !.pc = "submit", !.ended = Or(@, Head(w.audits)),
                                   !.outcome = Or(w.ended, Head(w.audits))]
                    ELSE [w EXCEPT !.pc = "submit", !.outcome = Survival]]
    /\ UNCHANGED <<stops, faults, copies>>

\* q has nothing more to send that p, waiting as it does, is waiting for.
Silent(q, p) ==
    \/ Gone(q)
    \/ peer[q].pc = "audits"
    \/ peer[p].pc = "agree" /\ peer[q].pc # "push"
    \/ StopsHere(q, peer[q]) /\ peer[q].pc = "submit" /\ peer[p].pc = "wait"

\* A deadline runs out while nothing is wrong only if nothing more would come.
Patience(p) ==
    \/ Silent(Other(p), p) /\ UNCHANGED faults
    \/ ~Silent(Other(p), p) /\ faults > 0 /\ faults' = faults - 1

\* await_agreement gives up and plays unverified.  The watchdog has been running
\* since the driver was built and is as patient as this wait.
NoAgreement(p) ==
    /\ peer[p].pc = "agree" /\ peer[p].agreements = 0
    /\ Patience(p)
    /\ peer' = [peer EXCEPT ![p].pc = StartPc(p), ![p].idle = TRUE]
    /\ UNCHANGED <<stops, copies>>

Stalled(w) == [w EXCEPT !.pc = "submit", !.outcome = Or(w.finished, TechnicalLoss)]

\* Mutant: at the ceiling an expired deadline is a fault like any other.
DeadlineAlways(p) ==
    /\ peer[p].pc = "wait" /\ Empty(peer[p])
    /\ Patience(p)
    /\ peer' = [peer EXCEPT ![p] = Stalled(peer[p])]
    /\ UNCHANGED <<stops, copies>>

\* The turn deadline.  At the ceiling the thief takes it that nothing was left to say.
Deadline(p) ==
    LET w == peer[p] IN
    /\ w.pc = "wait" /\ Empty(w)
    /\ Patience(p)
    /\ peer' = [peer EXCEPT ![p] =
                  IF p = Thief /\ SurvivalReached(w) THEN WrapUp(p, w) ELSE Stalled(w)]
    /\ UNCHANGED <<stops, copies>>

\* The watchdog, checked before the deadline at every poll.
WatchdogTrips(p) ==
    /\ peer[p].pc = "wait" /\ Empty(peer[p]) /\ peer[p].idle
    /\ peer' = [peer EXCEPT ![p] = Stalled(peer[p])]
    /\ UNCHANGED <<stops, faults, copies>>

NoTerminal(p) ==
    /\ peer[p].pc = "closing" /\ Empty(peer[p])
    /\ Patience(p)
    /\ peer' = [peer EXCEPT ![p].pc = "submit", ![p].outcome = Survival]
    /\ UNCHANGED <<stops, copies>>

-----------------------------------------------------------------------------
(* exchange_chains *)

SubmitAudit(p) ==
    LET w == [peer[p] EXCEPT !.pc = "audits"]
        arrival == [peer[Other(p)] EXCEPT !.audits = Append(@, peer[p].outcome)]
    IN  /\ peer[p].pc = "submit"
        /\ Delivered(p, w, arrival) \/ Raised(p, w, arrival)
        /\ UNCHANGED <<stops, copies>>

\* The inbox is emptied, agreements excepted, whether or not their audit came.
Cleared(w) == [w EXCEPT !.pc = "done", !.turns = <<>>, !.audits = <<>>]

TakeAudit(p) ==
    /\ peer[p].pc = "audits" /\ peer[p].audits # <<>>
    /\ peer' = [peer EXCEPT ![p] = Cleared(@)]
    /\ UNCHANGED <<stops, faults, copies>>

\* Mutant: the wait for their audit has no deadline.
NoAuditWaits(p) ==
    /\ peer[p].pc = "audits" /\ peer[p].audits = <<>>
    /\ UNCHANGED vars

NoAudit(p) ==
    /\ peer[p].pc = "audits" /\ peer[p].audits = <<>>
    /\ Patience(p)
    /\ peer' = [peer EXCEPT ![p] = Cleared(@)]
    /\ UNCHANGED <<stops, copies>>

\* A retrying peer: the turn p sent last arrives again.
Copied(p) ==
    /\ copies > 0 /\ peer[p].last # None /\ ~Gone(Other(p))
    /\ peer' = [peer EXCEPT ![Other(p)] = InTurns(Other(p), peer[p].last)]
    /\ copies' = copies - 1
    /\ UNCHANGED <<stops, faults>>

-----------------------------------------------------------------------------
Init ==
    /\ peer = [p \in Peers |-> NewDriver(p)]
    /\ stops \in {FALSE, CopMayStop}
    /\ faults = MaxFaults
    /\ copies = MaxCopies

Drive(p) ==
    \/ PushAgreement(p) \/ TakeAgreement(p) \/ NoAgreement(p)
    \/ Act(p) \/ Receive(p) \/ AuditInstead(p) \/ Deadline(p) \/ WatchdogTrips(p)
    \/ Close(p) \/ ReadTerminal(p) \/ NoTerminal(p)
    \/ SubmitAudit(p) \/ TakeAudit(p) \/ NoAudit(p)

Next == \E p \in Peers : Drive(p) \/ Copied(p)

Spec == Init /\ [][Next]_vars

\* A driver that can go on does: its waits are polls with a deadline of their own.
FairSpec == Spec /\ \A p \in Peers : WF_vars(Drive(p))

=============================================================================
