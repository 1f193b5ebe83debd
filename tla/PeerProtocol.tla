---------------------------- MODULE PeerProtocol ----------------------------
(***************************************************************************)
(* One sub-game on the native wire (runtime/peer.py, runtime/peer_session  *)
(* .py, mcp/handlers.py): two processes, no referee.  Each runs a client   *)
(* (the runner, PeerRunner) and a server (the handlers, PeerHandlers) on   *)
(* one asyncio loop over one shared PeerSession.  A step of this module is *)
(* the code between two awaits: the runner's next segment, or one handler  *)
(* answering one request.                                                  *)
(*                                                                         *)
(* pc[p] names the await the runner is parked at.  "commit", "reveal",     *)
(* "scent", "final" and "abort" are calls it has sent and not heard back   *)
(* from; "awaitCommit" and "awaitReveal" are the two polling loops.        *)
(*                                                                         *)
(* The network: a call may fail although its request is still on the way,  *)
(* in which case the request is served late or never.  Such faults, and    *)
(* clocks that run out on a live opponent, are drawn from a budget.        *)
(***************************************************************************)
EXTENDS Board

CONSTANTS CopStart, ThiefStart,  \* board_and_agents.cop_start, thief_start
          MaxMoves,              \* movement_and_barriers.max_moves, 35 there
          SurvivalThreshold,     \* movement_and_barriers.survival_threshold, 35
          MaxFaults,             \* bound: calls that fail and clocks that expire
                                 \* while the opponent is alive
          None                   \* Python's None

Cop   == "cop"
Thief == "thief"
Peers == {Cop, Thief}
Other(p) == IF p = Cop THEN Thief ELSE Cop

Capture       == "capture"
Survival      == "survival"
TechnicalLoss == "technical_loss"
Outcomes      == {Capture, Survival, TechnicalLoss}

Turns == 1 .. MaxMoves

\* Phase; the runner and handlers assign it, and never ask the state machine.
Phases == {"idle", "negotiating", "declared", "await_commit", "await_ack",
           "await_reveal", "applied", "finalising", "audited", "done", "aborted"}

(***************************************************************************)
(* A pending step: the decision and the cell sealed with it as `state`.    *)
(* Every step is sealed once, with a fresh nonce, so a commitment and a    *)
(* disclosed record are abstracted to the step they seal.                  *)
(***************************************************************************)
PendingSteps == [aim : Cells, barrier : Cells \cup {None}, sealed : Cells]

StepRequests   == [from : Peers, kind : {"commit", "scent"}, step : Turns]
RevealRequests == [from : Peers, kind : {"reveal"}, step : Turns,
                   barrier : Cells \cup {None}, claim : Cells \cup {None}]
FinalRequests  == [from : Peers, kind : {"final"}, records : SUBSET Turns, outcome : Outcomes]
AbortRequests  == [from : Peers, kind : {"abort"}]

Requests == StepRequests \cup RevealRequests \cup FinalRequests \cup AbortRequests

Replies == [caught : BOOLEAN, records : SUBSET Turns]
Ack     == [caught |-> FALSE, records |-> {}]

Audits == [withheld : SUBSET Turns, unsolicited : SUBSET Turns]

ASSUME ProtocolAssumption ==
    /\ CopStart \in Cells
    /\ ThiefStart \in Cells
    /\ MaxMoves \in Nat \ {0}
    /\ SurvivalThreshold \in Nat \ {0}
    /\ MaxFaults \in Nat
    /\ None \notin Cells \cup PendingSteps \cup Replies \cup Audits \cup Outcomes

VARIABLES
    \* the runner: where it is, which step it is playing, how it ended
    pc, turn, capturedOpponent, outcome, verdict,
    \* the session's own world
    pos, barriers, pending, records,
    \* what the session holds of the opponent
    held, seen, iAmCaught, oppFinished, lastAudit,
    \* StateMachine.phase and PeerHandlers.aborted_reason
    phase, abortNoted,
    \* the network
    requests, reply, faults

runner   == <<turn, capturedOpponent, outcome, verdict>>
world    == <<pos, barriers, pending, records>>
opponent == <<held, seen, iAmCaught, oppFinished, lastAudit>>
flags    == <<phase, abortNoted>>
vars     == <<pc, runner, world, opponent, flags, requests, reply, faults>>

Calls  == {"commit", "reveal", "scent", "final", "abort"}
Awaits == {"awaitCommit", "awaitReveal"}
PCs    == {"start", "closing", "done"} \cup Calls \cup Awaits

TypeOK ==
    /\ pc \in [Peers -> PCs]
    /\ turn \in [Peers -> 0 .. MaxMoves]
    /\ capturedOpponent \in [Peers -> BOOLEAN]
    /\ outcome \in [Peers -> Outcomes \cup {None}]
    /\ verdict \in [Peers -> Audits \cup {None}]
    /\ pos \in [Peers -> Cells]
    /\ barriers \in [Peers -> SUBSET Cells]
    /\ pending \in [Peers -> PendingSteps \cup {None}]
    /\ records \in [Peers -> SUBSET Turns]
    /\ held \in [Peers -> SUBSET Turns]
    /\ seen \in [Peers -> Nat]
    /\ iAmCaught \in [Peers -> BOOLEAN]
    /\ oppFinished \in [Peers -> Outcomes \cup {None}]
    /\ lastAudit \in [Peers -> Audits \cup {None}]
    /\ phase \in [Peers -> Phases]
    /\ abortNoted \in [Peers -> BOOLEAN]
    /\ requests \subseteq Requests
    /\ reply \in [Peers -> Replies \cup {None}]
    /\ faults \in 0 .. MaxFaults

Init ==
    /\ pc = [p \in Peers |-> "start"]
    /\ turn = [p \in Peers |-> 0]
    /\ capturedOpponent = [p \in Peers |-> FALSE]
    /\ outcome = [p \in Peers |-> None]
    /\ verdict = [p \in Peers |-> None]
    /\ pos = [p \in Peers |-> IF p = Cop THEN CopStart ELSE ThiefStart]
    /\ barriers = [p \in Peers |-> {}]
    /\ pending = [p \in Peers |-> None]
    /\ records = [p \in Peers |-> {}]
    /\ held = [p \in Peers |-> {}]
    /\ seen = [p \in Peers |-> 0]
    /\ iAmCaught = [p \in Peers |-> FALSE]
    /\ oppFinished = [p \in Peers |-> None]
    /\ lastAudit = [p \in Peers |-> None]
    /\ phase = [p \in Peers |-> "idle"]
    /\ abortNoted = [p \in Peers |-> FALSE]
    /\ requests = {}
    /\ reply = [p \in Peers |-> None]
    /\ faults = MaxFaults

-----------------------------------------------------------------------------
(* The session's helpers. *)

\* What a brain may decide: any legal move, or for the cop a barrier on a
\* legal target other than its own cell, bought by standing still.  `sealed`
\* is settled_position at sealing time.
Decisions(p) ==
         {[aim |-> c, barrier |-> None, sealed |-> SettleMove(pos[p], c, barriers[p])]
             : c \in LegalMoves(pos[p], barriers[p])}
    \cup {[aim |-> pos[p], barrier |-> b, sealed |-> pos[p]]
             : b \in IF p = Cop THEN BarrierTargets(pos[p], barriers[p]) \ {pos[p]} ELSE {}}

\* pending_cell, on a board with the given walls.
PendingCell(p, walls) ==
    IF pending[p].barrier # None
      THEN pending[p].barrier
      ELSE SettleMove(pos[p], pending[p].aim, walls)

CaptureClaim(p) == IF p = Cop THEN PendingCell(p, barriers[p]) ELSE None

\* Mutant: the claim is compared with the cell before the move.
AnsweringCellPreMove(p, walls) == pos[p]

\* The cell answer_capture_claim compares with the claim.
AnsweringCell(p, walls) == IF pending[p] = None THEN pos[p] ELSE PendingCell(p, walls)

BoxedIn(p) == p = Thief /\ ~HasEscape(pos[p], barriers[p])

Captured(p) == capturedOpponent[p] \/ iAmCaught[p] \/ BoxedIn(p)

\* Mutant: the step in flight is not disclosed.
DisclosedAppliedOnly(p) == records[p]

\* The step a peer has sealed and not applied is disclosed with the applied ones.
Disclosed(p) == records[p] \cup (IF pending[p] = None THEN {} ELSE {turn[p]})

\* audit_against_commitments on an honestly sealed chain.
AuditOf(commitments, chain) ==
    [withheld    |-> commitments \ chain,
     unsolicited |-> {s \in chain \ commitments : \E t \in commitments : s < t}]

\* Mutant: whatever they state, and whatever they stated before, is survival.
RecordEndingUnstated(recorded, stated) == Survival

\* record_ending: the first stated ending is kept.
RecordEnding(recorded, stated) == IF recorded = None THEN stated ELSE recorded

-----------------------------------------------------------------------------
(* The runner, one segment per action. *)

\* A call leaves: the runner parks on it until a reply or a failure.
Call(p, m) ==
    /\ pc' = [pc EXCEPT ![p] = m.kind]
    /\ requests' = requests \cup {m}
    /\ reply' = [reply EXCEPT ![p] = None]

Returned(p, kind) == pc[p] = kind /\ reply[p] # None

Gone(p) == pc[p] = "done"

\* prepare_step, then the commit call: decide, seal, push.
BeginStep(p, s) ==
    /\ turn' = [turn EXCEPT ![p] = s]
    /\ \E d \in Decisions(p) : pending' = [pending EXCEPT ![p] = d]
    /\ Call(p, [from |-> p, kind |-> "commit", step |-> s])
    /\ UNCHANGED <<pos, barriers, records>>

StartSubGame(p) ==
    /\ pc[p] = "start"
    /\ BeginStep(p, 1)
    /\ UNCHANGED <<capturedOpponent, outcome, verdict, opponent, flags, faults>>

CommitAnswered(p) ==
    /\ Returned(p, "commit")
    /\ pc' = [pc EXCEPT ![p] = "awaitCommit"]
    /\ UNCHANGED <<runner, world, opponent, flags, requests, reply, faults>>

\* Mutant: the reveal does not wait for the opponent's commitment.
SendRevealUnbound(p) ==
    /\ pc[p] = "awaitCommit"
    /\ Call(p, [from |-> p, kind |-> "reveal", step |-> turn[p],
                barrier |-> pending[p].barrier, claim |-> CaptureClaim(p)])
    /\ UNCHANGED <<runner, world, opponent, flags, faults>>

\* Mutant: the wall is not declared with the reveal.
SendRevealSilent(p) ==
    /\ pc[p] = "awaitCommit"
    /\ turn[p] \in held[p]
    /\ Call(p, [from |-> p, kind |-> "reveal", step |-> turn[p],
                barrier |-> None, claim |-> CaptureClaim(p)])
    /\ UNCHANGED <<runner, world, opponent, flags, faults>>

\* _await_commit's predicate holds: disclose hint, barrier and claim.
SendReveal(p) ==
    /\ pc[p] = "awaitCommit"
    /\ turn[p] \in held[p]
    /\ Call(p, [from |-> p, kind |-> "reveal", step |-> turn[p],
                barrier |-> pending[p].barrier, claim |-> CaptureClaim(p)])
    /\ UNCHANGED <<runner, world, opponent, flags, faults>>

RevealAnswered(p) ==
    /\ Returned(p, "reveal")
    /\ capturedOpponent' = [capturedOpponent EXCEPT ![p] = reply[p].caught]
    /\ pc' = [pc EXCEPT ![p] = "awaitReveal"]
    /\ UNCHANGED <<turn, outcome, verdict, world, opponent, flags, requests, reply, faults>>

\* Apply the pending step, ask for the trail.
ApplyStep(p) ==
    /\ records' = [records EXCEPT ![p] = @ \cup {turn[p]}]
    /\ IF pending[p].barrier # None
         THEN /\ barriers' = [barriers EXCEPT ![p] = @ \cup {pending[p].barrier}]
              /\ UNCHANGED pos
         ELSE /\ pos' = [pos EXCEPT ![p] = SettleMove(@, pending[p].aim, barriers[p])]
              /\ UNCHANGED barriers
    /\ pending' = [pending EXCEPT ![p] = None]
    /\ Call(p, [from |-> p, kind |-> "scent", step |-> turn[p]])
    /\ UNCHANGED <<runner, opponent, flags, faults>>

\* Mutant: the step is applied as soon as our own reveal is answered.
ApplyOwnStepEarly(p) == pc[p] = "awaitReveal" /\ ApplyStep(p)

\* Mutant: the wait for the reveal is off by one.
ApplyOwnStepOffByOne(p) == pc[p] = "awaitReveal" /\ seen[p] >= turn[p] - 1 /\ ApplyStep(p)

\* _await_reveal's predicate holds.
ApplyOwnStep(p) == pc[p] = "awaitReveal" /\ seen[p] >= turn[p] /\ ApplyStep(p)

\* The loop is left with outcome o: our chain goes out with it.
Conclude(p, o) ==
    /\ outcome' = [outcome EXCEPT ![p] = o]
    /\ phase' = [phase EXCEPT ![p] = "finalising"]
    /\ Call(p, [from |-> p, kind |-> "final", records |-> Disclosed(p), outcome |-> o])
    /\ UNCHANGED <<turn, capturedOpponent, verdict, world, opponent, abortNoted>>

\* Mutant: the horizon is passed before it is noticed.
OutOfTimeLate(p) == turn[p] > SurvivalThreshold

OutOfTime(p) == turn[p] >= SurvivalThreshold \/ turn[p] = MaxMoves

NextStep(p) ==
    /\ Returned(p, "scent")
    /\ ~Captured(p)
    /\ ~OutOfTime(p)
    /\ BeginStep(p, turn[p] + 1)
    /\ UNCHANGED <<capturedOpponent, outcome, verdict, opponent, flags, faults>>

EndByCapture(p) ==
    /\ Returned(p, "scent")
    /\ Captured(p)
    /\ Conclude(p, Capture)
    /\ UNCHANGED faults

EndBySurvival(p) ==
    /\ Returned(p, "scent")
    /\ ~Captured(p)
    /\ OutOfTime(p)
    /\ Conclude(p, Survival)
    /\ UNCHANGED faults

Ready(p) == \/ pc[p] = "awaitCommit" /\ turn[p] \in held[p]
            \/ pc[p] = "awaitReveal" /\ seen[p] >= turn[p]

\* OpponentFinishedError: the awaited message is not coming, their ending is ours.
OpponentEnded(p) ==
    /\ pc[p] \in Awaits
    /\ ~Ready(p)
    /\ oppFinished[p] # None
    /\ Conclude(p, oppFinished[p])
    /\ UNCHANGED faults

Abort(p) ==
    /\ outcome' = [outcome EXCEPT ![p] = TechnicalLoss]
    /\ Call(p, [from |-> p, kind |-> "abort"])
    /\ UNCHANGED <<turn, capturedOpponent, verdict, world, opponent, flags>>

\* A failure is free once the opponent's process is gone, else it costs a fault.
Fault(p) ==
    \/ Gone(Other(p)) /\ UNCHANGED faults
    \/ ~Gone(Other(p)) /\ faults > 0 /\ faults' = faults - 1

\* Mutant: an expired clock is logged and the wait goes on.
AwaitExpiresLogged(p) ==
    /\ pc[p] \in Awaits
    /\ ~Ready(p)
    /\ oppFinished[p] = None
    /\ UNCHANGED vars

\* The turn deadline or the watchdog runs out in a polling loop.
AwaitExpires(p) ==
    /\ pc[p] \in Awaits
    /\ ~Ready(p)
    /\ oppFinished[p] = None
    /\ Abort(p)
    /\ Fault(p)

\* A call raises in mid-step: an ending already announced is believed.
CallFails(p) ==
    /\ pc[p] \in {"commit", "reveal", "scent"}
    /\ IF oppFinished[p] # None THEN Conclude(p, oppFinished[p]) ELSE Abort(p)
    /\ Fault(p)

\* _exchange_chains: audit what they answered with, or keep the last audit.
FinalAnswered(p) ==
    /\ Returned(p, "final")
    /\ lastAudit' = [lastAudit EXCEPT ![p] = AuditOf(held[p], reply[p].records)]
    /\ verdict' = [verdict EXCEPT ![p] = lastAudit'[p]]
    /\ pc' = [pc EXCEPT ![p] = "closing"]
    /\ UNCHANGED <<turn, capturedOpponent, outcome, world, held, seen, iAmCaught, oppFinished,
                   flags, requests, reply, faults>>

FinalFails(p) ==
    /\ pc[p] = "final"
    /\ verdict' = [verdict EXCEPT ![p] = lastAudit[p]]
    /\ pc' = [pc EXCEPT ![p] = "closing"]
    /\ Fault(p)
    /\ UNCHANGED <<turn, capturedOpponent, outcome, world, opponent, flags, requests, reply>>

AbortAnswered(p) ==
    /\ Returned(p, "abort")
    /\ pc' = [pc EXCEPT ![p] = "closing"]
    /\ UNCHANGED <<runner, world, opponent, flags, requests, reply, faults>>

AbortFails(p) ==
    /\ pc[p] = "abort"
    /\ pc' = [pc EXCEPT ![p] = "closing"]
    /\ Fault(p)
    /\ UNCHANGED <<runner, world, opponent, flags, requests, reply>>

\* host_and_play closes the client, then cancels the server.
Exit(p) ==
    /\ pc[p] = "closing"
    /\ pc' = [pc EXCEPT ![p] = "done"]
    /\ UNCHANGED <<runner, world, opponent, flags, requests, reply, faults>>

-----------------------------------------------------------------------------
(* The handlers: q's server takes request m off the wire and answers it.  A *)
(* caller that has given up on the call does not see the answer.            *)

Serve(q, m, r) ==
    /\ m \in requests
    /\ m.from = Other(q)
    /\ ~Gone(q)
    /\ requests' = requests \ {m}
    /\ reply' = IF pc[m.from] = m.kind THEN [reply EXCEPT ![m.from] = r] ELSE reply
    /\ UNCHANGED <<pc, faults>>

ServeCommit(q, m) ==
    /\ m.kind = "commit"
    /\ Serve(q, m, Ack)
    /\ held' = [held EXCEPT ![q] = @ \cup {m.step}]
    /\ UNCHANGED <<runner, world, seen, iAmCaught, oppFinished, lastAudit, flags>>

\* on_reveal raises on a step it holds no commitment for, and the handler then
\* answers with an error.  Else the barrier becomes fact before the claim is
\* answered.
ServeReveal(q, m) ==
    LET accepted == m.step \in held[q]
        walls    == barriers[q] \cup
                    IF accepted /\ m.barrier # None THEN {m.barrier} ELSE {}
        caught   == accepted /\ m.claim # None /\ m.claim = AnsweringCell(q, walls)
    IN  /\ m.kind = "reveal"
        /\ Serve(q, m, [caught |-> caught, records |-> {}])
        /\ barriers' = [barriers EXCEPT ![q] = walls]
        /\ iAmCaught' = [iAmCaught EXCEPT ![q] = @ \/ caught]
        /\ seen' = [seen EXCEPT ![q] = IF accepted THEN @ + 1 ELSE @]
        /\ UNCHANGED <<runner, pos, pending, records, held, oppFinished, lastAudit, flags>>

ServeScent(q, m) ==
    /\ m.kind = "scent"
    /\ Serve(q, m, Ack)
    /\ UNCHANGED <<runner, world, opponent, flags>>

\* Mutant: the chain is audited, the news that they have stopped is dropped.
ServeFinalUnheard(q, m) ==
    /\ m.kind = "final"
    /\ Serve(q, m, [caught |-> FALSE, records |-> Disclosed(q)])
    /\ lastAudit' = [lastAudit EXCEPT ![q] = AuditOf(held[q], m.records)]
    /\ phase' = [phase EXCEPT ![q] = "finalising"]
    /\ UNCHANGED <<runner, world, held, seen, iAmCaught, oppFinished, abortNoted>>

ServeFinal(q, m) ==
    /\ m.kind = "final"
    /\ Serve(q, m, [caught |-> FALSE, records |-> Disclosed(q)])
    /\ lastAudit' = [lastAudit EXCEPT ![q] =
                        IF m.records = {} THEN @ ELSE AuditOf(held[q], m.records)]
    /\ oppFinished' = [oppFinished EXCEPT ![q] = RecordEnding(@, m.outcome)]
    /\ phase' = [phase EXCEPT ![q] = "finalising"]
    /\ UNCHANGED <<runner, world, held, seen, iAmCaught, abortNoted>>

ServeAbort(q, m) ==
    /\ m.kind = "abort"
    /\ Serve(q, m, Ack)
    /\ abortNoted' = [abortNoted EXCEPT ![q] = TRUE]
    /\ UNCHANGED <<runner, world, opponent, phase>>

Handle(q, m) ==
    \/ ServeCommit(q, m) \/ ServeReveal(q, m) \/ ServeScent(q, m)
    \/ ServeFinal(q, m) \/ ServeAbort(q, m)

-----------------------------------------------------------------------------
\* The segments that need nothing but the event loop.
Proceed(p) ==
    \/ StartSubGame(p) \/ CommitAnswered(p) \/ SendReveal(p) \/ RevealAnswered(p)
    \/ ApplyOwnStep(p) \/ NextStep(p) \/ EndByCapture(p) \/ EndBySurvival(p)
    \/ OpponentEnded(p) \/ FinalAnswered(p) \/ AbortAnswered(p) \/ Exit(p)

GiveUp(p) == AwaitExpires(p) \/ CallFails(p) \/ FinalFails(p) \/ AbortFails(p)

\* Both processes have exited.
Over == \A p \in Peers : Gone(p)
Ended == Over /\ UNCHANGED vars

Next ==
    \/ \E p \in Peers : Proceed(p) \/ GiveUp(p)
    \/ \E q \in Peers, m \in requests : Handle(q, m)
    \/ Ended

Spec == Init /\ [][Next]_vars

(***************************************************************************)
(* The event loop runs a runner whose await is over; a request whose       *)
(* caller still waits is served (TCP delivers it or the call fails); every *)
(* wait on a process that has exited ends (the connection is refused, the  *)
(* clocks run out).  Nothing is assumed of late requests or of faults.     *)
(***************************************************************************)
Fairness == \A p \in Peers :
    /\ WF_vars(Proceed(p))
    /\ WF_vars(Gone(Other(p)) /\ GiveUp(p))
    /\ WF_vars(\E m \in requests : pc[m.from] = m.kind /\ Handle(p, m))

FairSpec == Spec /\ Fairness

=============================================================================
