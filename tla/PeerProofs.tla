----------------------------- MODULE PeerProofs -----------------------------
(***************************************************************************)
(* Proofs about one sub-game on the native wire, for every grid, horizon,  *)
(* quota and number of faults: the state stays well typed, no peer is      *)
(* shown a step before sealing its own, a claim is always answered in the  *)
(* step it was made for, the protocol implements CommitReveal, and what    *)
(* the two peers tell each other holds to the end.                         *)
(***************************************************************************)
EXTENDS PeerProperties, TLAPS

-----------------------------------------------------------------------------
(* The inductive invariant. *)

Playing == {"commit", "awaitCommit", "reveal", "awaitReveal"}
Leaving == {"final", "abort", "closing", "done"}

\* Where the runner is says whether a step is pending.
Stage(p) ==
    /\ pc[p] = "start" => turn[p] = 0
    /\ pc[p] # "start" => turn[p] \in Turns
    /\ pc[p] \in Playing => pending[p] # None
    /\ pc[p] \in {"start", "scent"} => pending[p] = None

\* A peer is at most one step ahead of what it has been shown, never behind,
\* and has caught up whenever it has no step pending.
Abreast(p) ==
    /\ seen[p] <= turn[p]
    /\ turn[p] <= seen[p] + 1
    /\ pending[p] = None => seen[p] = turn[p]

\* The opponent holds no commitment p has not sealed, and holds p's last one
\* once the commit call has been answered.
Committed(p) ==
    /\ \A s \in held[Other(p)] : s <= turn[p]
    /\ pc[p] \in {"awaitCommit", "reveal", "awaitReveal", "scent"} => turn[p] \in held[Other(p)]
    /\ pc[p] = "commit" /\ reply[p] # None => turn[p] \in held[Other(p)]
    /\ \A m \in requests : m.from = p /\ m.kind = "commit" =>
          /\ m.step = turn[p]
          /\ pc[p] \in {"commit"} \cup Leaving
          /\ pc[p] = "commit" => reply[p] = None

\* The opponent has been shown p's last step exactly when the reveal has been
\* served; until then the reveal on the wire is the only one.
Shown(p) ==
    /\ pc[p] = "start" => seen[Other(p)] = 0
    /\ pc[p] \in {"commit", "awaitCommit"} => seen[Other(p)] = turn[p] - 1
    /\ pc[p] = "reveal" => seen[Other(p)] = IF reply[p] = None THEN turn[p] - 1 ELSE turn[p]
    /\ pc[p] \in {"awaitReveal", "scent"} => seen[Other(p)] = turn[p]
    /\ \A m \in requests : m.from = p /\ m.kind = "reveal" =>
          /\ m.step = turn[p]
          /\ seen[Other(p)] = turn[p] - 1
          /\ m.step \in held[p]
          /\ m.step \in held[Other(p)]
          /\ pc[p] \in {"reveal"} \cup Leaving
          /\ \A n \in requests : n.from = p /\ n.kind = "reveal" => n = m

Inv == /\ TypeOK
       /\ \A p \in Peers : Stage(p) /\ Abreast(p) /\ Committed(p) /\ Shown(p)

-----------------------------------------------------------------------------
(* Facts about the operators. *)

LEMMA OtherIsAPeer ==
    /\ \A p \in Peers : Other(p) \in Peers /\ Other(p) # p /\ Other(Other(p)) = p
    /\ \A p, q \in Peers : q # p => q = Other(p)
BY DEF Peers, Other, Cop, Thief

LEMMA NoneIsNoValue ==
    /\ None \notin Cells /\ None \notin PendingSteps /\ None \notin Replies
    /\ None \notin Audits /\ None \notin Outcomes
BY ProtocolAssumption

\* Whatever a brain may decide is a well-formed pending step.
LEMMA DecisionsAreSteps ==
    ASSUME TypeOK, NEW p \in Peers
    PROVE  Decisions(p) \subseteq PendingSteps
<1>1. pos[p] \in Cells
  BY DEF TypeOK
<1>2. LegalMoves(pos[p], barriers[p]) \subseteq Cells
  BY <1>1 DEF LegalMoves, Steps, Passable
<1>3. BarrierTargets(pos[p], barriers[p]) \subseteq Cells
  BY DEF BarrierTargets, Passable
<1>4. \A c \in Cells : SettleMove(pos[p], c, barriers[p]) \in Cells
  BY <1>1 DEF SettleMove
<1>5. QED
  BY <1>1, <1>2, <1>3, <1>4 DEF Decisions, PendingSteps

-----------------------------------------------------------------------------
(* Type correctness. *)

LEMMA CallIsTyped ==
    ASSUME TypeOK, NEW p \in Peers, NEW m \in Requests, m.kind \in Calls, Call(p, m)
    PROVE  /\ pc' \in [Peers -> PCs]
           /\ requests' \subseteq Requests
           /\ reply' \in [Peers -> Replies \cup {None}]
BY DEF TypeOK, Call, PCs

LEMMA RequestFields ==
    ASSUME NEW m \in Requests
    PROVE  /\ m.from \in Peers
           /\ m.kind \in Calls
           /\ m.kind \in {"commit", "scent"} => m.step \in Turns
           /\ m.kind = "reveal" => /\ m.step \in Turns
                                   /\ m.barrier \in Cells \cup {None}
           /\ m.kind = "final" => m.records \subseteq Turns /\ m.outcome \in Outcomes
BY DEF Requests, StepRequests, RevealRequests, FinalRequests, AbortRequests, Calls

LEMMA DisclosedIsTyped ==
    ASSUME TypeOK, NEW p \in Peers, Stage(p)
    PROVE  Disclosed(p) \subseteq Turns
BY DEF TypeOK, Stage, Disclosed

LEMMA AuditIsTyped ==
    ASSUME NEW c \in SUBSET Turns, NEW d \in SUBSET Turns
    PROVE  AuditOf(c, d) \in Audits
BY DEF AuditOf, Audits

LEMMA ConcludeIsTyped ==
    ASSUME TypeOK, NEW p \in Peers, Stage(p), NEW o \in Outcomes, Conclude(p, o),
           faults' \in 0 .. MaxFaults
    PROVE  TypeOK'
<1> DEFINE m == [from |-> p, kind |-> "final", records |-> Disclosed(p), outcome |-> o]
<1>1. m \in Requests /\ m.kind \in Calls
  BY DisclosedIsTyped DEF Requests, FinalRequests, Calls
<1>2. Call(p, m)
  BY DEF Conclude
<1>3. /\ pc' \in [Peers -> PCs]
      /\ requests' \subseteq Requests
      /\ reply' \in [Peers -> Replies \cup {None}]
  BY <1>1, <1>2, CallIsTyped
<1>4. outcome' \in [Peers -> Outcomes \cup {None}] /\ phase' \in [Peers -> Phases]
  BY DEF Conclude, TypeOK, Phases
<1>5. QED
  BY <1>3, <1>4 DEF Conclude, TypeOK, world, opponent

LEMMA AbortIsTyped ==
    ASSUME TypeOK, NEW p \in Peers, Abort(p), faults' \in 0 .. MaxFaults
    PROVE  TypeOK'
<1> DEFINE m == [from |-> p, kind |-> "abort"]
<1>1. m \in Requests /\ m.kind \in Calls
  BY DEF Requests, AbortRequests, Calls
<1>2. /\ pc' \in [Peers -> PCs]
      /\ requests' \subseteq Requests
      /\ reply' \in [Peers -> Replies \cup {None}]
  BY <1>1, CallIsTyped DEF Abort
<1>3. outcome' \in [Peers -> Outcomes \cup {None}]
  BY DEF Abort, TypeOK, Outcomes
<1>4. QED
  BY <1>2, <1>3 DEF Abort, TypeOK, world, opponent, flags

LEMMA BeginStepIsTyped ==
    ASSUME TypeOK, NEW p \in Peers, NEW s \in Turns, BeginStep(p, s),
           UNCHANGED <<capturedOpponent, outcome, verdict, opponent, flags, faults>>
    PROVE  TypeOK'
<1> DEFINE m == [from |-> p, kind |-> "commit", step |-> s]
<1>1. m \in Requests /\ m.kind \in Calls
  BY DEF Requests, StepRequests, Calls
<1>2. /\ pc' \in [Peers -> PCs]
      /\ requests' \subseteq Requests
      /\ reply' \in [Peers -> Replies \cup {None}]
  BY <1>1, CallIsTyped DEF BeginStep
<1>3. pending' \in [Peers -> PendingSteps \cup {None}]
  BY DecisionsAreSteps DEF BeginStep, TypeOK
<1>4. turn' \in [Peers -> 0 .. MaxMoves]
  BY DEF BeginStep, TypeOK, Turns
<1>5. QED
  BY <1>2, <1>3, <1>4 DEF BeginStep, TypeOK, opponent, flags

LEMMA FaultIsTyped ==
    ASSUME TypeOK, NEW p \in Peers, Fault(p)
    PROVE  faults' \in 0 .. MaxFaults
BY ProtocolAssumption DEF TypeOK, Fault

LEMMA ServeIsTyped ==
    ASSUME TypeOK, NEW q \in Peers, NEW m \in requests, NEW r \in Replies, Serve(q, m, r)
    PROVE  /\ m \in Requests
           /\ requests' \subseteq Requests
           /\ reply' \in [Peers -> Replies \cup {None}]
           /\ pc' \in [Peers -> PCs]
           /\ faults' \in 0 .. MaxFaults
BY DEF TypeOK, Serve

LEMMA RunnerIsTyped ==
    ASSUME TypeOK, NEW p \in Peers, Stage(p), Proceed(p) \/ GiveUp(p)
    PROVE  TypeOK'
<1>1. CASE StartSubGame(p)
  <2>1. 1 \in Turns
    BY ProtocolAssumption DEF Turns
  <2>2. QED
    BY <1>1, <2>1, BeginStepIsTyped DEF StartSubGame
<1>2. CASE CommitAnswered(p)
  BY <1>2 DEF CommitAnswered, TypeOK, PCs, Awaits, runner, world, opponent, flags
<1>3. CASE SendReveal(p)
  <2> DEFINE m == [from |-> p, kind |-> "reveal", step |-> turn[p],
                   barrier |-> pending[p].barrier, claim |-> CaptureClaim(p)]
  <2>1. pending[p] \in PendingSteps
    BY <1>3 DEF SendReveal, Stage, Playing, TypeOK
  <2>2. CaptureClaim(p) \in Cells \cup {None}
    BY <2>1 DEF CaptureClaim, PendingCell, SettleMove, TypeOK, PendingSteps
  <2>3. m \in Requests /\ m.kind \in Calls
    BY <1>3, <2>1, <2>2 DEF SendReveal, Requests, RevealRequests, TypeOK, PendingSteps, Calls
  <2>4. /\ pc' \in [Peers -> PCs]
        /\ requests' \subseteq Requests
        /\ reply' \in [Peers -> Replies \cup {None}]
    BY <1>3, <2>3, CallIsTyped DEF SendReveal
  <2>5. QED
    BY <1>3, <2>4 DEF SendReveal, TypeOK, runner, world, opponent, flags
<1>4. CASE RevealAnswered(p)
  BY <1>4 DEF RevealAnswered, Returned, TypeOK, PCs, Awaits, Replies, world, opponent, flags
<1>5. CASE ApplyOwnStep(p)
  <2> DEFINE m == [from |-> p, kind |-> "scent", step |-> turn[p]]
  <2>1. pending[p] \in PendingSteps /\ turn[p] \in Turns
    BY <1>5 DEF ApplyOwnStep, Stage, Playing, TypeOK
  <2>2. m \in Requests /\ m.kind \in Calls
    BY <2>1 DEF Requests, StepRequests, Calls
  <2>3. /\ pc' \in [Peers -> PCs]
        /\ requests' \subseteq Requests
        /\ reply' \in [Peers -> Replies \cup {None}]
    BY <1>5, <2>2, CallIsTyped DEF ApplyOwnStep, ApplyStep
  <2>4. pos' \in [Peers -> Cells] /\ barriers' \in [Peers -> SUBSET Cells]
    BY <1>5, <2>1 DEF ApplyOwnStep, ApplyStep, TypeOK, SettleMove, PendingSteps
  <2>5. /\ records' \in [Peers -> SUBSET Turns]
        /\ pending' \in [Peers -> PendingSteps \cup {None}]
    BY <1>5, <2>1 DEF ApplyOwnStep, ApplyStep, TypeOK
  <2>6. QED
    BY <1>5, <2>3, <2>4, <2>5
    DEF ApplyOwnStep, ApplyStep, TypeOK, runner, opponent, flags
<1>6. CASE NextStep(p)
  <2>1. turn[p] + 1 \in Turns
    BY <1>6, ProtocolAssumption DEF NextStep, Returned, OutOfTime, TypeOK, Turns
  <2>2. QED
    BY <1>6, <2>1, BeginStepIsTyped DEF NextStep
<1>7. CASE EndByCapture(p)
  BY <1>7, ConcludeIsTyped DEF EndByCapture, Outcomes, TypeOK
<1>8. CASE EndBySurvival(p)
  BY <1>8, ConcludeIsTyped DEF EndBySurvival, Outcomes, TypeOK
<1>9. CASE OpponentEnded(p)
  BY <1>9, ConcludeIsTyped DEF OpponentEnded, TypeOK
<1>10. CASE FinalAnswered(p)
  <2>1. AuditOf(held[p], reply[p].records) \in Audits
    BY <1>10, AuditIsTyped DEF FinalAnswered, Returned, TypeOK, Replies
  <2>2. /\ lastAudit' \in [Peers -> Audits \cup {None}]
        /\ verdict' \in [Peers -> Audits \cup {None}]
    BY <1>10, <2>1 DEF FinalAnswered, TypeOK
  <2>3. QED
    BY <1>10, <2>2 DEF FinalAnswered, TypeOK, PCs, world, flags
<1>11. CASE AbortAnswered(p)
  BY <1>11 DEF AbortAnswered, TypeOK, PCs, runner, world, opponent, flags
<1>12. CASE Exit(p)
  BY <1>12 DEF Exit, TypeOK, PCs, runner, world, opponent, flags
<1>13. CASE AwaitExpires(p)
  BY <1>13, AbortIsTyped, FaultIsTyped DEF AwaitExpires
<1>14. CASE CallFails(p)
  <2>1. faults' \in 0 .. MaxFaults
    BY <1>14, FaultIsTyped DEF CallFails
  <2>2. CASE oppFinished[p] # None
    BY <1>14, <2>1, <2>2, ConcludeIsTyped DEF CallFails, TypeOK
  <2>3. CASE oppFinished[p] = None
    BY <1>14, <2>1, <2>3, AbortIsTyped DEF CallFails
  <2>4. QED
    BY <2>2, <2>3
<1>15. CASE FinalFails(p)
  <2>1. faults' \in 0 .. MaxFaults
    BY <1>15, FaultIsTyped DEF FinalFails
  <2>2. QED
    BY <1>15, <2>1 DEF FinalFails, TypeOK, PCs, world, opponent, flags
<1>16. CASE AbortFails(p)
  <2>1. faults' \in 0 .. MaxFaults
    BY <1>16, FaultIsTyped DEF AbortFails
  <2>2. QED
    BY <1>16, <2>1 DEF AbortFails, TypeOK, PCs, runner, world, opponent, flags
<1>17. QED
  BY <1>1, <1>2, <1>3, <1>4, <1>5, <1>6, <1>7, <1>8, <1>9, <1>10, <1>11, <1>12, <1>13,
     <1>14, <1>15, <1>16 DEF Proceed, GiveUp

LEMMA HandlerIsTyped ==
    ASSUME TypeOK, NEW q \in Peers, Stage(q), NEW m \in requests, Handle(q, m)
    PROVE  TypeOK'
<1>1. m \in Requests
  BY DEF TypeOK
<1>2. Ack \in Replies
  BY DEF Ack, Replies
<1>3. CASE ServeCommit(q, m)
  <2>1. held' \in [Peers -> SUBSET Turns]
    BY <1>1, <1>3, RequestFields DEF ServeCommit, TypeOK
  <2>2. QED
    BY <1>2, <1>3, <2>1, ServeIsTyped DEF ServeCommit, TypeOK, runner, world, flags
<1>4. CASE ServeReveal(q, m)
  <2> DEFINE accepted == m.step \in held[q]
             walls == barriers[q] \cup
                        IF accepted /\ m.barrier # None THEN {m.barrier} ELSE {}
             caught == accepted /\ m.claim # None /\ m.claim = AnsweringCell(q, walls)
             r == [caught |-> caught, records |-> {}]
  <2>1. r \in Replies
    BY Zenon DEF Replies
  <2>2. Serve(q, m, r)
    BY <1>4 DEF ServeReveal
  <2>3. walls \in SUBSET Cells
    BY <1>1, <1>4, RequestFields DEF ServeReveal, TypeOK
  <2>4. barriers' \in [Peers -> SUBSET Cells]
    BY <1>4, <2>3 DEF ServeReveal, TypeOK
  <2>5. iAmCaught' \in [Peers -> BOOLEAN]
    BY <1>4, Zenon DEF ServeReveal, TypeOK
  <2>6. seen' \in [Peers -> Nat]
    BY <1>4 DEF ServeReveal, TypeOK
  <2>7. QED
    BY <1>4, <2>1, <2>2, <2>4, <2>5, <2>6, ServeIsTyped
    DEF ServeReveal, TypeOK, runner, flags
<1>5. CASE ServeScent(q, m)
  BY <1>2, <1>5, ServeIsTyped DEF ServeScent, TypeOK, runner, world, opponent, flags
<1>6. CASE ServeFinal(q, m)
  <2> DEFINE r == [caught |-> FALSE, records |-> Disclosed(q)]
  <2>1. r \in Replies /\ Serve(q, m, r)
    BY <1>6, DisclosedIsTyped DEF ServeFinal, Replies
  <2>2. m.records \subseteq Turns /\ m.outcome \in Outcomes
    BY <1>1, <1>6, RequestFields DEF ServeFinal
  <2>3. AuditOf(held[q], m.records) \in Audits
    BY <2>2, AuditIsTyped DEF TypeOK
  <2>4. lastAudit' \in [Peers -> Audits \cup {None}]
    BY <1>6, <2>3 DEF ServeFinal, TypeOK
  <2>5. oppFinished' \in [Peers -> Outcomes \cup {None}]
    BY <1>6, <2>2 DEF ServeFinal, TypeOK, RecordEnding
  <2>6. phase' \in [Peers -> Phases]
    BY <1>6 DEF ServeFinal, TypeOK, Phases
  <2>7. QED
    BY <1>6, <2>1, <2>4, <2>5, <2>6, ServeIsTyped DEF ServeFinal, TypeOK, runner, world
<1>7. CASE ServeAbort(q, m)
  BY <1>2, <1>7, ServeIsTyped DEF ServeAbort, TypeOK, runner, world, opponent
<1>8. QED
  BY <1>3, <1>4, <1>5, <1>6, <1>7 DEF Handle

-----------------------------------------------------------------------------
(* The exchange. *)

Exchange == \A p \in Peers : Stage(p) /\ Abreast(p) /\ Committed(p) /\ Shown(p)

LEMMA InvDef == Inv <=> TypeOK /\ Exchange
BY DEF Inv, Exchange

\* p leaves the loop, or is parked elsewhere after leaving it: its last call is
\* not a commit or a reveal, and nothing else it owns has changed.
LEMMA LeavingKeepsExchange ==
    ASSUME Inv, TypeOK', NEW p \in Peers, pc[p] # "start", pc'[p] \in Leaving,
           pc'[Other(p)] = pc[Other(p)], reply'[Other(p)] = reply[Other(p)],
           \A n \in requests' : n.kind \in {"commit", "reveal"} => n \in requests,
           UNCHANGED <<turn, pending, seen, held>>
    PROVE  Exchange'
<1> USE OtherIsAPeer
<1>1. \A x \in Peers : Stage(x)' /\ Abreast(x)'
  BY DEF Inv, Stage, Abreast, Leaving, Playing, TypeOK
<1>2. \A x \in Peers : Committed(x)'
  BY DEF Inv, Committed, Leaving, TypeOK
<1>3. \A x \in Peers : Shown(x)'
  BY DEF Inv, Stage, Shown, Leaving, TypeOK
<1>4. QED
  BY <1>1, <1>2, <1>3 DEF Exchange

LEMMA BeginStepKeepsExchange ==
    ASSUME Inv, TypeOK', NEW p \in Peers, pc[p] \in {"start", "scent"},
           BeginStep(p, turn[p] + 1), UNCHANGED opponent
    PROVE  Exchange'
<1> USE OtherIsAPeer
<1> DEFINE m == [from |-> p, kind |-> "commit", step |-> turn[p] + 1]
<1>1. /\ turn[p] \in Nat /\ seen[p] = turn[p] /\ seen[Other(p)] = turn[p]
      /\ turn' = [turn EXCEPT ![p] = turn[p] + 1]
      /\ turn'[p] \in Turns
  BY DEF Inv, Stage, Abreast, Shown, BeginStep, TypeOK, Turns
<1>2. pending'[p] # None
  <2>1. PICK d \in Decisions(p) : pending' = [pending EXCEPT ![p] = d]
    BY DEF BeginStep
  <2>2. d # None
    BY DecisionsAreSteps, NoneIsNoValue DEF Inv
  <2>3. QED
    BY <2>1, <2>2 DEF Inv, TypeOK
<1>3. \A x \in Peers \ {p} : /\ pending'[x] = pending[x] /\ turn'[x] = turn[x]
                             /\ pc'[x] = pc[x] /\ reply'[x] = reply[x]
  BY DEF BeginStep, Call, Inv, TypeOK
<1>4. pc'[p] = "commit" /\ reply'[p] = None /\ requests' = requests \cup {m}
  BY DEF BeginStep, Call, Inv, TypeOK
<1>5. UNCHANGED <<seen, held>>
  BY DEF opponent
<1>6. \A x \in Peers : Stage(x)' /\ Abreast(x)'
  BY <1>1, <1>2, <1>3, <1>4, <1>5 DEF Inv, Stage, Abreast, Playing, TypeOK
<1>7. \A x \in Peers : Committed(x)'
  BY <1>1, <1>3, <1>4, <1>5 DEF Inv, Committed, Leaving, TypeOK, Turns
<1>8. \A x \in Peers : Shown(x)'
  BY <1>1, <1>3, <1>4, <1>5 DEF Inv, Shown, Leaving, TypeOK
<1>9. QED
  BY <1>6, <1>7, <1>8 DEF Exchange

LEMMA CommitAnsweredKeepsExchange ==
    ASSUME Inv, NEW p \in Peers, CommitAnswered(p)
    PROVE  Exchange'
<1> USE OtherIsAPeer
<1>1. /\ pc' = [pc EXCEPT ![p] = "awaitCommit"] /\ pc[p] = "commit" /\ reply[p] # None
      /\ UNCHANGED <<turn, pending, seen, held, requests, reply>>
  BY DEF CommitAnswered, Returned, runner, world, opponent
<1>2. \A x \in Peers : Stage(x)' /\ Abreast(x)'
  BY <1>1 DEF Inv, Stage, Abreast, Playing, TypeOK
<1>3. \A x \in Peers : Committed(x)'
  BY <1>1 DEF Inv, Committed, Leaving, TypeOK
<1>4. \A x \in Peers : Shown(x)'
  BY <1>1 DEF Inv, Shown, Leaving, TypeOK
<1>5. QED
  BY <1>2, <1>3, <1>4 DEF Exchange

LEMMA SendRevealKeepsExchange ==
    ASSUME Inv, NEW p \in Peers, SendReveal(p)
    PROVE  Exchange'
<1> USE OtherIsAPeer
<1> DEFINE m == [from |-> p, kind |-> "reveal", step |-> turn[p],
                 barrier |-> pending[p].barrier, claim |-> CaptureClaim(p)]
<1>1. /\ pc[p] = "awaitCommit" /\ turn[p] \in held[p]
      /\ pc' = [pc EXCEPT ![p] = "reveal"]
      /\ reply' = [reply EXCEPT ![p] = None]
      /\ requests' = requests \cup {m}
      /\ m.from = p /\ m.kind = "reveal" /\ m.step = turn[p]
      /\ UNCHANGED <<turn, pending, seen, held>>
  BY DEF SendReveal, Call, runner, world, opponent
<1> HIDE DEF m
<1>2. turn[p] \in held[Other(p)] /\ seen[Other(p)] = turn[p] - 1
  BY <1>1 DEF Inv, Committed, Shown
<1>3. \A n \in requests : n.from = p => n.kind \notin {"commit", "reveal"}
  BY <1>1 DEF Inv, Committed, Shown, Leaving
<1>4. \A x \in Peers : Stage(x)' /\ Abreast(x)'
  BY <1>1 DEF Inv, Stage, Abreast, Playing, TypeOK
<1>5. \A x \in Peers : Committed(x)'
  BY <1>1, <1>2, <1>3 DEF Inv, Committed, Leaving, TypeOK
<1>6. Shown(p)'
  BY <1>1, <1>2, <1>3 DEF Inv, Shown, Leaving, TypeOK
<1>7. Shown(Other(p))'
  BY <1>1 DEF Inv, Shown, Leaving, TypeOK
<1>8. QED
  BY <1>4, <1>5, <1>6, <1>7 DEF Exchange

LEMMA RevealAnsweredKeepsExchange ==
    ASSUME Inv, NEW p \in Peers, RevealAnswered(p)
    PROVE  Exchange'
<1> USE OtherIsAPeer
<1>1. /\ pc' = [pc EXCEPT ![p] = "awaitReveal"] /\ pc[p] = "reveal" /\ reply[p] # None
      /\ UNCHANGED <<turn, pending, seen, held, requests, reply>>
  BY DEF RevealAnswered, Returned, world, opponent
<1>2. \A x \in Peers : Stage(x)' /\ Abreast(x)'
  BY <1>1 DEF Inv, Stage, Abreast, Playing, TypeOK
<1>3. \A x \in Peers : Committed(x)'
  BY <1>1 DEF Inv, Committed, Leaving, TypeOK
<1>4. \A x \in Peers : Shown(x)'
  BY <1>1 DEF Inv, Shown, Leaving, TypeOK
<1>5. QED
  BY <1>2, <1>3, <1>4 DEF Exchange

LEMMA ApplyOwnStepKeepsExchange ==
    ASSUME Inv, NEW p \in Peers, ApplyOwnStep(p)
    PROVE  Exchange'
<1> USE OtherIsAPeer
<1> DEFINE m == [from |-> p, kind |-> "scent", step |-> turn[p]]
<1>1. /\ pc[p] = "awaitReveal" /\ seen[p] >= turn[p]
      /\ pc' = [pc EXCEPT ![p] = "scent"]
      /\ reply' = [reply EXCEPT ![p] = None]
      /\ requests' = requests \cup {m}
      /\ m.kind = "scent"
      /\ pending' = [pending EXCEPT ![p] = None]
      /\ UNCHANGED <<turn, seen, held>>
  BY DEF ApplyOwnStep, ApplyStep, Call, runner, opponent
<1> HIDE DEF m
<1>2. \A x \in Peers : Stage(x)' /\ Abreast(x)'
  BY <1>1 DEF Inv, Stage, Abreast, Playing, TypeOK
<1>3. \A x \in Peers : Committed(x)'
  BY <1>1 DEF Inv, Committed, Leaving, TypeOK
<1>4. \A x \in Peers : Shown(x)'
  BY <1>1 DEF Inv, Shown, Leaving, TypeOK
<1>5. QED
  BY <1>2, <1>3, <1>4 DEF Exchange

LEMMA RunnerKeepsExchange ==
    ASSUME Inv, TypeOK', NEW p \in Peers, Proceed(p) \/ GiveUp(p)
    PROVE  Exchange'
<1> USE OtherIsAPeer
<1>1. ASSUME NEW o, pc[p] # "start", Conclude(p, o)
      PROVE  Exchange'
  <2>1. /\ pc' = [pc EXCEPT ![p] = "final"] /\ reply' = [reply EXCEPT ![p] = None]
        /\ \A n \in requests' : n \in requests \/ n.kind = "final"
        /\ UNCHANGED <<turn, pending, seen, held>>
    BY <1>1 DEF Conclude, Call, world, opponent
  <2>2. /\ pc'[p] \in Leaving /\ pc'[Other(p)] = pc[Other(p)]
        /\ reply'[Other(p)] = reply[Other(p)]
    BY <2>1 DEF Leaving, Inv, TypeOK
  <2>3. QED
    BY <1>1, <2>1, <2>2, LeavingKeepsExchange
<1>2. ASSUME pc[p] # "start", Abort(p)
      PROVE  Exchange'
  <2>1. /\ pc' = [pc EXCEPT ![p] = "abort"] /\ reply' = [reply EXCEPT ![p] = None]
        /\ \A n \in requests' : n \in requests \/ n.kind = "abort"
        /\ UNCHANGED <<turn, pending, seen, held>>
    BY <1>2 DEF Abort, Call, world, opponent
  <2>2. /\ pc'[p] \in Leaving /\ pc'[Other(p)] = pc[Other(p)]
        /\ reply'[Other(p)] = reply[Other(p)]
    BY <2>1 DEF Leaving, Inv, TypeOK
  <2>3. QED
    BY <1>2, <2>1, <2>2, LeavingKeepsExchange
<1>3. ASSUME pc[p] # "start", NEW k \in Leaving, pc' = [pc EXCEPT ![p] = k],
             UNCHANGED <<turn, pending, seen, held, requests, reply>>
      PROVE  Exchange'
  <2>1. pc'[p] \in Leaving /\ pc'[Other(p)] = pc[Other(p)]
    BY <1>3 DEF Inv, TypeOK
  <2>2. QED
    BY <1>3, <2>1, LeavingKeepsExchange
<1>4. CASE StartSubGame(p)
  <2>1. turn[p] + 1 = 1
    BY <1>4 DEF StartSubGame, Inv, Stage
  <2>2. QED
    BY <1>4, <2>1, BeginStepKeepsExchange DEF StartSubGame
<1>5. CASE NextStep(p)
  BY <1>5, BeginStepKeepsExchange DEF NextStep, Returned
<1>6. CASE EndByCapture(p)
  BY <1>1, <1>6 DEF EndByCapture, Returned
<1>7. CASE EndBySurvival(p)
  BY <1>1, <1>7 DEF EndBySurvival, Returned
<1>8. CASE OpponentEnded(p)
  BY <1>1, <1>8 DEF OpponentEnded, Awaits
<1>9. CASE AwaitExpires(p)
  BY <1>2, <1>9 DEF AwaitExpires, Awaits
<1>10. CASE CallFails(p)
  BY <1>1, <1>2, <1>10 DEF CallFails
<1>11. CASE FinalAnswered(p) \/ FinalFails(p)
  BY <1>3, <1>11 DEF FinalAnswered, FinalFails, Returned, Leaving, world, opponent
<1>12. CASE AbortAnswered(p) \/ AbortFails(p) \/ Exit(p)
  BY <1>3, <1>12
  DEF AbortAnswered, AbortFails, Exit, Returned, Leaving, runner, world, opponent
<1>13. QED
  BY <1>4, <1>5, <1>6, <1>7, <1>8, <1>9, <1>10, <1>11, <1>12, CommitAnsweredKeepsExchange,
     SendRevealKeepsExchange, RevealAnsweredKeepsExchange, ApplyOwnStepKeepsExchange
  DEF Proceed, GiveUp

LEMMA ServeCommitKeepsExchange ==
    ASSUME Inv, NEW q \in Peers, NEW m \in requests, ServeCommit(q, m)
    PROVE  Exchange'
<1> USE OtherIsAPeer
<1> DEFINE p == Other(q)
<1>1. /\ m.from = p /\ m.kind = "commit" /\ m.step = turn[p]
      /\ requests' = requests \ {m}
      /\ reply' = IF pc[p] = "commit" THEN [reply EXCEPT ![p] = Ack] ELSE reply
      /\ held' = [held EXCEPT ![q] = @ \cup {turn[p]}]
      /\ UNCHANGED <<pc, turn, pending, seen>>
  BY DEF ServeCommit, Serve, runner, world, Inv, Committed
<1>2. \A n \in requests : n.from = p /\ n.kind = "commit" => n = m
  BY <1>1, RequestFields
  DEF Inv, Committed, TypeOK, Requests, StepRequests, RevealRequests, FinalRequests, AbortRequests
<1>3. \A x \in Peers : Stage(x)' /\ Abreast(x)'
  BY <1>1 DEF Inv, Stage, Abreast
<1>4. Committed(p)'
  BY <1>1, <1>2 DEF Inv, Committed, TypeOK
<1>5. Committed(q)'
  BY <1>1 DEF Inv, Committed, TypeOK
<1>6. \A x \in Peers : Shown(x)'
  BY <1>1 DEF Inv, Shown, TypeOK
<1>7. QED
  BY <1>3, <1>4, <1>5, <1>6 DEF Exchange

\* What a reveal on the wire says about its receiver.
LEMMA RevealFindsItsStep ==
    ASSUME Inv, NEW m \in requests, m.kind = "reveal"
    PROVE  LET p == m.from
               q == Other(m.from)
           IN  /\ p \in Peers
               /\ m.step = turn[p] /\ turn[q] = turn[p]
               /\ seen[q] = turn[p] - 1
               /\ m.step \in held[q]
               /\ pending[q] # None
<1> USE OtherIsAPeer
<1> DEFINE p == m.from
           q == Other(m.from)
<1>1. p \in Peers /\ q \in Peers /\ Other(q) = p
  BY RequestFields DEF Inv, TypeOK
<1>2. m.step = turn[p] /\ seen[q] = turn[p] - 1 /\ m.step \in held[q] /\ turn[p] \in held[p]
  BY <1>1 DEF Inv, Shown
<1>3. turn[p] <= turn[q]
  BY <1>1, <1>2 DEF Inv, Committed
<1>4. turn[q] <= turn[p]
  BY <1>1, <1>2 DEF Inv, Abreast, TypeOK
<1>5. turn[p] \in Nat /\ turn[q] \in Nat
  BY <1>1 DEF Inv, TypeOK
<1>6. pending[q] # None
  BY <1>1, <1>2, <1>3, <1>4, <1>5 DEF Inv, Abreast
<1>7. QED
  BY <1>1, <1>2, <1>3, <1>4, <1>5, <1>6

LEMMA ServeRevealKeepsExchange ==
    ASSUME Inv, NEW q \in Peers, NEW m \in requests, ServeReveal(q, m)
    PROVE  /\ Exchange'
           /\ seen' = [seen EXCEPT ![q] = @ + 1]
<1> USE OtherIsAPeer
<1> DEFINE p == Other(q)
           caught == m.step \in held[q] /\ m.claim # None /\
                       m.claim = AnsweringCell(q, barriers[q] \cup
                          IF m.step \in held[q] /\ m.barrier # None THEN {m.barrier} ELSE {})
           r == [caught |-> caught, records |-> {}]
<1>1. m.from = p /\ m.kind = "reveal" /\ Other(p) = q
  BY DEF ServeReveal, Serve
<1>2. /\ m.step = turn[p] /\ turn[q] = turn[p]
      /\ seen[q] = turn[p] - 1 /\ m.step \in held[q] /\ pending[q] # None
  BY <1>1, RevealFindsItsStep
<1>3. /\ requests' = requests \ {m}
      /\ reply' = IF pc[p] = "reveal" THEN [reply EXCEPT ![p] = r] ELSE reply
      /\ seen' = [seen EXCEPT ![q] = @ + 1]
      /\ UNCHANGED <<pc, turn, pending, held>>
  BY <1>1, <1>2 DEF ServeReveal, Serve, runner
<1>4. r # None
  <2>1. r \in Replies
    BY Zenon DEF Replies
  <2>2. QED
    BY <2>1, NoneIsNoValue
<1> HIDE DEF caught, r
<1>5. \A n \in requests : n.from = p /\ n.kind = "reveal" => n = m
  BY <1>1 DEF Inv, Shown
<1>6. \A x \in Peers : Stage(x)' /\ Abreast(x)'
  BY <1>1, <1>2, <1>3 DEF Inv, Stage, Abreast, TypeOK
<1>7. \A x \in Peers : Committed(x)'
  BY <1>1, <1>3 DEF Inv, Committed, TypeOK
<1>8. Shown(p)'
  BY <1>1, <1>2, <1>3, <1>4, <1>5 DEF Inv, Shown, Leaving, TypeOK
<1>9. Shown(q)'
  BY <1>1, <1>2, <1>3 DEF Inv, Shown, TypeOK
<1>10. QED
  BY <1>3, <1>6, <1>7, <1>8, <1>9 DEF Exchange

LEMMA HandlerKeepsExchange ==
    ASSUME Inv, NEW q \in Peers, NEW m \in requests, Handle(q, m)
    PROVE  Exchange'
<1> USE OtherIsAPeer
<1>1. ASSUME m.kind \notin {"commit", "reveal"}, NEW r, Serve(q, m, r),
             UNCHANGED <<turn, pending, seen, held>>
      PROVE  Exchange'
  <2>1. /\ UNCHANGED pc /\ requests' \subseteq requests
        /\ \A x \in Peers : pc[x] \in {"commit", "reveal"} => reply'[x] = reply[x]
    BY <1>1 DEF Serve, Inv, TypeOK
  <2>2. \A x \in Peers : Stage(x)' /\ Abreast(x)'
    BY <1>1, <2>1 DEF Inv, Stage, Abreast
  <2>3. \A x \in Peers : Committed(x)'
    BY <1>1, <2>1 DEF Inv, Committed
  <2>4. \A x \in Peers : Shown(x)'
    BY <1>1, <2>1 DEF Inv, Shown
  <2>5. QED
    BY <2>2, <2>3, <2>4 DEF Exchange
<1>2. CASE ServeScent(q, m)
  BY <1>1, <1>2 DEF ServeScent, runner, world, opponent
<1>3. CASE ServeFinal(q, m)
  BY <1>1, <1>3 DEF ServeFinal, runner, world
<1>4. CASE ServeAbort(q, m)
  BY <1>1, <1>4 DEF ServeAbort, runner, world, opponent
<1>5. QED
  BY <1>2, <1>3, <1>4, ServeCommitKeepsExchange, ServeRevealKeepsExchange DEF Handle

-----------------------------------------------------------------------------
(* The theorems. *)

LEMMA InitInv == Init => Inv
<1> SUFFICES ASSUME Init
             PROVE  Inv
  OBVIOUS
<1>1. TypeOK
  BY ProtocolAssumption DEF Init, TypeOK, PCs, Phases, Turns
<1>2. Exchange
  BY OtherIsAPeer DEF Init, Exchange, Stage, Abreast, Committed, Shown, Playing
<1>3. QED
  BY <1>1, <1>2, InvDef

LEMMA NextInv == Inv /\ [Next]_vars => Inv'
<1> SUFFICES ASSUME Inv, [Next]_vars
             PROVE  Inv'
  OBVIOUS
<1>1. ASSUME NEW p \in Peers, Proceed(p) \/ GiveUp(p)
      PROVE  Inv'
  <2>1. TypeOK'
    BY <1>1, RunnerIsTyped DEF Inv
  <2>2. Exchange'
    BY <1>1, <2>1, RunnerKeepsExchange
  <2>3. QED
    BY <2>1, <2>2 DEF Inv, Exchange
<1>2. ASSUME NEW q \in Peers, NEW m \in requests, Handle(q, m)
      PROVE  Inv'
  <2>1. TypeOK'
    BY <1>2, HandlerIsTyped DEF Inv
  <2>2. Exchange'
    BY <1>2, HandlerKeepsExchange
  <2>3. QED
    BY <2>1, <2>2 DEF Inv, Exchange
<1>3. CASE UNCHANGED vars
  BY <1>3 DEF vars, runner, world, opponent, flags, Inv, TypeOK, Stage, Abreast, Committed, Shown
<1>4. QED
  BY <1>1, <1>2, <1>3 DEF Next, Ended

\* Inv is inductive, so it holds of every reachable state.
THEOREM Invariance == Spec => []Inv
BY InitInv, NextInv, PTL DEF Spec

\* Every variable stays in its type, whatever the grid, the horizon, the quota
\* and the number of faults; in particular turn never passes MaxMoves
\* (run_sub_game's range and the survival threshold).
THEOREM TypeCorrectness == Spec => []TypeOK
<1>1. Inv => TypeOK
  BY DEF Inv
<1>2. QED
  BY <1>1, Invariance, PTL

\* Nobody is shown a step before sealing their own (_await_commit before
\* _push_reveal, and on_reveal's check for a prior commitment).
THEOREM NobodyPeeks == Spec => []NoPeek
<1>1. Inv => NoPeek
  BY DEF Inv, Abreast, NoPeek
<1>2. QED
  BY <1>1, Invariance, PTL

\* A claim is always answered from the cell of the step it was made for,
\* however late the reveal carrying it arrives (on_reveal, pending_cell).
THEOREM ClaimsMeetTheirStep == Spec => []AnsweredInTheSameStep
<1>1. Inv => AnsweredInTheSameStep
  <2> SUFFICES ASSUME Inv, NEW m \in requests, m.kind = "reveal"
               PROVE  LET q == Other(m.from)
                      IN  pending[q] # None /\ turn[q] = m.step /\ m.step \in held[q]
    BY DEF AnsweredInTheSameStep
  <2>1. QED
    BY RevealFindsItsStep
<1>2. QED
  BY <1>1, Invariance, PTL

-----------------------------------------------------------------------------
(* The refinement. *)

LEMMA InitRefines == Init => CR!Init
BY OtherIsAPeer DEF Init, CR!Init

LEMMA BeginStepRefines ==
    ASSUME Inv, TypeOK', NEW p \in Peers, pc[p] \in {"start", "scent"},
           BeginStep(p, turn[p] + 1), UNCHANGED opponent
    PROVE  CR!Seal(p)
<1> USE OtherIsAPeer
<1>1. /\ turn[p] \in Nat /\ seen[p] = turn[p] /\ seen[Other(p)] = turn[p]
      /\ turn' = [turn EXCEPT ![p] = turn[p] + 1]
      /\ turn'[p] \in Turns
      /\ UNCHANGED seen
  BY DEF Inv, Stage, Abreast, Shown, BeginStep, opponent, TypeOK, Turns
<1>2. turn'[p] = turn[p] + 1 /\ turn[p] < MaxMoves
  BY <1>1, ProtocolAssumption DEF Inv, TypeOK, Turns
<1>3. QED
  BY <1>1, <1>2 DEF CR!Seal

LEMMA ServeRevealRefines ==
    ASSUME Inv, NEW q \in Peers, NEW m \in requests, ServeReveal(q, m)
    PROVE  CR!Disclose(Other(q))
<1> USE OtherIsAPeer
<1> DEFINE p == Other(q)
<1>1. m.from = p /\ m.kind = "reveal" /\ UNCHANGED turn
  BY DEF ServeReveal, Serve, runner
<1>2. turn[q] = turn[p] /\ seen[q] = turn[p] - 1 /\ turn[p] \in Nat
  BY <1>1, RevealFindsItsStep DEF Inv, TypeOK
<1>3. seen' = [seen EXCEPT ![q] = @ + 1] /\ seen \in [Peers -> Nat]
  BY ServeRevealKeepsExchange DEF Inv, TypeOK
<1>4. [x \in Peers |-> seen[Other(x)]]' =
        [[x \in Peers |-> seen[Other(x)]] EXCEPT ![p] = @ + 1]
  BY <1>3
<1>5. QED
  BY <1>1, <1>2, <1>4 DEF CR!Disclose

LEMMA NextRefines == Inv /\ [Next]_vars => [CR!Next]_<<turn, [p \in Peers |-> seen[Other(p)]]>>
<1> SUFFICES ASSUME Inv, [Next]_vars
             PROVE  CR!Next \/ UNCHANGED <<turn, seen>>
  OBVIOUS
<1>1. TypeOK'
  BY NextInv DEF Inv
<1>2. ASSUME NEW p \in Peers, StartSubGame(p)
      PROVE  CR!Next
  <2>1. turn[p] + 1 = 1
    BY <1>2 DEF StartSubGame, Inv, Stage
  <2>2. CR!Seal(p)
    BY <1>1, <1>2, <2>1, BeginStepRefines DEF StartSubGame
  <2>3. QED
    BY <2>2 DEF CR!Next
<1>3. ASSUME NEW p \in Peers, NextStep(p)
      PROVE  CR!Next
  <2>1. CR!Seal(p)
    BY <1>1, <1>3, BeginStepRefines DEF NextStep, Returned
  <2>2. QED
    BY <2>1 DEF CR!Next
<1>4. ASSUME NEW q \in Peers, NEW m \in requests, ServeReveal(q, m)
      PROVE  CR!Next
  BY <1>4, ServeRevealRefines, OtherIsAPeer DEF CR!Next
<1>5. ASSUME NEW p \in Peers, Proceed(p) \/ GiveUp(p), ~StartSubGame(p), ~NextStep(p)
      PROVE  UNCHANGED <<turn, seen>>
  BY <1>5
  DEF Proceed, GiveUp, CommitAnswered, SendReveal, RevealAnswered, ApplyOwnStep, ApplyStep,
      EndByCapture, EndBySurvival, OpponentEnded, FinalAnswered, AbortAnswered, Exit,
      AwaitExpires, CallFails, FinalFails, AbortFails, Conclude, Abort, runner, opponent
<1>6. ASSUME NEW q \in Peers, NEW m \in requests, Handle(q, m), ~ServeReveal(q, m)
      PROVE  UNCHANGED <<turn, seen>>
  BY <1>6
  DEF Handle, ServeCommit, ServeScent, ServeFinal, ServeAbort, runner, opponent
<1>7. CASE UNCHANGED vars
  BY <1>7 DEF vars, runner, opponent
<1>8. QED
  BY <1>2, <1>3, <1>4, <1>5, <1>6, <1>7 DEF Next, Ended

\* The native wire implements lock-step commit-reveal: a step is sealed only
\* when both have seen the last one, and disclosed only when both have sealed
\* it (play_step, on_reveal).
THEOREM Refinement == Spec => ImplementsCommitReveal
<1>1. Spec => CR!Spec
  BY InitRefines, NextRefines, Invariance, PTL DEF Spec, CR!Spec
<1>2. QED
  BY <1>1 DEF ImplementsCommitReveal

-----------------------------------------------------------------------------
(***************************************************************************)
(* What two peers tell each other: their boards agree, a concession is     *)
(* true, an honest chain is never read as a forged one, and their reports  *)
(* do not contradict each other.  The inductive invariants are each        *)
(* relative to Inv and to those before it.                                 *)
(***************************************************************************)

\* A reveal on the wire tells what its sender has sealed, and has not applied yet;
\* the thief seals no wall and claims no cell.
Told ==
    /\ pending[Thief] # None => pending[Thief].barrier = None
    /\ \A m \in requests : m.kind = "reveal" =>
          /\ pending[m.from] # None
          /\ m.barrier = pending[m.from].barrier
          /\ m.claim = CaptureClaim(m.from)

\* The wall the cop has shown and not built yet.
Promised ==
    IF pending[Cop] # None /\ seen[Thief] = turn[Cop]
      THEN {pending[Cop].barrier} \ {None} ELSE {}

Walls == barriers[Thief] = barriers[Cop] \cup Promised

\* The thief's concession is of the step the cop has shown last, and the cop's
\* runner knows of it once its call was answered.
Known ==
    /\ ~capturedOpponent[Thief] /\ ~iAmCaught[Cop]
    /\ pc[Thief] = "reveal" /\ reply[Thief] # None => ~reply[Thief].caught
    /\ pc[Cop] = "start" \/ seen[Thief] # turn[Cop] => ~iAmCaught[Thief]
    /\ pc[Cop] = "reveal" /\ reply[Cop] # None => reply[Cop].caught = iAmCaught[Thief]
    /\ pc[Cop] \in {"awaitReveal", "scent"} => capturedOpponent[Cop] = iAmCaught[Thief]

\* Where the thief is once the step it is playing is applied.
Cell == AnsweringCell(Thief, barriers[Thief])

Conceded ==
    /\ iAmCaught[Thief] =>
          IF pending[Cop] = None THEN Cell \in barriers[Thief] \cup {pos[Cop]}
                                 ELSE Cell = PendingCell(Cop, barriers[Cop])
    /\ Cell \in barriers[Thief] => iAmCaught[Thief]
    /\ seen[Thief] # turn[Thief] =>
          /\ pos[Thief] \notin barriers[Thief]
          /\ pending[Thief] # None => pending[Thief].aim \notin barriers[Thief]

Parting == {"final", "closing", "done"}

\* What a peer discloses is what it has sealed; the other holds all of it, but
\* perhaps the last; and an ending is told by one that has left.
Chains ==
    \A p \in Peers :
      /\ 1 .. turn[p] - 1 \subseteq held[Other(p)]
      /\ Disclosed(p) = 1 .. turn[p]
      /\ outcome[p] # None => pc[p] \in Leaving
      /\ oppFinished[p] # None =>
            oppFinished[p] = outcome[Other(p)] /\ pc[Other(p)] \in Parting
      /\ pc[p] = "final" => pending[p] = None \/ oppFinished[p] # None
      /\ \A m \in requests : m.from = p /\ m.kind = "final" =>
            m.records = 1 .. turn[p] /\ m.outcome = outcome[p] /\ pc[p] \in Parting

\* Only a step sealed after the answer was given is missing from it.
Audited ==
    \A p \in Peers :
      /\ pc[p] = "final" /\ reply[p] # None =>
            \/ reply[p].records = 1 .. turn[Other(p)]
            \/ reply[p].records = 1 .. turn[p] /\ turn[Other(p)] = turn[p] + 1
      /\ lastAudit[p] # None =>
            /\ lastAudit[p].unsolicited = {}
            /\ lastAudit[p].withheld \subseteq {turn[p] + 1}
            /\ pc[p] \notin {"closing", "done"} => lastAudit[p].withheld = {}
      /\ verdict[p] # None =>
            /\ pc[p] \in {"closing", "done"}
            /\ verdict[p].unsolicited = {}
            /\ verdict[p].withheld \subseteq {turn[p] + 1}

\* An ending has its reason, or is the other's word.
Reasoned ==
    /\ outcome[Cop] = Capture => iAmCaught[Thief] \/ outcome[Thief] = Capture
    /\ outcome[Cop] = Survival =>
          \/ outcome[Thief] = Survival
          \/ /\ ~iAmCaught[Thief] /\ OutOfTime(Cop)
             /\ seen[Cop] = turn[Cop] /\ seen[Thief] = turn[Cop]
    /\ outcome[Thief] = Survival =>
          \/ outcome[Cop] = Survival
          \/ ~iAmCaught[Thief] /\ pending[Thief] = None
    /\ outcome[Thief] = Capture =>
          iAmCaught[Thief] \/ BoxedIn(Thief) \/ outcome[Cop] = Capture

\* Without a fault whoever has left has said so, or has left after the other.
Announced ==
    /\ \A p \in Peers :
          /\ pc[p] = "final" /\ reply[p] # None => oppFinished[Other(p)] # None
          /\ pc[p] = "abort" => outcome[p] = TechnicalLoss
    /\ faults = MaxFaults =>
          \A p \in Peers :
             /\ outcome[p] # TechnicalLoss
             /\ pc[p] \in {"closing", "done"} =>
                   oppFinished[Other(p)] # None \/ pc[Other(p)] = "done"

-----------------------------------------------------------------------------
(* What the steps do.  Five of them move a peer, its board or what the     *)
(* other has seen of it; every other is quiet.                             *)

LEMMA PeersAreTwo ==
    /\ Cop \in Peers /\ Thief \in Peers /\ Cop # Thief
    /\ Other(Cop) = Thief /\ Other(Thief) = Cop
    /\ \A p \in Peers : p = Cop \/ p = Thief
BY DEF Peers, Other, Cop, Thief

Quiet ==
    /\ UNCHANGED <<turn, capturedOpponent, pos, barriers, pending, records, seen, iAmCaught>>
    /\ \A m \in requests' : m.kind = "reveal" => m \in requests
    /\ \A x \in Peers :
         /\ pc'[x] \in {"start", "reveal", "awaitReveal", "scent"} => pc'[x] = pc[x]
         /\ pc[x] = "reveal" => reply'[x] = reply[x] \/ pc'[x] # "reveal"

Begins(p) ==
    /\ pc[p] \in {"start", "scent"} /\ pc' = [pc EXCEPT ![p] = "commit"]
    /\ pc[p] = "start" => turn[p] = 0
    /\ pc[p] = "scent" => ~Captured(p)
    /\ turn' = [turn EXCEPT ![p] = turn[p] + 1]
    /\ pending[p] = None
    /\ \E d \in Decisions(p) : pending' = [pending EXCEPT ![p] = d]
    /\ \A m \in requests' : m.kind # "commit" => m \in requests
    /\ reply' = [reply EXCEPT ![p] = None]
    /\ UNCHANGED <<capturedOpponent, outcome, verdict, pos, barriers, records, held, seen,
                   iAmCaught, oppFinished, lastAudit, faults>>

LEMMA BeginEffect ==
    ASSUME Inv, NEW p \in Peers, StartSubGame(p) \/ NextStep(p)
    PROVE  Begins(p)
<1>1. /\ pc[p] \in {"start", "scent"} /\ pending[p] = None
      /\ pc[p] = "start" => turn[p] = 0
      /\ pc[p] = "scent" => ~Captured(p)
  BY DEF StartSubGame, NextStep, Returned, Inv, Stage
<1>2. BeginStep(p, turn[p] + 1)
  <2>1. CASE StartSubGame(p)
    <3>1. turn[p] + 1 = 1
      BY <2>1 DEF StartSubGame, Inv, Stage
    <3>2. QED
      BY <2>1, <3>1 DEF StartSubGame
  <2>2. QED
    BY <2>1 DEF NextStep
<1>3. UNCHANGED <<capturedOpponent, outcome, verdict, held, seen, iAmCaught, oppFinished,
                  lastAudit, faults>>
  BY DEF StartSubGame, NextStep, opponent
<1>4. /\ pc' = [pc EXCEPT ![p] = "commit"]
      /\ turn' = [turn EXCEPT ![p] = turn[p] + 1]
      /\ reply' = [reply EXCEPT ![p] = None]
      /\ \A m \in requests' : m.kind # "commit" => m \in requests
      /\ UNCHANGED <<pos, barriers, records>>
  BY <1>2 DEF BeginStep, Call
<1>5. \E d \in Decisions(p) : pending' = [pending EXCEPT ![p] = d]
  BY <1>2 DEF BeginStep
<1>6. QED
  BY <1>1, <1>3, <1>4, <1>5 DEF Begins

\* A step that moves nobody.
LEMMA QuietSteps ==
    ASSUME Inv, [Next]_vars,
           ~ \E p \in Peers : \/ StartSubGame(p) \/ NextStep(p) \/ SendReveal(p)
                              \/ RevealAnswered(p) \/ ApplyOwnStep(p),
           ~ \E q \in Peers, m \in requests : ServeReveal(q, m)
    PROVE  Quiet
<1>1. pc \in [Peers -> PCs] /\ DOMAIN reply = Peers
  BY DEF Inv, TypeOK
<1>2. ASSUME NEW p \in Peers, Proceed(p)
      PROVE  Quiet
  <2>1. CommitAnswered(p) \/ EndByCapture(p) \/ EndBySurvival(p) \/ OpponentEnded(p)
          \/ FinalAnswered(p) \/ AbortAnswered(p) \/ Exit(p)
    BY <1>2 DEF Proceed
  <2>2. QED
    BY <1>1, <2>1
    DEF CommitAnswered, EndByCapture, EndBySurvival, OpponentEnded, FinalAnswered,
        AbortAnswered, Exit, Returned, Conclude, Call, Awaits, Quiet, runner, world, opponent
<1>3. ASSUME NEW p \in Peers, GiveUp(p)
      PROVE  Quiet
  BY <1>1, <1>3
  DEF GiveUp, AwaitExpires, CallFails, FinalFails, AbortFails, Conclude, Abort, Call,
      Awaits, Quiet, runner, world, opponent
<1>4. ASSUME NEW q \in Peers, NEW m \in requests, Handle(q, m)
      PROVE  Quiet
  <2>1. ServeCommit(q, m) \/ ServeScent(q, m) \/ ServeFinal(q, m) \/ ServeAbort(q, m)
    BY <1>4 DEF Handle
  <2>2. QED
    BY <1>1, <2>1
    DEF ServeCommit, ServeScent, ServeFinal, ServeAbort, Serve, Quiet, runner, world, opponent
<1>5. CASE UNCHANGED vars
  BY <1>5 DEF vars, Quiet, runner, world, opponent, flags
<1>6. QED
  BY <1>2, <1>3, <1>4, <1>5 DEF Next, Ended

\* A reveal that is served: its sender has sealed that step and is seen to.
ServedReveal(q, m) ==
    /\ m.from = Other(q) /\ m.kind = "reveal"
    /\ turn[q] = turn[m.from] /\ seen[q] = turn[q] - 1 /\ pending[q] # None
    /\ requests' = requests \ {m}
    /\ barriers' = [barriers EXCEPT ![q] = @ \cup ({m.barrier} \ {None})]
    /\ seen' = [seen EXCEPT ![q] = @ + 1]
    /\ UNCHANGED <<pc, turn, capturedOpponent, pos, pending, records>>

LEMMA ServeRevealEffect ==
    ASSUME Inv, NEW q \in Peers, NEW m \in requests, ServeReveal(q, m)
    PROVE  LET caught == m.claim # None /\ m.claim = AnsweringCell(q, barriers'[q])
               r      == [caught |-> caught, records |-> {}]
           IN  /\ ServedReveal(q, m)
               /\ iAmCaught' = [iAmCaught EXCEPT ![q] = @ \/ caught]
               /\ reply' = IF pc[m.from] = "reveal" THEN [reply EXCEPT ![m.from] = r] ELSE reply
<1>1. m.from = Other(q) /\ m.kind = "reveal" /\ Other(m.from) = q
  BY OtherIsAPeer DEF ServeReveal, Serve
<1>2. turn[q] = turn[m.from] /\ seen[q] = turn[q] - 1 /\ pending[q] # None /\ m.step \in held[q]
  BY <1>1, RevealFindsItsStep
<1> DEFINE walls == barriers[q] \cup IF m.barrier # None THEN {m.barrier} ELSE {}
           caught == m.claim # None /\ m.claim = AnsweringCell(q, walls)
<1>3. /\ requests' = requests \ {m}
      /\ barriers' = [barriers EXCEPT ![q] = walls]
      /\ iAmCaught' = [iAmCaught EXCEPT ![q] = @ \/ caught]
      /\ reply' = IF pc[m.from] = "reveal"
                    THEN [reply EXCEPT ![m.from] = [caught |-> caught, records |-> {}]]
                    ELSE reply
      /\ seen' = [seen EXCEPT ![q] = @ + 1]
      /\ UNCHANGED <<pc, turn, capturedOpponent, pos, pending, records>>
  BY <1>1, <1>2 DEF ServeReveal, Serve, runner
<1>4. barriers'[q] = walls
  BY <1>3 DEF Inv, TypeOK
<1>5. walls = barriers[q] \cup ({m.barrier} \ {None})
  OBVIOUS
<1>6. barriers' = [barriers EXCEPT ![q] = @ \cup ({m.barrier} \ {None})]
  BY <1>3, <1>5
<1> HIDE DEF walls
<1>7. QED
  BY <1>1, <1>2, <1>3, <1>4, <1>6 DEF ServedReveal

-----------------------------------------------------------------------------
(* What is told is what was sealed. *)

LEMMA ThiefBuildsNothing ==
    ASSUME Inv, NEW d \in Decisions(Thief)
    PROVE  d.barrier = None
BY PeersAreTwo DEF Decisions

LEMMA InitTold == Init => Told
BY PeersAreTwo DEF Init, Told

LEMMA ToldIsKept == Inv /\ Inv' /\ Told /\ [Next]_vars => Told'
<1> SUFFICES ASSUME Inv, Inv', Told, [Next]_vars
             PROVE  Told'
  OBVIOUS
<1> USE PeersAreTwo
<1>0. /\ pending \in [Peers -> PendingSteps \cup {None}] /\ barriers \in [Peers -> SUBSET Cells]
      /\ pos \in [Peers -> Cells] /\ None \notin PendingSteps
      /\ \A m \in requests : m.from \in Peers
  BY NoneIsNoValue, RequestFields DEF Inv, TypeOK
<1>1. ASSUME NEW p \in Peers, Begins(p)
      PROVE  Told'
  <2>1. PICK d \in Decisions(p) : pending' = [pending EXCEPT ![p] = d]
    BY <1>1 DEF Begins
  <2>2. p = Thief => d.barrier = None
    BY ThiefBuildsNothing
  <2>3. \A m \in requests' : m.kind = "reveal" => m \in requests /\ m.from # p
    BY <1>1 DEF Begins, Told
  <2>4. \A m \in requests : m.kind = "reveal" /\ m.from # p =>
            pending'[m.from] = pending[m.from] /\ CaptureClaim(m.from)' = CaptureClaim(m.from)
    BY <1>0, <1>1, <2>1 DEF Begins, CaptureClaim, PendingCell
  <2>5. QED
    BY <1>0, <2>1, <2>2, <2>3, <2>4 DEF Told
<1>2. ASSUME NEW p \in Peers, SendReveal(p)
      PROVE  Told'
  <2> DEFINE n == [from |-> p, kind |-> "reveal", step |-> turn[p],
                   barrier |-> pending[p].barrier, claim |-> CaptureClaim(p)]
  <2>1. requests' = requests \cup {n} /\ UNCHANGED <<pos, barriers, pending>>
    BY <1>2 DEF SendReveal, Call, world
  <2>2. pending[p] # None
    BY <1>2 DEF SendReveal, Inv, Stage, Playing
  <2>3. n.from = p /\ n.kind = "reveal" /\ n.barrier = pending[p].barrier /\ n.claim = CaptureClaim(p)
    OBVIOUS
  <2>4. \A x \in Peers : CaptureClaim(x)' = CaptureClaim(x)
    BY <2>1 DEF CaptureClaim, PendingCell
  <2> HIDE DEF n
  <2>5. QED
    BY <1>0, <2>1, <2>2, <2>3, <2>4 DEF Told
<1>3. ASSUME NEW p \in Peers, ApplyOwnStep(p)
      PROVE  Told'
  <2>1. /\ pc[p] = "awaitReveal" /\ pending' = [pending EXCEPT ![p] = None]
        /\ \A m \in requests' : m.kind = "reveal" => m \in requests
        /\ \A x \in Peers \ {p} : pos'[x] = pos[x] /\ barriers'[x] = barriers[x]
    BY <1>0, <1>3 DEF ApplyOwnStep, ApplyStep, Call
  <2>2. \A m \in requests : m.kind = "reveal" => m.from # p
    BY <2>1 DEF Inv, Shown, Leaving
  <2>3. \A x \in Peers \ {p} : pending'[x] = pending[x] /\ CaptureClaim(x)' = CaptureClaim(x)
    BY <1>0, <2>1 DEF CaptureClaim, PendingCell
  <2>4. QED
    BY <1>0, <2>1, <2>2, <2>3 DEF Told
<1>4. ASSUME NEW q \in Peers, NEW m \in requests, ServeReveal(q, m)
      PROVE  Told'
  <2>1. ServedReveal(q, m)
    BY <1>4, ServeRevealEffect
  <2>2. CaptureClaim(Cop)' = CaptureClaim(Cop)
    <3>1. barriers'[Cop] = barriers[Cop]
      <4>1. CASE q = Thief
        BY <1>0, <2>1, <4>1 DEF ServedReveal
      <4>2. CASE q = Cop
        <5>1. m.barrier = None
          BY <2>1, <4>2 DEF ServedReveal, Told
        <5>2. QED
          BY <1>0, <2>1, <4>2, <5>1 DEF ServedReveal
      <4>3. QED
        BY <4>1, <4>2
    <3>2. QED
      BY <2>1, <3>1 DEF CaptureClaim, PendingCell, ServedReveal
  <2>3. CaptureClaim(Thief)' = None /\ CaptureClaim(Thief) = None
    BY DEF CaptureClaim
  <2>4. QED
    BY <1>0, <2>1, <2>2, <2>3 DEF Told, ServedReveal
<1>5. ASSUME UNCHANGED <<pos, barriers, pending>>,
             \A m \in requests' : m.kind = "reveal" => m \in requests
      PROVE  Told'
  <2>1. \A x \in Peers : CaptureClaim(x)' = CaptureClaim(x)
    BY <1>5 DEF CaptureClaim, PendingCell
  <2>2. QED
    BY <1>0, <1>5, <2>1 DEF Told
<1>6. ASSUME NEW p \in Peers, RevealAnswered(p)
      PROVE  Told'
  BY <1>5, <1>6 DEF RevealAnswered, world
<1>7. CASE Quiet
  BY <1>5, <1>7 DEF Quiet
<1>8. QED
  BY <1>1, <1>2, <1>3, <1>4, <1>6, <1>7, BeginEffect, QuietSteps

-----------------------------------------------------------------------------
(* The boards. *)

LEMMA InitWalls == Init => Walls
BY PeersAreTwo DEF Init, Walls, Promised

LEMMA WallsAreKept == Inv /\ Inv' /\ Told /\ Walls /\ [Next]_vars => Walls'
<1> SUFFICES ASSUME Inv, Inv', Told, Walls, [Next]_vars
             PROVE  Walls'
  OBVIOUS
<1> USE PeersAreTwo
<1>0. /\ pending \in [Peers -> PendingSteps \cup {None}] /\ barriers \in [Peers -> SUBSET Cells]
      /\ turn \in [Peers -> 0 .. MaxMoves] /\ seen \in [Peers -> Nat]
      /\ None \notin PendingSteps /\ None \notin Cells /\ MaxMoves \in Nat
  BY NoneIsNoValue, ProtocolAssumption DEF Inv, TypeOK
<1>1. ASSUME NEW p \in Peers, Begins(p)
      PROVE  Walls'
  <2>1. UNCHANGED <<barriers, seen>> /\ pending[p] = None
    BY <1>1 DEF Begins
  <2>2. CASE p = Cop
    <3>1. seen[Thief] = turn[Cop]
      BY <1>1, <2>2 DEF Begins, Inv, Shown, Stage
    <3>2. turn'[Cop] = turn[Cop] + 1
      BY <1>0, <1>1, <2>2 DEF Begins
    <3>3. Promised' = {} /\ Promised = {}
      BY <1>0, <2>1, <2>2, <3>1, <3>2 DEF Promised
    <3>4. QED
      BY <2>1, <3>3 DEF Walls
  <2>3. CASE p = Thief
    <3>1. pending'[Cop] = pending[Cop] /\ turn'[Cop] = turn[Cop]
      BY <1>0, <1>1, <2>3 DEF Begins
    <3>2. QED
      BY <2>1, <3>1 DEF Walls, Promised
  <2>4. QED
    BY <2>2, <2>3
<1>2. ASSUME NEW p \in Peers, ApplyOwnStep(p)
      PROVE  Walls'
  <2>1. /\ pc[p] = "awaitReveal" /\ pending' = [pending EXCEPT ![p] = None]
        /\ UNCHANGED <<seen, turn>>
    BY <1>2 DEF ApplyOwnStep, ApplyStep, runner, opponent
  <2>2. pending[p] # None
    BY <2>1 DEF Inv, Stage, Playing
  <2>3. barriers' = [barriers EXCEPT ![p] = @ \cup ({pending[p].barrier} \ {None})]
    <3>1. CASE pending[p].barrier = None
      BY <1>0, <1>2, <3>1 DEF ApplyOwnStep, ApplyStep
    <3>2. CASE pending[p].barrier # None
      BY <1>0, <1>2, <3>2 DEF ApplyOwnStep, ApplyStep
    <3>3. QED
      BY <3>1, <3>2
  <2>4. CASE p = Cop
    <3>1. seen[Thief] = turn[Cop]
      BY <2>1, <2>4 DEF Inv, Shown
    <3>2. QED
      BY <1>0, <2>1, <2>2, <2>3, <2>4, <3>1 DEF Walls, Promised
  <2>5. CASE p = Thief
    <3>1. pending[p].barrier = None
      BY <2>2, <2>5 DEF Told
    <3>2. barriers'[Thief] = barriers[Thief] /\ barriers'[Cop] = barriers[Cop]
      BY <1>0, <2>3, <2>5, <3>1
    <3>3. QED
      BY <1>0, <2>1, <2>5, <3>2 DEF Walls, Promised
  <2>6. QED
    BY <2>4, <2>5
<1>3. ASSUME NEW q \in Peers, NEW m \in requests, ServeReveal(q, m)
      PROVE  Walls'
  <2>1. ServedReveal(q, m)
    BY <1>3, ServeRevealEffect
  <2>2. CASE q = Cop
    <3>1. m.barrier = None
      BY <2>1, <2>2 DEF ServedReveal, Told
    <3>2. UNCHANGED <<pending, turn>> /\ seen'[Thief] = seen[Thief]
          /\ barriers'[Cop] = barriers[Cop] /\ barriers'[Thief] = barriers[Thief]
      BY <1>0, <2>1, <2>2, <3>1 DEF ServedReveal
    <3>3. QED
      BY <3>2 DEF Walls, Promised
  <2>3. CASE q = Thief
    <3>1. /\ pending[Cop] # None /\ m.barrier = pending[Cop].barrier
          /\ turn[Thief] = turn[Cop] /\ seen[Thief] = turn[Thief] - 1
      BY <2>1, <2>3 DEF ServedReveal, Told
    <3>2. /\ UNCHANGED <<pending, turn>> /\ seen'[Thief] = seen[Thief] + 1
          /\ barriers'[Thief] = barriers[Thief] \cup ({m.barrier} \ {None})
          /\ barriers'[Cop] = barriers[Cop]
      BY <1>0, <2>1, <2>3 DEF ServedReveal
    <3>3. Promised = {} /\ Promised' = {m.barrier} \ {None}
      BY <1>0, <3>1, <3>2 DEF Promised
    <3>4. QED
      BY <3>2, <3>3 DEF Walls
  <2>4. QED
    BY <2>2, <2>3
<1>4. ASSUME UNCHANGED <<barriers, pending, turn, seen>>
      PROVE  Walls'
  BY <1>4 DEF Walls, Promised
<1>5. ASSUME NEW p \in Peers, SendReveal(p) \/ RevealAnswered(p)
      PROVE  Walls'
  BY <1>4, <1>5 DEF SendReveal, RevealAnswered, runner, world, opponent
<1>6. CASE Quiet
  BY <1>4, <1>6 DEF Quiet
<1>7. QED
  BY <1>1, <1>2, <1>3, <1>5, <1>6, BeginEffect, QuietSteps

THEOREM BoardInvariance == Spec => [](Told /\ Walls)
BY InitTold, InitWalls, ToldIsKept, WallsAreKept, Invariance, PTL DEF Spec

\* The two private boards agree: the thief has every wall the cop has built and at
\* most the one the cop has sealed but not applied yet (apply_opponent_move).
THEOREM BoardsStayTogether == Spec => []BoardsAgree
<1>1. Walls => BoardsAgree
  BY DEF Walls, Promised, BoardsAgree
<1>2. QED
  BY <1>1, BoardInvariance, PTL

-----------------------------------------------------------------------------
(* Concessions. *)

LEMMA TypesOfPlay ==
    ASSUME Inv
    PROVE  /\ pending \in [Peers -> PendingSteps \cup {None}]
           /\ pos \in [Peers -> Cells] /\ barriers \in [Peers -> SUBSET Cells]
           /\ pc \in [Peers -> PCs] /\ reply \in [Peers -> Replies \cup {None}]
           /\ turn \in [Peers -> 0 .. MaxMoves] /\ seen \in [Peers -> Nat]
           /\ iAmCaught \in [Peers -> BOOLEAN] /\ capturedOpponent \in [Peers -> BOOLEAN]
           /\ None \notin PendingSteps /\ None \notin Cells /\ None \notin Replies
           /\ MaxMoves \in Nat
BY NoneIsNoValue, ProtocolAssumption DEF Inv, TypeOK

\* What the cop's reveal finds: nobody has conceded yet.
LEMMA RevealFindsNoConcession ==
    ASSUME Inv, Told, Known, NEW m \in requests, ServedReveal(Thief, m)
    PROVE  /\ ~iAmCaught[Thief]
           /\ m.from = Cop /\ pending[Cop] # None /\ pending[Thief] # None
           /\ m.barrier = pending[Cop].barrier
           /\ m.claim = PendingCell(Cop, barriers[Cop])
           /\ pc[Cop] \notin {"start", "awaitReveal", "scent"}
<1> USE PeersAreTwo, TypesOfPlay
<1>1. m.from = Cop /\ m.kind = "reveal" /\ pending[Cop] # None /\ pending[Thief] # None
      /\ m.barrier = pending[Cop].barrier /\ m.claim = CaptureClaim(Cop)
  BY DEF ServedReveal, Told
<1>2. seen[Thief] # turn[Cop]
  BY <1>1 DEF ServedReveal
<1>3. pc[Cop] \notin {"start", "awaitReveal", "scent"}
  BY <1>1, <1>2 DEF Inv, Shown, Stage
<1>4. QED
  BY <1>1, <1>2, <1>3 DEF Known, CaptureClaim

\* The thief's reveal claims nothing.
LEMMA ThiefClaimsNothing ==
    ASSUME Inv, Told, NEW m \in requests, ServedReveal(Cop, m)
    PROVE  m.from = Thief /\ m.claim = None /\ m.barrier = None
BY PeersAreTwo DEF ServedReveal, Told, CaptureClaim

LEMMA InitKnown == Init => Known
BY PeersAreTwo DEF Init, Known

\* A peer that begins a step has conceded nothing, nor been conceded anything.
LEMMA NobodyBeginsCaught ==
    ASSUME Inv, Known, NEW p \in Peers, Begins(p)
    PROVE  ~iAmCaught[Thief]
<1> USE PeersAreTwo, TypesOfPlay
<1>1. CASE p = Cop
  BY <1>1 DEF Begins, Known, Captured
<1>2. CASE p = Thief /\ pc[Thief] = "scent"
  BY <1>2 DEF Begins, Captured
<1>3. CASE p = Thief /\ pc[Thief] = "start" /\ pc[Cop] # "start"
  <2>1. turn[Cop] \in Turns
    BY <1>3 DEF Inv, Stage
  <2>2. turn[Thief] = 0 /\ seen[Thief] <= turn[Thief]
    BY <1>3 DEF Inv, Stage, Abreast
  <2>3. seen[Thief] # turn[Cop]
    BY <2>1, <2>2 DEF Turns
  <2>4. QED
    BY <2>3 DEF Known
<1>4. CASE pc[Cop] = "start"
  BY <1>4 DEF Known
<1>5. QED
  BY <1>1, <1>2, <1>3, <1>4 DEF Begins

LEMMA KnownIsKept == Inv /\ Inv' /\ Told /\ Known /\ [Next]_vars => Known'
<1> SUFFICES ASSUME Inv, Inv', Told, Known, [Next]_vars
             PROVE  Known'
  OBVIOUS
<1> USE PeersAreTwo
<1>1. ASSUME NEW p \in Peers, Begins(p)
      PROVE  Known'
  <2>1. ~iAmCaught[Thief] /\ UNCHANGED <<iAmCaught, capturedOpponent, seen>>
    BY <1>1, NobodyBeginsCaught DEF Begins
  <2>2. pc'[p] = "commit" /\ \A x \in Peers : x # p => pc'[x] = pc[x] /\ reply'[x] = reply[x]
    BY <1>1, TypesOfPlay DEF Begins
  <2>3. CASE p = Cop
    BY <2>1, <2>2, <2>3 DEF Known
  <2>4. CASE p = Thief
    <3>1. turn'[Cop] = turn[Cop]
      BY <1>1, <2>4, TypesOfPlay DEF Begins
    <3>2. QED
      BY <2>1, <2>2, <2>4, <3>1 DEF Known
  <2>5. QED
    BY <2>3, <2>4
<1>2. ASSUME NEW p \in Peers, SendReveal(p)
      PROVE  Known'
  <2>1. /\ pc' = [pc EXCEPT ![p] = "reveal"] /\ reply' = [reply EXCEPT ![p] = None]
        /\ UNCHANGED <<iAmCaught, capturedOpponent, seen, turn>>
    BY <1>2 DEF SendReveal, Call, runner, opponent
  <2>2. QED
    BY <2>1, TypesOfPlay DEF Known
<1>3. ASSUME NEW p \in Peers, RevealAnswered(p)
      PROVE  Known'
  <2>1. /\ pc[p] = "reveal" /\ reply[p] # None /\ pc' = [pc EXCEPT ![p] = "awaitReveal"]
        /\ capturedOpponent' = [capturedOpponent EXCEPT ![p] = reply[p].caught]
        /\ UNCHANGED <<iAmCaught, seen, turn, reply>>
    BY <1>3 DEF RevealAnswered, Returned, opponent
  <2>2. CASE p = Cop
    BY <2>1, <2>2, TypesOfPlay DEF Known
  <2>3. CASE p = Thief
    BY <2>1, <2>3, TypesOfPlay DEF Known
  <2>4. QED
    BY <2>2, <2>3
<1>4. ASSUME NEW p \in Peers, ApplyOwnStep(p)
      PROVE  Known'
  <2>1. /\ pc[p] = "awaitReveal" /\ pc' = [pc EXCEPT ![p] = "scent"]
        /\ reply' = [reply EXCEPT ![p] = None]
        /\ UNCHANGED <<iAmCaught, capturedOpponent, seen, turn>>
    BY <1>4 DEF ApplyOwnStep, ApplyStep, Call, runner, opponent
  <2>2. QED
    BY <2>1, TypesOfPlay DEF Known
<1>5. ASSUME NEW q \in Peers, NEW m \in requests, ServeReveal(q, m)
      PROVE  Known'
  <2> DEFINE caught == m.claim # None /\ m.claim = AnsweringCell(q, barriers'[q])
             r == [caught |-> caught, records |-> {}]
  <2>1. /\ ServedReveal(q, m)
        /\ iAmCaught' = [iAmCaught EXCEPT ![q] = @ \/ caught]
        /\ reply' = IF pc[m.from] = "reveal" THEN [reply EXCEPT ![m.from] = r] ELSE reply
    BY <1>5, ServeRevealEffect
  <2>2. r.caught = caught
    OBVIOUS
  <2> HIDE DEF caught, r
  <2>3. CASE q = Cop
    <3>1. m.from = Thief /\ ~caught
      BY <2>1, <2>3, ThiefClaimsNothing DEF caught
    <3>2. iAmCaught'[Cop] = iAmCaught[Cop] /\ iAmCaught'[Thief] = iAmCaught[Thief]
      BY <2>1, <2>3, <3>1, TypesOfPlay
    <3>3. UNCHANGED <<pc, turn, capturedOpponent>> /\ seen'[Thief] = seen[Thief]
      BY <2>1, <2>3, TypesOfPlay DEF ServedReveal
    <3>4. reply'[Cop] = reply[Cop] /\ (pc[Thief] = "reveal" => ~reply'[Thief].caught)
      BY <2>1, <2>2, <3>1, TypesOfPlay
    <3>5. QED
      BY <3>2, <3>3, <3>4 DEF Known
  <2>4. CASE q = Thief
    <3>1. /\ m.from = Cop /\ ~iAmCaught[Thief]
          /\ pc[Cop] \notin {"start", "awaitReveal", "scent"}
      BY <2>1, <2>4, RevealFindsNoConcession
    <3>2. iAmCaught'[Cop] = iAmCaught[Cop] /\ iAmCaught'[Thief] = caught
      BY <2>1, <2>4, <3>1, TypesOfPlay DEF caught
    <3>3. /\ UNCHANGED <<pc, turn, capturedOpponent>>
          /\ seen'[Thief] = seen[Thief] + 1 /\ seen[Thief] = turn[Thief] - 1
          /\ turn[Cop] = turn[Thief]
      BY <2>1, <2>4, <3>1, TypesOfPlay DEF ServedReveal
    <3>4. seen'[Thief] = turn'[Cop]
      BY <3>3, TypesOfPlay
    <3>5. reply'[Thief] = reply[Thief] /\ (pc[Cop] = "reveal" => reply'[Cop].caught = caught)
      BY <2>1, <2>2, <3>1, TypesOfPlay
    <3>6. QED
      BY <3>1, <3>2, <3>3, <3>4, <3>5 DEF Known
  <2>5. QED
    BY <2>3, <2>4
<1>6. CASE Quiet
  BY <1>6 DEF Quiet, Known
<1>7. QED
  BY <1>1, <1>2, <1>3, <1>4, <1>5, <1>6, BeginEffect, QuietSteps

LEMMA InitConceded == Init => Conceded
BY PeersAreTwo DEF Init, Conceded, Cell, AnsweringCell

\* A decision aims at the own cell or at a free one.
LEMMA AimIsFree ==
    ASSUME Inv, NEW p \in Peers, NEW d \in Decisions(p)
    PROVE  d.aim = pos[p] \/ d.aim \notin barriers[p]
BY DEF Decisions, LegalMoves, Steps, Passable

LEMMA ConcededIsKept ==
    Inv /\ Inv' /\ Told /\ Walls /\ Known /\ Conceded /\ [Next]_vars => Conceded'
<1> SUFFICES ASSUME Inv, Inv', Told, Walls, Known, Conceded, [Next]_vars
             PROVE  Conceded'
  OBVIOUS
<1> USE PeersAreTwo
<1>1. ASSUME NEW p \in Peers, Begins(p)
      PROVE  Conceded'
  <2>1. /\ ~iAmCaught[Thief] /\ UNCHANGED <<iAmCaught, pos, barriers, seen>>
        /\ pending[p] = None
    BY <1>1, NobodyBeginsCaught DEF Begins
  <2>2. PICK d \in Decisions(p) : pending' = [pending EXCEPT ![p] = d]
    BY <1>1 DEF Begins
  <2>3. CASE p = Cop
    <3>1. pending'[Thief] = pending[Thief] /\ turn'[Thief] = turn[Thief]
      BY <1>1, <2>2, <2>3, TypesOfPlay DEF Begins
    <3>2. Cell' = Cell
      BY <2>1, <3>1 DEF Cell, AnsweringCell, PendingCell
    <3>3. QED
      BY <2>1, <3>1, <3>2 DEF Conceded
  <2>4. CASE p = Thief
    <3>1. pending'[Thief] = d /\ d.barrier = None /\ d # None
      BY <2>2, <2>4, TypesOfPlay, ThiefBuildsNothing, DecisionsAreSteps DEF Inv
    <3>2. pos[Thief] \notin barriers[Thief]
      BY <2>1, <2>4 DEF Conceded, Cell, AnsweringCell
    <3>3. d.aim \notin barriers[Thief]
      BY <2>4, <3>2, AimIsFree
    <3>4. Cell' \notin barriers[Thief]
      BY <2>1, <3>1, <3>2, <3>3 DEF Cell, AnsweringCell, PendingCell, SettleMove
    <3>5. QED
      BY <2>1, <3>1, <3>2, <3>3, <3>4 DEF Conceded
  <2>5. QED
    BY <2>3, <2>4
<1>2. ASSUME NEW p \in Peers, ApplyOwnStep(p)
      PROVE  Conceded'
  <2>1. /\ pc[p] = "awaitReveal" /\ pending' = [pending EXCEPT ![p] = None]
        /\ UNCHANGED <<seen, turn, iAmCaught>> /\ seen[p] >= turn[p]
    BY <1>2 DEF ApplyOwnStep, ApplyStep, runner, opponent
  <2>2. pending[p] # None
    BY <2>1 DEF Inv, Stage, Playing
  <2>3. CASE p = Thief
    <3>1. pending[Thief].barrier = None /\ pending'[Thief] = None
          /\ pending'[Cop] = pending[Cop]
      BY <2>1, <2>2, <2>3, TypesOfPlay DEF Told
    <3>2. UNCHANGED barriers /\ pos'[Thief] = PendingCell(Thief, barriers[Thief])
          /\ pos'[Cop] = pos[Cop]
      BY <1>2, <2>3, <3>1, TypesOfPlay DEF ApplyOwnStep, ApplyStep, PendingCell
    <3>3. Cell' = Cell
      BY <2>2, <2>3, <3>1, <3>2 DEF Cell, AnsweringCell
    <3>4. seen[Thief] = turn[Thief]
      BY <2>1, <2>3, TypesOfPlay DEF Inv, Abreast
    <3>5. PendingCell(Cop, barriers[Cop])' = PendingCell(Cop, barriers[Cop])
      BY <3>1, <3>2 DEF PendingCell
    <3>6. QED
      BY <2>1, <3>1, <3>2, <3>3, <3>4, <3>5 DEF Conceded
  <2>4. CASE p = Cop
    <3>1. pending'[Cop] = None /\ pending'[Thief] = pending[Thief]
      BY <2>1, <2>4, TypesOfPlay
    <3>2. pos'[Thief] = pos[Thief] /\ barriers'[Thief] = barriers[Thief]
      BY <1>2, <2>4, TypesOfPlay DEF ApplyOwnStep, ApplyStep
    <3>3. Cell' = Cell
      BY <3>1, <3>2 DEF Cell, AnsweringCell, PendingCell
    <3>4. PendingCell(Cop, barriers[Cop]) \in barriers[Thief] \cup {pos'[Cop]}
      <4>1. CASE pending[Cop].barrier = None
        BY <1>2, <2>4, <4>1, TypesOfPlay DEF ApplyOwnStep, ApplyStep, PendingCell
      <4>2. CASE pending[Cop].barrier # None
        <5>1. seen[Thief] = turn[Cop]
          BY <2>1, <2>4 DEF Inv, Shown
        <5>2. QED
          BY <2>2, <2>4, <4>2, <5>1 DEF Walls, Promised, PendingCell
      <4>3. QED
        BY <4>1, <4>2
    <3>5. iAmCaught[Thief] => Cell \in barriers[Thief] \cup {pos'[Cop]}
      BY <2>2, <2>4, <3>4 DEF Conceded
    <3>6. QED
      BY <2>1, <3>1, <3>2, <3>3, <3>5 DEF Conceded
  <2>5. QED
    BY <2>3, <2>4
<1>3. ASSUME NEW q \in Peers, NEW m \in requests, ServeReveal(q, m)
      PROVE  Conceded'
  <2> DEFINE caught == m.claim # None /\ m.claim = AnsweringCell(q, barriers'[q])
  <2>1. ServedReveal(q, m) /\ iAmCaught' = [iAmCaught EXCEPT ![q] = @ \/ caught]
    BY <1>3, ServeRevealEffect
  <2> HIDE DEF caught
  <2>2. CASE q = Cop
    <3>1. m.barrier = None /\ ~caught
      BY <2>1, <2>2, ThiefClaimsNothing DEF caught
    <3>2. /\ iAmCaught'[Thief] = iAmCaught[Thief] /\ UNCHANGED <<pos, pending, turn>>
          /\ seen'[Thief] = seen[Thief] /\ barriers'[Thief] = barriers[Thief]
          /\ barriers'[Cop] = barriers[Cop]
      BY <2>1, <2>2, <3>1, TypesOfPlay DEF ServedReveal
    <3>3. Cell' = Cell /\ PendingCell(Cop, barriers[Cop])' = PendingCell(Cop, barriers[Cop])
      BY <3>2 DEF Cell, AnsweringCell, PendingCell
    <3>4. QED
      BY <3>2, <3>3 DEF Conceded
  <2>3. CASE q = Thief
    <3>1. /\ m.from = Cop /\ ~iAmCaught[Thief] /\ pending[Cop] # None /\ pending[Thief] # None
          /\ m.barrier = pending[Cop].barrier
          /\ m.claim = PendingCell(Cop, barriers[Cop])
      BY <2>1, <2>3, RevealFindsNoConcession
    <3>2. /\ UNCHANGED <<pos, pending, turn>> /\ barriers'[Cop] = barriers[Cop]
          /\ barriers'[Thief] = barriers[Thief] \cup ({m.barrier} \ {None})
          /\ seen[Thief] = turn[Thief] - 1 /\ seen'[Thief] = turn[Thief]
      BY <2>1, <2>3, TypesOfPlay DEF ServedReveal
    <3>3. Cell' = AnsweringCell(Thief, barriers'[Thief])
      BY <3>2 DEF Cell, AnsweringCell, PendingCell
    <3>4. iAmCaught'[Thief] = caught
      BY <2>1, <2>3, <3>1, TypesOfPlay DEF caught
    <3>5. caught => Cell' = PendingCell(Cop, barriers[Cop])'
      <4>1. PendingCell(Cop, barriers[Cop])' = PendingCell(Cop, barriers[Cop])
        BY <3>2 DEF PendingCell
      <4>2. QED
        BY <2>3, <3>1, <3>3, <4>1 DEF caught
    <3>6. Cell' \in barriers'[Thief] => caught
      <4>1. pending[Thief].barrier = None
        BY <3>1 DEF Told
      <4>2. pos[Thief] \notin barriers[Thief] /\ pending[Thief].aim \notin barriers[Thief]
        BY <3>1, <3>2, TypesOfPlay DEF Conceded
      <4>3. Cell' \in {pos[Thief], pending[Thief].aim}
        BY <3>1, <3>3, <4>1 DEF AnsweringCell, PendingCell, SettleMove
      <4>4. ASSUME Cell' \in barriers'[Thief]
            PROVE  caught
        <5>1. Cell' = m.barrier /\ m.barrier # None
          BY <3>2, <4>2, <4>3, <4>4
        <5>2. m.claim = m.barrier
          BY <3>1, <5>1 DEF PendingCell
        <5>3. QED
          BY <2>3, <3>3, <5>1, <5>2 DEF caught
      <4>5. QED
        BY <4>4
    <3>7. QED
      BY <3>1, <3>2, <3>4, <3>5, <3>6 DEF Conceded
  <2>4. QED
    BY <2>2, <2>3
<1>4. ASSUME UNCHANGED <<pos, barriers, pending, turn, seen, iAmCaught>>
      PROVE  Conceded'
  BY <1>4 DEF Conceded, Cell, AnsweringCell, PendingCell
<1>5. ASSUME NEW p \in Peers, SendReveal(p) \/ RevealAnswered(p)
      PROVE  Conceded'
  BY <1>4, <1>5 DEF SendReveal, RevealAnswered, runner, world, opponent
<1>6. CASE Quiet
  BY <1>4, <1>6 DEF Quiet
<1>7. QED
  BY <1>1, <1>2, <1>3, <1>5, <1>6, BeginEffect, QuietSteps

THEOREM ConcessionInvariance == Spec => [](Known /\ Conceded)
BY InitKnown, InitConceded, KnownIsKept, ConcededIsKept, BoardInvariance, Invariance, PTL
DEF Spec

\* A concession is true, and a walled-in thief always makes it (capture_claim,
\* on_reveal, answer_capture_claim).
THEOREM ConcessionsAreTrue == Spec => []ConcessionIsTrue
<1>1. Conceded => ConcessionIsTrue
  BY DEF Conceded, Cell, AnsweringCell, ConcessionIsTrue, BetweenSteps
<1>2. QED
  BY <1>1, ConcessionInvariance, PTL

-----------------------------------------------------------------------------
(* Chains and the news of an ending. *)

LEMMA TypesOfEndings ==
    ASSUME Inv
    PROVE  /\ records \in [Peers -> SUBSET Turns] /\ held \in [Peers -> SUBSET Turns]
           /\ outcome \in [Peers -> Outcomes \cup {None}]
           /\ oppFinished \in [Peers -> Outcomes \cup {None}]
           /\ lastAudit \in [Peers -> Audits \cup {None}]
           /\ verdict \in [Peers -> Audits \cup {None}]
           /\ requests \subseteq Requests /\ faults \in 0 .. MaxFaults
           /\ None \notin Outcomes /\ None \notin Audits /\ MaxFaults \in Nat
BY NoneIsNoValue, ProtocolAssumption DEF Inv, TypeOK

\* A step that ends nothing and tells of no ending.
Goes(p) ==
    /\ UNCHANGED <<turn, outcome, oppFinished>>
    /\ \A x \in Peers : Disclosed(x)' = Disclosed(x) /\ held[x] \subseteq held'[x]
    /\ \A x \in Peers : x # p => pc'[x] = pc[x]
    /\ pc[p] \in Leaving => pc'[p] \in Leaving
    /\ pc[p] \in Parting => pc'[p] \in Parting
    /\ pc'[p] = "final" => pc[p] = "final"
    /\ \A x \in Peers : pc[x] = "final" => pending'[x] = pending[x]
    /\ \A m \in requests' : m.kind = "final" => m \in requests

LEMMA GoesKeepsChains ==
    ASSUME Inv, Chains, NEW p \in Peers, Goes(p)
    PROVE  Chains'
BY TypesOfEndings, OtherIsAPeer DEF Chains, Goes

\* p leaves the loop, with an ending o of its own or with the other's.
Ends(p, o) ==
    /\ pc[p] \notin Leaving \cup {"start"} /\ o \in Outcomes
    /\ pc[p] = "scent" \/ oppFinished[p] = o
    /\ Conclude(p, o)

LEMMA EndsEffect ==
    ASSUME Inv, NEW p \in Peers,
           EndByCapture(p) \/ EndBySurvival(p) \/ OpponentEnded(p)
             \/ (CallFails(p) /\ oppFinished[p] # None)
    PROVE  \E o \in Outcomes : Ends(p, o)
<1> USE TypesOfEndings
<1>1. CASE EndByCapture(p)
  BY <1>1 DEF EndByCapture, Returned, Ends, Leaving, Outcomes
<1>2. CASE EndBySurvival(p)
  BY <1>2 DEF EndBySurvival, Returned, Ends, Leaving, Outcomes
<1>3. CASE OpponentEnded(p)
  BY <1>3 DEF OpponentEnded, Awaits, Ends, Leaving
<1>4. CASE CallFails(p) /\ oppFinished[p] # None
  BY <1>4 DEF CallFails, Ends, Leaving
<1>5. QED
  BY <1>1, <1>2, <1>3, <1>4

\* p gives the sub-game up.
GivesUp(p) == pc[p] \notin Leaving \cup {"start"} /\ oppFinished[p] = None /\ Abort(p) /\ Fault(p)

LEMMA GivesUpEffect ==
    ASSUME NEW p \in Peers, AwaitExpires(p) \/ (CallFails(p) /\ oppFinished[p] = None)
    PROVE  GivesUp(p)
BY DEF AwaitExpires, CallFails, GivesUp, Awaits, Leaving

LEMMA InitChains == Init => Chains
<1> SUFFICES ASSUME Init, NEW p \in Peers
             PROVE  Chains!(p)
  BY DEF Chains
<1>1. QED
  BY OtherIsAPeer DEF Init, Disclosed

LEMMA BeginsKeepsChains ==
    ASSUME Inv, Inv', Chains, NEW p \in Peers, Begins(p)
    PROVE  Chains'
<1> USE OtherIsAPeer, TypesOfPlay, TypesOfEndings
<1>1. /\ pc[p] \notin Leaving /\ pc'[p] = "commit" /\ turn'[p] = turn[p] + 1
      /\ UNCHANGED <<outcome, oppFinished, held, records>>
      /\ \A x \in Peers : x # p => pc'[x] = pc[x] /\ turn'[x] = turn[x] /\ pending'[x] = pending[x]
      /\ \A m \in requests' : m.kind = "final" => m \in requests
  BY DEF Begins, Leaving
<1>2. outcome[p] = None /\ oppFinished[Other(p)] = None
  BY <1>1 DEF Chains, Leaving, Parting
<1>3. \A m \in requests' : m.kind = "final" => m.from # p
  BY <1>1 DEF Chains, Leaving, Parting
<1>4. 1 .. turn'[p] - 1 \subseteq held'[Other(p)]
  <2>1. turn'[p] - 1 = turn[p]
    BY <1>1
  <2>2. turn[p] = 0 \/ turn[p] \in held[Other(p)]
    BY DEF Begins, Inv, Committed
  <2>3. 1 .. turn[p] \subseteq held[Other(p)]
    BY <2>2 DEF Chains
  <2>4. QED
    BY <1>1, <2>1, <2>3
<1>5. Disclosed(p)' = 1 .. turn'[p]
  <2>1. records[p] = 1 .. turn[p]
    BY DEF Begins, Chains, Disclosed
  <2>2. pending'[p] # None
    BY <1>1 DEF Inv, Stage, Playing
  <2>3. Disclosed(p)' = 1 .. turn[p] \cup {turn[p] + 1}
    BY <1>1, <2>1, <2>2 DEF Disclosed
  <2>4. QED
    BY <1>1, <2>3
<1>6. \A x \in Peers : x # p => Disclosed(x)' = Disclosed(x)
  BY <1>1 DEF Disclosed
<1>7. QED
  BY <1>1, <1>2, <1>3, <1>4, <1>5, <1>6 DEF Chains

LEMMA EndsKeepsChains ==
    ASSUME Inv, Inv', Chains, NEW p \in Peers, NEW o, Ends(p, o)
    PROVE  Chains'
<1> USE OtherIsAPeer, TypesOfPlay, TypesOfEndings
<1> DEFINE n == [from |-> p, kind |-> "final", records |-> Disclosed(p), outcome |-> o]
<1>1. /\ pc' = [pc EXCEPT ![p] = "final"] /\ outcome' = [outcome EXCEPT ![p] = o]
      /\ requests' = requests \cup {n}
      /\ UNCHANGED <<turn, oppFinished, held, records, pending>>
  BY DEF Ends, Conclude, Call, world, opponent
<1>2. n.from = p /\ n.records = 1 .. turn[p] /\ n.outcome = o
  BY DEF Chains
<1> HIDE DEF n
<1>3. oppFinished[Other(p)] = None /\ \A m \in requests : m.kind = "final" => m.from # p
  BY DEF Ends, Chains, Leaving, Parting
<1>4. pending[p] = None \/ oppFinished[p] # None
  BY DEF Ends, Inv, Stage
<1>5. \A x \in Peers : Disclosed(x)' = Disclosed(x)
  BY <1>1 DEF Disclosed
<1>6. QED
  BY <1>1, <1>2, <1>3, <1>4, <1>5 DEF Chains, Leaving, Parting

LEMMA GivesUpKeepsChains ==
    ASSUME Inv, Inv', Chains, NEW p \in Peers, GivesUp(p)
    PROVE  Chains'
<1> USE OtherIsAPeer, TypesOfPlay, TypesOfEndings
<1>1. /\ pc' = [pc EXCEPT ![p] = "abort"] /\ outcome' = [outcome EXCEPT ![p] = TechnicalLoss]
      /\ \A m \in requests' : m.kind = "final" => m \in requests
      /\ UNCHANGED <<turn, oppFinished, held, records, pending>>
  BY DEF GivesUp, Abort, Call, world, opponent
<1>2. oppFinished[Other(p)] = None /\ \A m \in requests : m.kind = "final" => m.from # p
  BY DEF GivesUp, Chains, Leaving, Parting
<1>3. \A x \in Peers : Disclosed(x)' = Disclosed(x)
  BY <1>1 DEF Disclosed
<1>4. QED
  BY <1>1, <1>2, <1>3 DEF Chains, Leaving

LEMMA ServeFinalKeepsChains ==
    ASSUME Inv, Inv', Chains, NEW q \in Peers, NEW m \in requests, ServeFinal(q, m)
    PROVE  /\ Chains'
           /\ oppFinished'[q] # None
<1> USE OtherIsAPeer, TypesOfPlay, TypesOfEndings
<1>1. /\ m.from = Other(q) /\ m.kind = "final" /\ requests' = requests \ {m}
      /\ oppFinished' = [oppFinished EXCEPT ![q] = RecordEnding(@, m.outcome)]
      /\ UNCHANGED <<pc, turn, outcome, held, records, pending>>
  BY DEF ServeFinal, Serve, runner, world
<1>2. m.outcome = outcome[Other(q)] /\ pc[Other(q)] \in Parting
  BY <1>1 DEF Chains
<1>3. m.outcome \in Outcomes
  BY <1>1, RequestFields
<1>4. oppFinished'[q] = outcome[Other(q)] /\ oppFinished'[q] # None
  BY <1>1, <1>2, <1>3 DEF RecordEnding, Chains
<1>5. \A x \in Peers : Disclosed(x)' = Disclosed(x)
  BY <1>1 DEF Disclosed
<1>6. QED
  BY <1>1, <1>2, <1>4, <1>5 DEF Chains

\* A step of the loop that changes what a runner or a board holds, but no ending.
LEMMA ApplyGoes ==
    ASSUME Inv, NEW p \in Peers, ApplyOwnStep(p)
    PROVE  Goes(p)
<1> USE TypesOfPlay, TypesOfEndings
<1>1. /\ pc[p] = "awaitReveal" /\ pc' = [pc EXCEPT ![p] = "scent"]
      /\ records' = [records EXCEPT ![p] = @ \cup {turn[p]}]
      /\ pending' = [pending EXCEPT ![p] = None]
      /\ \A m \in requests' : m.kind = "final" => m \in requests
      /\ UNCHANGED <<turn, outcome, oppFinished, held>>
  BY DEF ApplyOwnStep, ApplyStep, Call, runner, opponent
<1>2. pending[p] # None
  BY <1>1 DEF Inv, Stage, Playing
<1>3. \A x \in Peers : Disclosed(x)' = Disclosed(x)
  BY <1>1, <1>2 DEF Disclosed
<1>4. QED
  BY <1>1, <1>3 DEF Goes, Leaving, Parting

LEMMA GoesSteps ==
    ASSUME Inv, [Next]_vars,
           ~ \E p \in Peers : StartSubGame(p) \/ NextStep(p),
           ~ \E p \in Peers : EndByCapture(p) \/ EndBySurvival(p) \/ OpponentEnded(p)
                              \/ AwaitExpires(p) \/ CallFails(p),
           ~ \E q \in Peers, m \in requests : ServeFinal(q, m)
    PROVE  \E p \in Peers : Goes(p)
<1> USE TypesOfPlay, TypesOfEndings
<1>1. ASSUME NEW p \in Peers, Proceed(p) \/ GiveUp(p)
      PROVE  Goes(p)
  <2>1. CASE CommitAnswered(p) \/ SendReveal(p) \/ RevealAnswered(p)
    <3>1. /\ pc[p] \notin Leaving /\ pc'[p] \notin Leaving
          /\ \A x \in Peers : x # p => pc'[x] = pc[x]
          /\ \A m \in requests' : m.kind = "final" => m \in requests
          /\ UNCHANGED <<turn, outcome, oppFinished, records, pending, held>>
      BY <2>1
      DEF CommitAnswered, SendReveal, RevealAnswered, Returned, Call, Leaving, runner, world,
          opponent
    <3>2. \A x \in Peers : Disclosed(x)' = Disclosed(x)
      BY <3>1 DEF Disclosed
    <3>3. QED
      BY <3>1, <3>2 DEF Goes, Leaving, Parting
  <2>2. CASE FinalAnswered(p) \/ AbortAnswered(p) \/ Exit(p) \/ FinalFails(p) \/ AbortFails(p)
    <3>1. /\ pc'[p] \in {"closing", "done"}
          /\ \A x \in Peers : x # p => pc'[x] = pc[x]
          /\ UNCHANGED <<requests, turn, outcome, oppFinished, records, pending, held>>
      BY <2>2
      DEF FinalAnswered, AbortAnswered, Exit, FinalFails, AbortFails, runner, world, opponent
    <3>2. \A x \in Peers : Disclosed(x)' = Disclosed(x)
      BY <3>1 DEF Disclosed
    <3>3. QED
      BY <3>1, <3>2 DEF Goes, Leaving, Parting
  <2>3. QED
    BY <1>1, <2>1, <2>2, ApplyGoes DEF Proceed, GiveUp
<1>2. ASSUME requests' \subseteq requests,
             UNCHANGED <<pc, turn, outcome, oppFinished, records, pending>>,
             \A x \in Peers : held[x] \subseteq held'[x]
      PROVE  Goes(Cop)
  <2>1. \A x \in Peers : Disclosed(x)' = Disclosed(x)
    BY <1>2 DEF Disclosed
  <2>2. QED
    BY <1>2, <2>1, PeersAreTwo DEF Goes
<1>3. ASSUME NEW q \in Peers, NEW m \in requests, Handle(q, m)
      PROVE  Goes(Cop)
  <2>1. CASE ServeCommit(q, m)
    BY <1>2, <2>1 DEF ServeCommit, Serve, runner, world
  <2>2. CASE ServeReveal(q, m) \/ ServeScent(q, m) \/ ServeAbort(q, m)
    BY <1>2, <2>2 DEF ServeReveal, ServeScent, ServeAbort, Serve, runner, world, opponent
  <2>3. QED
    BY <1>3, <2>1, <2>2 DEF Handle
<1>4. CASE UNCHANGED vars
  BY <1>2, <1>4, PeersAreTwo DEF vars, runner, world, opponent
<1>5. QED
  BY <1>1, <1>3, <1>4, PeersAreTwo DEF Next, Ended

LEMMA ChainsAreKept == Inv /\ Inv' /\ Chains /\ [Next]_vars => Chains'
<1> SUFFICES ASSUME Inv, Inv', Chains, [Next]_vars
             PROVE  Chains'
  OBVIOUS
<1>1. ASSUME NEW p \in Peers, StartSubGame(p) \/ NextStep(p)
      PROVE  Chains'
  BY <1>1, BeginEffect, BeginsKeepsChains
<1>2. ASSUME NEW p \in Peers,
             EndByCapture(p) \/ EndBySurvival(p) \/ OpponentEnded(p)
               \/ AwaitExpires(p) \/ CallFails(p)
      PROVE  Chains'
  <2>1. CASE AwaitExpires(p) \/ (CallFails(p) /\ oppFinished[p] = None)
    BY <2>1, GivesUpEffect, GivesUpKeepsChains
  <2>2. QED
    BY <1>2, <2>1, EndsEffect, EndsKeepsChains
<1>3. ASSUME NEW q \in Peers, NEW m \in requests, ServeFinal(q, m)
      PROVE  Chains'
  BY <1>3, ServeFinalKeepsChains
<1>4. QED
  BY <1>1, <1>2, <1>3, GoesSteps, GoesKeepsChains

THEOREM ChainInvariance == Spec => []Chains
BY InitChains, ChainsAreKept, Invariance, PTL DEF Spec

-----------------------------------------------------------------------------
(* Audits. *)

\* A chain that is all there, its last commitment pushed or not, is clean.
LEMMA WholeChainIsClean ==
    ASSUME NEW n \in Nat, NEW c, c \subseteq 1 .. n, 1 .. n - 1 \subseteq c
    PROVE  AuditOf(c, 1 .. n).withheld = {} /\ AuditOf(c, 1 .. n).unsolicited = {}
<1>1. c \ (1 .. n) = {}
  OBVIOUS
<1>2. \A s \in (1 .. n) \ c : s = n
  OBVIOUS
<1>3. \A t \in c : ~(n < t)
  OBVIOUS
<1>4. {s \in (1 .. n) \ c : \E t \in c : s < t} = {}
  BY <1>2, <1>3
<1>5. QED
  BY <1>1, <1>4 DEF AuditOf

\* A chain cut before the last commitment misses that one alone.
LEMMA CutChainMissesOne ==
    ASSUME NEW n \in Nat, NEW c, c \subseteq 1 .. n + 1, 1 .. n \subseteq c
    PROVE  AuditOf(c, 1 .. n).withheld \subseteq {n + 1} /\ AuditOf(c, 1 .. n).unsolicited = {}
<1>1. c \ (1 .. n) \subseteq {n + 1}
  OBVIOUS
<1>2. {s \in (1 .. n) \ c : \E t \in c : s < t} = {}
  OBVIOUS
<1>3. QED
  BY <1>1, <1>2 DEF AuditOf

\* What p holds of the other lies within what the other has sealed.
LEMMA HeldIsSealed ==
    ASSUME Inv, Chains, NEW p \in Peers
    PROVE  /\ held[p] \subseteq 1 .. turn[Other(p)]
           /\ 1 .. turn[Other(p)] - 1 \subseteq held[p]
<1>1. Other(p) \in Peers /\ Other(Other(p)) = p
  BY OtherIsAPeer
<1>2. \A s \in held[p] : s \in Turns /\ s <= turn[Other(p)]
  BY <1>1, TypesOfEndings DEF Inv, Committed
<1>3. held[p] \subseteq 1 .. turn[Other(p)]
  BY <1>1, <1>2, TypesOfPlay DEF Turns
<1>4. QED
  BY <1>1, <1>3 DEF Chains

LEMMA AuditOfAll ==
    ASSUME Inv, Chains, NEW p \in Peers
    PROVE  LET a == AuditOf(held[p], 1 .. turn[Other(p)])
           IN  a.withheld = {} /\ a.unsolicited = {}
<1> DEFINE n == turn[Other(p)]
<1>1. n \in Nat
  BY OtherIsAPeer, TypesOfPlay
<1>2. held[p] \subseteq 1 .. n /\ 1 .. n - 1 \subseteq held[p]
  BY HeldIsSealed
<1> HIDE DEF n
<1>3. AuditOf(held[p], 1 .. n).withheld = {} /\ AuditOf(held[p], 1 .. n).unsolicited = {}
  BY <1>1, <1>2, WholeChainIsClean
<1>4. QED
  BY <1>3 DEF n

LEMMA AuditOfAllButOne ==
    ASSUME Inv, Chains, NEW p \in Peers, turn[Other(p)] = turn[p] + 1
    PROVE  LET a == AuditOf(held[p], 1 .. turn[p])
           IN  a.withheld \subseteq {turn[p] + 1} /\ a.unsolicited = {}
<1> DEFINE n == turn[p]
<1>1. n \in Nat /\ turn[Other(p)] = n + 1 /\ turn[Other(p)] - 1 = n
  BY TypesOfPlay
<1>2. held[p] \subseteq 1 .. n + 1 /\ 1 .. n \subseteq held[p]
  BY <1>1, HeldIsSealed
<1> HIDE DEF n
<1>3. /\ AuditOf(held[p], 1 .. n).withheld \subseteq {n + 1}
      /\ AuditOf(held[p], 1 .. n).unsolicited = {}
  BY <1>1, <1>2, CutChainMissesOne
<1>4. QED
  BY <1>3 DEF n

\* A step that neither plays nor audits.
Calm ==
    /\ UNCHANGED <<turn, lastAudit, verdict>>
    /\ \A x \in Peers :
         /\ pc'[x] = "final" /\ reply'[x] # None => pc[x] = "final" /\ reply'[x] = reply[x]
         /\ pc[x] \in {"closing", "done"} => pc'[x] \in {"closing", "done"}

LEMMA CalmSteps ==
    ASSUME Inv, [Next]_vars,
           ~ \E p \in Peers : \/ StartSubGame(p) \/ NextStep(p)
                              \/ FinalAnswered(p) \/ FinalFails(p),
           ~ \E q \in Peers, m \in requests : ServeFinal(q, m)
    PROVE  Calm
<1> USE TypesOfPlay, TypesOfEndings
<1>1. ASSUME NEW p \in Peers, Proceed(p)
      PROVE  Calm
  <2>1. CASE CommitAnswered(p) \/ SendReveal(p) \/ RevealAnswered(p) \/ ApplyOwnStep(p)
    BY <2>1
    DEF CommitAnswered, SendReveal, RevealAnswered, ApplyOwnStep, ApplyStep, Returned, Call,
        Calm, runner, world, opponent
  <2>2. CASE EndByCapture(p) \/ EndBySurvival(p) \/ OpponentEnded(p)
    BY <2>2
    DEF EndByCapture, EndBySurvival, OpponentEnded, Returned, Awaits, Conclude, Call, Calm, opponent
  <2>3. CASE AbortAnswered(p) \/ Exit(p)
    BY <2>3 DEF AbortAnswered, Exit, Returned, Calm, runner, opponent
  <2>4. QED
    BY <1>1, <2>1, <2>2, <2>3 DEF Proceed
<1>2. ASSUME NEW p \in Peers, GiveUp(p)
      PROVE  Calm
  BY <1>2
  DEF GiveUp, AwaitExpires, CallFails, AbortFails, Awaits, Abort, Conclude, Call, Calm, runner,
      opponent
<1>3. ASSUME NEW q \in Peers, NEW m \in requests, Handle(q, m)
      PROVE  Calm
  BY <1>3
  DEF Handle, ServeCommit, ServeReveal, ServeScent, ServeAbort, Serve, Calm, runner, opponent
<1>4. CASE UNCHANGED vars
  BY <1>4 DEF vars, Calm, runner, opponent
<1>5. QED
  BY <1>1, <1>2, <1>3, <1>4 DEF Next, Ended

LEMMA InitAudited == Init => Audited
BY DEF Init, Audited

LEMMA BeginsKeepsAudited ==
    ASSUME Inv, Chains, Audited, NEW p \in Peers, Begins(p)
    PROVE  Audited'
<1> USE OtherIsAPeer, TypesOfPlay, TypesOfEndings
<1> DEFINE q == Other(p)
<1>1. /\ pc[p] \in {"start", "scent"} /\ pc'[p] = "commit" /\ turn'[p] = turn[p] + 1
      /\ pc'[q] = pc[q] /\ turn'[q] = turn[q] /\ reply'[q] = reply[q]
      /\ UNCHANGED <<lastAudit, verdict>>
  BY DEF Begins
<1>2. ASSUME pc[q] = "final", reply[q] # None
      PROVE  reply[q].records = 1 .. turn[q] /\ turn'[p] = turn[q] + 1
  <2>1. pending[q] = None
    BY <1>1, <1>2 DEF Chains, Parting
  <2>2. seen[q] = turn[q] /\ turn[q] \in Turns
    BY <1>2, <2>1 DEF Inv, Abreast, Stage
  <2>3. pc[p] = "scent"
    BY <1>1, <2>2 DEF Inv, Shown, Turns
  <2>4. turn[p] = turn[q]
    BY <2>2, <2>3 DEF Inv, Shown
  <2>5. QED
    BY <1>1, <1>2, <2>4 DEF Audited
<1>3. lastAudit[p] # None => lastAudit[p].unsolicited = {} /\ lastAudit[p].withheld = {}
  BY <1>1 DEF Audited
<1>4. verdict[p] = None
  BY <1>1 DEF Audited
<1>5. Audited!(p)'
  BY <1>1, <1>3, <1>4
<1>6. Audited!(q)'
  BY <1>1, <1>2 DEF Audited
<1>7. QED
  BY <1>5, <1>6 DEF Audited

LEMMA ServeFinalKeepsAudited ==
    ASSUME Inv, Chains, Audited, NEW q \in Peers, NEW m \in requests, ServeFinal(q, m)
    PROVE  Audited'
<1> USE OtherIsAPeer, TypesOfPlay, TypesOfEndings
<1> DEFINE p == Other(q)
           r == [caught |-> FALSE, records |-> Disclosed(q)]
<1>1. /\ m.from = p /\ m.kind = "final"
      /\ reply' = IF pc[p] = "final" THEN [reply EXCEPT ![p] = r] ELSE reply
      /\ lastAudit' = [lastAudit EXCEPT ![q] =
                          IF m.records = {} THEN @ ELSE AuditOf(held[q], m.records)]
      /\ UNCHANGED <<pc, turn, verdict>>
  BY DEF ServeFinal, Serve, runner
<1>2. r.records = 1 .. turn[q]
  BY DEF Chains
<1>3. m.records = 1 .. turn[p]
  BY <1>1 DEF Chains
<1>4. /\ AuditOf(held[q], m.records).withheld = {}
      /\ AuditOf(held[q], m.records).unsolicited = {}
  BY <1>3, AuditOfAll
<1> HIDE DEF r
<1>5. \A x \in Peers : lastAudit'[x] # None =>
          \/ lastAudit'[x] = lastAudit[x]
          \/ lastAudit'[x].withheld = {} /\ lastAudit'[x].unsolicited = {}
  BY <1>1, <1>4
<1>6. \A x \in Peers : pc[x] = "final" /\ reply'[x] # None =>
          reply'[x] = reply[x] \/ reply'[x].records = 1 .. turn[Other(x)]
  BY <1>1, <1>2
<1>7. QED
  BY <1>1, <1>5, <1>6 DEF Audited

LEMMA FinalAnsweredKeepsAudited ==
    ASSUME Inv, Chains, Audited, NEW p \in Peers, FinalAnswered(p)
    PROVE  Audited'
<1> USE OtherIsAPeer, TypesOfPlay, TypesOfEndings
<1> DEFINE a == AuditOf(held[p], reply[p].records)
<1>1. /\ pc[p] = "final" /\ reply[p] # None
      /\ pc' = [pc EXCEPT ![p] = "closing"]
      /\ lastAudit' = [lastAudit EXCEPT ![p] = a]
      /\ verdict' = [verdict EXCEPT ![p] = a]
      /\ UNCHANGED <<turn, reply>>
  BY DEF FinalAnswered, Returned
<1>2. a.unsolicited = {} /\ a.withheld \subseteq {turn[p] + 1}
  <2>1. CASE reply[p].records = 1 .. turn[Other(p)]
    BY <2>1, AuditOfAll
  <2>2. CASE reply[p].records = 1 .. turn[p] /\ turn[Other(p)] = turn[p] + 1
    BY <2>2, AuditOfAllButOne
  <2>3. QED
    BY <1>1, <2>1, <2>2 DEF Audited
<1> HIDE DEF a
<1>3. /\ pc'[p] = "closing" /\ lastAudit'[p] = a /\ verdict'[p] = a
      /\ \A x \in Peers : x # p =>
            pc'[x] = pc[x] /\ lastAudit'[x] = lastAudit[x] /\ verdict'[x] = verdict[x]
  BY <1>1
<1>4. QED
  BY <1>1, <1>2, <1>3 DEF Audited

LEMMA FinalFailsKeepsAudited ==
    ASSUME Inv, Audited, NEW p \in Peers, FinalFails(p)
    PROVE  Audited'
<1> USE TypesOfPlay, TypesOfEndings
<1>1. /\ pc[p] = "final" /\ pc' = [pc EXCEPT ![p] = "closing"]
      /\ verdict' = [verdict EXCEPT ![p] = lastAudit[p]]
      /\ UNCHANGED <<turn, reply, lastAudit>>
  BY DEF FinalFails, opponent
<1>2. QED
  BY <1>1 DEF Audited

LEMMA AuditedIsKept == Inv /\ Chains /\ Audited /\ [Next]_vars => Audited'
<1> SUFFICES ASSUME Inv, Chains, Audited, [Next]_vars
             PROVE  Audited'
  OBVIOUS
<1>1. CASE Calm
  BY <1>1 DEF Calm, Audited
<1>2. QED
  BY <1>1, BeginEffect, BeginsKeepsAudited, ServeFinalKeepsAudited, FinalAnsweredKeepsAudited,
     FinalFailsKeepsAudited, CalmSteps

THEOREM AuditInvariance == Spec => []Audited
BY InitAudited, AuditedIsKept, ChainInvariance, Invariance, PTL DEF Spec

\* An honest chain is never read as invented, and misses at most the step its sender
\* sealed after giving the answer (_exchange_chains, on_final,
\* audit_against_commitments).
THEOREM HonestChainsAudit == Spec => []HonestChainAudits
<1>1. Audited => HonestChainAudits
  BY DEF Audited, HonestChainAudits
<1>2. QED
  BY <1>1, AuditInvariance, PTL

-----------------------------------------------------------------------------
(* The reports. *)

\* A step that moves nobody, shows nothing and ends nothing.
Still == UNCHANGED <<outcome, turn, pending, seen, iAmCaught, pos, barriers>>

LEMMA StillSteps ==
    ASSUME [Next]_vars,
           ~ \E p \in Peers : StartSubGame(p) \/ NextStep(p) \/ ApplyOwnStep(p),
           ~ \E p \in Peers : EndByCapture(p) \/ EndBySurvival(p) \/ OpponentEnded(p)
                              \/ AwaitExpires(p) \/ CallFails(p),
           ~ \E q \in Peers, m \in requests : ServeReveal(q, m)
    PROVE  Still
<1>1. ASSUME NEW p \in Peers, Proceed(p) \/ GiveUp(p)
      PROVE  Still
  BY <1>1
  DEF Proceed, GiveUp, CommitAnswered, SendReveal, RevealAnswered, FinalAnswered,
      AbortAnswered, Exit, FinalFails, AbortFails, Still, runner, world, opponent
<1>2. ASSUME NEW q \in Peers, NEW m \in requests, Handle(q, m)
      PROVE  Still
  BY <1>2
  DEF Handle, ServeCommit, ServeScent, ServeFinal, ServeAbort, Still, runner, world, opponent
<1>3. CASE UNCHANGED vars
  BY <1>3 DEF vars, Still, runner, world, opponent
<1>4. QED
  BY <1>1, <1>2, <1>3 DEF Next, Ended

LEMMA OutcomesDiffer ==
    /\ None \notin {Capture, Survival, TechnicalLoss}
    /\ Capture # Survival /\ Capture # TechnicalLoss /\ Survival # TechnicalLoss
BY NoneIsNoValue DEF Outcomes, Capture, Survival, TechnicalLoss

\* Walls only take ways out away.
LEMMA WallsNeverOpen ==
    ASSUME NEW c, NEW w, NEW v, w \subseteq v, ~HasEscape(c, w)
    PROVE  ~HasEscape(c, v)
BY DEF HasEscape, LegalMoves, Steps, Passable

LEMMA InitReasoned == Init => Reasoned
BY PeersAreTwo, OutcomesDiffer DEF Init, Reasoned

LEMMA EndsKeepsReasoned ==
    ASSUME Inv, Known, Chains, Reasoned, NEW p \in Peers, NEW o,
           Ends(p, o),
           oppFinished[p] = o \/ EndByCapture(p) \/ EndBySurvival(p)
    PROVE  Reasoned'
<1> USE PeersAreTwo, TypesOfPlay, TypesOfEndings, OutcomesDiffer
<1>1. /\ outcome' = [outcome EXCEPT ![p] = o] /\ outcome[p] = None
      /\ UNCHANGED <<turn, pending, seen, iAmCaught, pos, barriers>>
  BY DEF Ends, Conclude, world, opponent, Chains
<1>2. BoxedIn(Thief)' = BoxedIn(Thief) /\ OutOfTime(Cop)' = OutOfTime(Cop)
  BY <1>1 DEF BoxedIn, OutOfTime
<1>3. CASE oppFinished[p] = o
  <2>1. outcome[Other(p)] = o /\ o # None
    BY <1>3 DEF Chains, Ends
  <2>2. outcome'[Cop] = o /\ outcome'[Thief] = o
    BY <1>1, <2>1
  <2>3. o # TechnicalLoss => o = Capture \/ o = Survival
    BY <2>1, OutcomesDiffer DEF Outcomes
  <2>4. QED
    BY <1>1, <1>2, <2>2 DEF Reasoned
<1>4. CASE EndByCapture(p)
  <2>1. o = Capture /\ pc[p] = "scent" /\ Captured(p)
    <3>1. outcome'[p] = Capture
      BY <1>4 DEF EndByCapture, Conclude
    <3>2. QED
      BY <1>1, <1>4, <3>1 DEF EndByCapture, Returned
  <2>2. CASE p = Cop
    <3>1. iAmCaught[Thief]
      BY <2>1, <2>2 DEF Captured, Known, BoxedIn
    <3>2. QED
      BY <1>1, <1>2, <2>1, <2>2, <3>1 DEF Reasoned
  <2>3. CASE p = Thief
    <3>1. iAmCaught[Thief] \/ BoxedIn(Thief)
      BY <2>1, <2>3 DEF Captured, Known
    <3>2. QED
      BY <1>1, <1>2, <2>1, <2>3, <3>1 DEF Reasoned
  <2>4. QED
    BY <2>2, <2>3
<1>5. CASE EndBySurvival(p)
  <2>1. o = Survival /\ pc[p] = "scent" /\ ~Captured(p) /\ OutOfTime(p)
    <3>1. outcome'[p] = Survival
      BY <1>5 DEF EndBySurvival, Conclude
    <3>2. QED
      BY <1>1, <1>5, <3>1 DEF EndBySurvival, Returned
  <2>2. pending[p] = None /\ seen[p] = turn[p] /\ seen[Other(p)] = turn[p]
    BY <2>1 DEF Inv, Stage, Abreast, Shown
  <2>3. CASE p = Cop
    <3>1. ~iAmCaught[Thief]
      BY <2>1, <2>3 DEF Captured, Known
    <3>2. QED
      BY <1>1, <1>2, <2>1, <2>2, <2>3, <3>1 DEF Reasoned
  <2>4. CASE p = Thief
    <3>1. ~iAmCaught[Thief]
      BY <2>1, <2>4 DEF Captured
    <3>2. QED
      BY <1>1, <1>2, <2>1, <2>2, <2>4, <3>1 DEF Reasoned
  <2>5. QED
    BY <2>3, <2>4
<1>6. QED
  BY <1>3, <1>4, <1>5

LEMMA GivesUpKeepsReasoned ==
    ASSUME Inv, Chains, Reasoned, NEW p \in Peers, GivesUp(p)
    PROVE  Reasoned'
<1> USE PeersAreTwo, TypesOfPlay, TypesOfEndings, OutcomesDiffer
<1>1. /\ outcome' = [outcome EXCEPT ![p] = TechnicalLoss] /\ outcome[p] = None
      /\ UNCHANGED <<turn, pending, seen, iAmCaught, pos, barriers>>
  BY DEF GivesUp, Abort, world, opponent, Chains
<1>2. BoxedIn(Thief)' = BoxedIn(Thief) /\ OutOfTime(Cop)' = OutOfTime(Cop)
  BY <1>1 DEF BoxedIn, OutOfTime
<1>3. QED
  BY <1>1, <1>2 DEF Reasoned

LEMMA PlayKeepsReasoned ==
    ASSUME Inv, Chains, Reasoned, NEW p \in Peers, Begins(p) \/ ApplyOwnStep(p)
    PROVE  Reasoned'
<1> USE PeersAreTwo, TypesOfPlay, TypesOfEndings, OutcomesDiffer
<1>1. /\ pc[p] \in {"start", "scent", "awaitReveal"}
      /\ UNCHANGED <<outcome, seen, iAmCaught>>
      /\ \A x \in Peers : x # p =>
            /\ turn'[x] = turn[x] /\ pending'[x] = pending[x]
            /\ pos'[x] = pos[x] /\ barriers'[x] = barriers[x]
  <2>1. CASE Begins(p)
    BY <2>1 DEF Begins
  <2>2. CASE ApplyOwnStep(p)
    BY <2>2 DEF ApplyOwnStep, ApplyStep, runner, opponent
  <2>3. QED
    BY <2>1, <2>2
<1>2. outcome[p] = None
  BY <1>1 DEF Chains, Leaving
<1>3. p # Thief => BoxedIn(Thief)' = BoxedIn(Thief)
  BY <1>1 DEF BoxedIn
<1>4. p # Cop => OutOfTime(Cop)' = OutOfTime(Cop)
  BY <1>1 DEF OutOfTime
<1>5. QED
  BY <1>1, <1>2, <1>3, <1>4 DEF Reasoned

LEMMA ServeRevealKeepsReasoned ==
    ASSUME Inv, Told, Reasoned, NEW q \in Peers, NEW m \in requests, ServeReveal(q, m)
    PROVE  Reasoned'
<1> USE PeersAreTwo, TypesOfPlay, TypesOfEndings, OutcomesDiffer
<1> DEFINE caught == m.claim # None /\ m.claim = AnsweringCell(q, barriers'[q])
<1>1. ServedReveal(q, m) /\ iAmCaught' = [iAmCaught EXCEPT ![q] = @ \/ caught]
  BY ServeRevealEffect
<1>2. UNCHANGED outcome
  BY DEF ServeReveal, runner
<1> HIDE DEF caught
<1>3. /\ UNCHANGED <<turn, pending, pos>> /\ seen[q] = turn[q] - 1 /\ pending[q] # None
      /\ turn[q] = turn[Other(q)]
      /\ barriers[Thief] \subseteq barriers'[Thief]
  BY <1>1 DEF ServedReveal
<1>4. BoxedIn(Thief) => BoxedIn(Thief)'
  BY <1>3, WallsNeverOpen DEF BoxedIn
<1>5. OutOfTime(Cop)' = OutOfTime(Cop)
  BY <1>3 DEF OutOfTime
<1>6. CASE q = Cop
  <2>1. ~caught
    BY <1>1, <1>6, ThiefClaimsNothing DEF caught
  <2>2. iAmCaught'[Thief] = iAmCaught[Thief] /\ seen[Cop] # turn[Cop]
    BY <1>1, <1>3, <1>6, <2>1
  <2>3. QED
    BY <1>2, <1>3, <1>4, <1>5, <2>2 DEF Reasoned
<1>7. CASE q = Thief
  <2>1. (iAmCaught[Thief] => iAmCaught'[Thief]) /\ seen[Thief] # turn[Cop] /\ pending[Thief] # None
    BY <1>1, <1>3, <1>7
  <2>2. QED
    BY <1>2, <1>3, <1>4, <1>5, <2>1 DEF Reasoned
<1>8. QED
  BY <1>6, <1>7

LEMMA ReasonedIsKept ==
    Inv /\ Told /\ Known /\ Chains /\ Reasoned /\ [Next]_vars => Reasoned'
<1> SUFFICES ASSUME Inv, Told, Known, Chains, Reasoned, [Next]_vars
             PROVE  Reasoned'
  OBVIOUS
<1>1. ASSUME NEW p \in Peers,
             EndByCapture(p) \/ EndBySurvival(p) \/ OpponentEnded(p)
               \/ AwaitExpires(p) \/ CallFails(p)
      PROVE  Reasoned'
  <2>1. CASE AwaitExpires(p) \/ (CallFails(p) /\ oppFinished[p] = None)
    BY <2>1, GivesUpEffect, GivesUpKeepsReasoned
  <2>2. CASE EndByCapture(p) \/ EndBySurvival(p)
    BY <2>2, EndsEffect, EndsKeepsReasoned
  <2>3. CASE OpponentEnded(p) \/ (CallFails(p) /\ oppFinished[p] # None)
    <3>1. PICK o \in Outcomes : Ends(p, o)
      BY <2>3, EndsEffect
    <3>2. oppFinished[p] = o
      <4>1. outcome'[p] = o
        BY <3>1, TypesOfEndings DEF Ends, Conclude
      <4>2. outcome'[p] = oppFinished[p]
        BY <2>3, TypesOfEndings DEF OpponentEnded, CallFails, Conclude
      <4>3. QED
        BY <4>1, <4>2
    <3>3. QED
      BY <3>1, <3>2, EndsKeepsReasoned
  <2>4. QED
    BY <1>1, <2>1, <2>2, <2>3
<1>2. CASE Still
  BY <1>2 DEF Still, Reasoned, BoxedIn, OutOfTime
<1>3. QED
  BY <1>1, <1>2, BeginEffect, PlayKeepsReasoned, ServeRevealKeepsReasoned, StillSteps

THEOREM ReportInvariance == Spec => []Reasoned
BY InitReasoned, ReasonedIsKept, BoardInvariance, ConcessionInvariance, ChainInvariance,
   Invariance, PTL DEF Spec

\* The two reports of one sub-game never contradict each other, except when the thief
\* is boxed in on the very last step (run_sub_game's three endings, record_ending,
\* answer_capture_claim).
THEOREM NoContradictions == Spec => []NoContradiction
<1>1. Inv /\ Reasoned => NoContradiction
  <2> SUFFICES ASSUME Inv, Reasoned, {outcome[Cop], outcome[Thief]} = {Capture, Survival}
               PROVE  outcome[Thief] = Capture /\ BoxedIn(Thief) /\ OutOfTime(Thief)
    BY DEF NoContradiction
  <2> USE PeersAreTwo, TypesOfPlay, OutcomesDiffer
  <2>1. ~(outcome[Cop] = Capture /\ outcome[Thief] = Survival)
    BY DEF Reasoned
  <2>2. outcome[Cop] = Survival /\ outcome[Thief] = Capture
    BY <2>1
  <2>3. ~iAmCaught[Thief] /\ OutOfTime(Cop) /\ seen[Thief] = turn[Cop]
    BY <2>2 DEF Reasoned
  <2>4. BoxedIn(Thief)
    BY <2>2, <2>3 DEF Reasoned
  <2>5. turn[Cop] <= turn[Thief]
    BY <2>3 DEF Inv, Abreast
  <2>6. OutOfTime(Thief)
    BY <2>3, <2>5, ProtocolAssumption DEF OutOfTime
  <2>7. QED
    BY <2>2, <2>4, <2>6
<1>2. QED
  BY <1>1, Invariance, ReportInvariance, PTL

-----------------------------------------------------------------------------
(* Without a fault. *)

\* A fault spent is not given back.
LEMMA FaultsAreSpent ==
    ASSUME Inv, [Next]_vars, faults' = MaxFaults
    PROVE  faults = MaxFaults
<1>1. faults \in 0 .. MaxFaults /\ MaxFaults \in Nat
  BY TypesOfEndings
<1>2. ASSUME NEW p \in Peers, Fault(p)
      PROVE  faults = MaxFaults
  BY <1>1, <1>2 DEF Fault
<1>3. ASSUME NEW p \in Peers, Proceed(p) \/ GiveUp(p)
      PROVE  faults = MaxFaults
  BY <1>2, <1>3
  DEF Proceed, GiveUp, StartSubGame, NextStep, CommitAnswered, SendReveal, RevealAnswered,
      ApplyOwnStep, ApplyStep, EndByCapture, EndBySurvival, OpponentEnded, FinalAnswered,
      AbortAnswered, Exit, AwaitExpires, CallFails, FinalFails, AbortFails
<1>4. ASSUME NEW q \in Peers, NEW m \in requests, Handle(q, m)
      PROVE  faults = MaxFaults
  BY <1>4
  DEF Handle, ServeCommit, ServeReveal, ServeScent, ServeFinal, ServeAbort, Serve
<1>5. CASE UNCHANGED vars
  BY <1>5 DEF vars
<1>6. QED
  BY <1>3, <1>4, <1>5 DEF Next, Ended

\* A failure that costs no fault is one of a peer that is gone.
LEMMA FreeFailure ==
    ASSUME Inv, NEW p \in Peers, Fault(p), faults' = MaxFaults
    PROVE  pc[Other(p)] = "done" /\ faults = MaxFaults
BY TypesOfEndings DEF Fault, Gone

\* A step that ends nothing and tells of no ending.
Routine ==
    /\ UNCHANGED <<outcome, oppFinished, faults>>
    /\ \A x \in Peers :
         /\ pc'[x] \in Leaving => pc'[x] = pc[x]
         /\ pc[x] = "done" => pc'[x] = "done"
         /\ pc'[x] = "final" => reply'[x] = reply[x]

LEMMA RoutineSteps ==
    ASSUME Inv, [Next]_vars,
           ~ \E p \in Peers : EndByCapture(p) \/ EndBySurvival(p) \/ OpponentEnded(p)
                              \/ AwaitExpires(p) \/ CallFails(p),
           ~ \E p \in Peers : FinalAnswered(p) \/ FinalFails(p) \/ AbortAnswered(p)
                              \/ AbortFails(p) \/ Exit(p),
           ~ \E q \in Peers, m \in requests : ServeFinal(q, m)
    PROVE  Routine
<1> USE TypesOfPlay, TypesOfEndings
<1>1. ASSUME NEW p \in Peers, Begins(p)
      PROVE  Routine
  BY <1>1 DEF Begins, Routine, Leaving
<1>2. ASSUME NEW p \in Peers, CommitAnswered(p) \/ SendReveal(p) \/ RevealAnswered(p)
                                \/ ApplyOwnStep(p)
      PROVE  Routine
  BY <1>2
  DEF CommitAnswered, SendReveal, RevealAnswered, ApplyOwnStep, ApplyStep, Returned, Call,
      Routine, Leaving, runner, opponent
<1>3. ASSUME NEW q \in Peers, NEW m \in requests, Handle(q, m)
      PROVE  Routine
  BY <1>3
  DEF Handle, ServeCommit, ServeReveal, ServeScent, ServeAbort, Serve, Routine, Leaving,
      runner, opponent
<1>4. CASE UNCHANGED vars
  BY <1>4 DEF vars, Routine, runner, opponent
<1>5. QED
  BY <1>1, <1>2, <1>3, <1>4, BeginEffect DEF Next, Proceed, GiveUp, Ended

LEMMA InitAnnounced == Init => Announced
BY NoneIsNoValue DEF Init, Announced, Outcomes, TechnicalLoss

LEMMA EndsKeepsAnnounced ==
    ASSUME Inv, Chains, Announced, NEW p \in Peers, NEW o, Ends(p, o),
           oppFinished[p] = o \/ o # TechnicalLoss,
           faults' = MaxFaults => faults = MaxFaults
    PROVE  Announced'
<1> USE OtherIsAPeer, TypesOfPlay, TypesOfEndings
<1>1. /\ pc[p] \notin Leaving
      /\ pc' = [pc EXCEPT ![p] = "final"] /\ reply' = [reply EXCEPT ![p] = None]
      /\ outcome' = [outcome EXCEPT ![p] = o] /\ UNCHANGED oppFinished
  BY DEF Ends, Conclude, Call, opponent
<1>2. faults' = MaxFaults => o # TechnicalLoss
  <2>1. CASE oppFinished[p] = o
    BY <2>1 DEF Ends, Chains, Announced
  <2>2. QED
    BY <2>1
<1>3. QED
  BY <1>1, <1>2 DEF Announced, Leaving

LEMMA GivesUpKeepsAnnounced ==
    ASSUME Inv, Announced, NEW p \in Peers, GivesUp(p)
    PROVE  Announced'
<1> USE OtherIsAPeer, TypesOfPlay, TypesOfEndings
<1>1. /\ pc[p] \notin Leaving /\ oppFinished[p] = None
      /\ pc' = [pc EXCEPT ![p] = "abort"] /\ reply' = [reply EXCEPT ![p] = None]
      /\ outcome' = [outcome EXCEPT ![p] = TechnicalLoss] /\ UNCHANGED oppFinished
  BY DEF GivesUp, Abort, Call, opponent
<1>2. faults' # MaxFaults
  <2>1. SUFFICES ASSUME faults' = MaxFaults PROVE FALSE
    OBVIOUS
  <2>2. pc[Other(p)] = "done" /\ faults = MaxFaults
    BY <2>1, FreeFailure DEF GivesUp
  <2>3. QED
    BY <1>1, <2>2 DEF Announced, Leaving
<1>3. QED
  BY <1>1, <1>2 DEF Announced

LEMMA ServeFinalKeepsAnnounced ==
    ASSUME Inv, Announced, NEW q \in Peers, NEW m \in requests, ServeFinal(q, m),
           oppFinished'[q] # None
    PROVE  Announced'
<1> USE OtherIsAPeer, TypesOfPlay, TypesOfEndings
<1>1. /\ m.from = Other(q) /\ UNCHANGED <<pc, outcome, faults>>
      /\ \A x \in Peers : x # Other(q) => reply'[x] = reply[x]
      /\ \A x \in Peers : x # q => oppFinished'[x] = oppFinished[x]
  BY DEF ServeFinal, Serve, runner
<1>2. QED
  BY <1>1 DEF Announced

LEMMA LeaversKeepAnnounced ==
    ASSUME Inv, Announced, NEW p \in Peers,
           FinalAnswered(p) \/ FinalFails(p) \/ AbortAnswered(p) \/ AbortFails(p) \/ Exit(p)
    PROVE  Announced'
<1> USE OtherIsAPeer, TypesOfPlay, TypesOfEndings
<1>1. /\ UNCHANGED <<outcome, oppFinished, reply>>
      /\ \A x \in Peers : x # p => pc'[x] = pc[x]
  BY DEF FinalAnswered, FinalFails, AbortAnswered, AbortFails, Exit, runner, opponent
<1>2. CASE FinalAnswered(p)
  <2>1. pc[p] = "final" /\ reply[p] # None /\ pc'[p] = "closing" /\ UNCHANGED faults
    BY <1>2 DEF FinalAnswered, Returned
  <2>2. QED
    BY <1>1, <2>1 DEF Announced
<1>3. CASE FinalFails(p)
  <2>1. pc[p] = "final" /\ pc'[p] = "closing"
    BY <1>3 DEF FinalFails
  <2>2. faults' = MaxFaults => pc[Other(p)] = "done" /\ faults = MaxFaults
    BY <1>3, FreeFailure DEF FinalFails
  <2>3. QED
    BY <1>1, <2>1, <2>2 DEF Announced
<1>4. CASE AbortAnswered(p) \/ AbortFails(p)
  <2>1. pc[p] = "abort" /\ pc'[p] = "closing"
    BY <1>4 DEF AbortAnswered, AbortFails, Returned
  <2>2. faults # MaxFaults
    BY <2>1 DEF Announced
  <2>3. faults' # MaxFaults
    BY <1>4, <2>2, FreeFailure DEF AbortAnswered, AbortFails
  <2>4. QED
    BY <1>1, <2>1, <2>3 DEF Announced
<1>5. CASE Exit(p)
  <2>1. pc[p] = "closing" /\ pc'[p] = "done" /\ UNCHANGED faults
    BY <1>5 DEF Exit
  <2>2. QED
    BY <1>1, <2>1 DEF Announced
<1>6. QED
  BY <1>2, <1>3, <1>4, <1>5

LEMMA AnnouncedIsKept ==
    Inv /\ Inv' /\ Chains /\ Announced /\ [Next]_vars => Announced'
<1> SUFFICES ASSUME Inv, Inv', Chains, Announced, [Next]_vars
             PROVE  Announced'
  OBVIOUS
<1>1. faults' = MaxFaults => faults = MaxFaults
  BY FaultsAreSpent
<1>2. ASSUME NEW p \in Peers,
             EndByCapture(p) \/ EndBySurvival(p) \/ OpponentEnded(p)
               \/ AwaitExpires(p) \/ CallFails(p)
      PROVE  Announced'
  <2>1. CASE AwaitExpires(p) \/ (CallFails(p) /\ oppFinished[p] = None)
    BY <2>1, GivesUpEffect, GivesUpKeepsAnnounced
  <2>2. CASE ~(AwaitExpires(p) \/ (CallFails(p) /\ oppFinished[p] = None))
    <3>1. PICK o \in Outcomes : Ends(p, o)
      BY <1>2, <2>2, EndsEffect
    <3>2. outcome'[p] = o
      BY <3>1, TypesOfEndings DEF Ends, Conclude
    <3>3. outcome'[p] = oppFinished[p] \/ outcome'[p] \in {Capture, Survival}
      BY <1>2, <2>2, TypesOfEndings
      DEF EndByCapture, EndBySurvival, OpponentEnded, CallFails, Conclude
    <3>4. oppFinished[p] = o \/ o # TechnicalLoss
      BY <3>2, <3>3, OutcomesDiffer
    <3>5. QED
      BY <1>1, <3>1, <3>4, EndsKeepsAnnounced
  <2>3. QED
    BY <2>1, <2>2
<1>3. ASSUME NEW q \in Peers, NEW m \in requests, ServeFinal(q, m)
      PROVE  Announced'
  BY <1>3, ServeFinalKeepsChains, ServeFinalKeepsAnnounced
<1>4. CASE Routine
  BY <1>4, OtherIsAPeer DEF Routine, Announced, Leaving
<1>5. QED
  BY <1>2, <1>3, <1>4, LeaversKeepAnnounced, RoutineSteps

\* Without a fault nobody aborts: a peer that is still owed a message has always been
\* told when none is coming (on_final, OpponentFinishedError, _exchange_chains).
THEOREM NobodyAbortsUnprovoked == Spec => []FaultFreeNeverAborts
<1>1. Spec => []Announced
  BY InitAnnounced, AnnouncedIsKept, ChainInvariance, Invariance, PTL DEF Spec
<1>2. Announced => FaultFreeNeverAborts
  BY DEF Announced, FaultFreeNeverAborts
<1>3. QED
  BY <1>1, <1>2, PTL

=============================================================================
