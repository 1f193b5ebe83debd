--------------------------- MODULE PeerProperties ---------------------------
(***************************************************************************)
(* What must hold of one sub-game on the native wire (PeerProtocol).       *)
(***************************************************************************)
EXTENDS PeerProtocol

-----------------------------------------------------------------------------
(* The exchange of one step. *)

\* Nobody is shown a step before sealing their own: the reveals a session has
\* applied never outrun the commitments its runner has pushed (_await_commit
\* before _push_reveal, and on_reveal's check for a prior commitment).
NoPeek == \A p \in Peers : seen[p] <= turn[p]

\* A reveal on the wire finds its receiver, however late it arrives, still
\* holding that very step sealed and unapplied; so a capture claim is always
\* answered from the cell of the step it was made for (pending_cell), never
\* from the step before or after.
AnsweredInTheSameStep ==
    \A m \in requests : m.kind = "reveal" =>
        LET q == Other(m.from) IN pending[q] # None /\ turn[q] = m.step /\ m.step \in held[q]

\* The two private boards agree: the thief has every wall the cop has built and
\* at most the one the cop has sealed but not applied yet.  The thief adds
\* declared walls unchecked (apply_opponent_move), so this is also what keeps
\* its board within the quota.
BoardsAgree ==
    /\ barriers[Cop] \subseteq barriers[Thief]
    /\ barriers[Thief] \subseteq barriers[Cop] \cup
          (IF pending[Cop] = None THEN {} ELSE {pending[Cop].barrier})

\* Both peers have applied the same steps, at least one, and sealed no other.
BetweenSteps ==
    /\ pending[Cop] = None /\ pending[Thief] = None
    /\ records[Cop] = records[Thief] /\ records[Cop] # {}

\* A concession is true and a walled-in thief always makes it: between steps, a
\* thief that has conceded stands on the cop's cell or inside a wall, and one
\* inside a wall has conceded.  Neither peer can see both halves of this; it
\* rests on the claim naming the step's cell and the wall landing before the
\* answer (capture_claim, on_reveal, answer_capture_claim).
ConcessionIsTrue ==
    BetweenSteps =>
        /\ iAmCaught[Thief] => pos[Thief] \in barriers[Thief] \cup {pos[Cop]}
        /\ pos[Thief] \in barriers[Thief] => iAmCaught[Thief]

-----------------------------------------------------------------------------
(* The ending. *)

\* The peers never report opposite results, whatever the network does, except
\* when the thief is boxed in on the very last step: it ends by rule 47 and the
\* cop, who cannot see that, by the horizon.
NoContradiction ==
    {outcome[Cop], outcome[Thief]} = {Capture, Survival} =>
        outcome[Thief] = Capture /\ BoxedIn(Thief) /\ OutOfTime(Thief)

\* An honest chain never reads as invented, and a step of it reads as withheld
\* only if it was sealed after the auditor had played its last.
HonestChainAudits ==
    \A p \in Peers : verdict[p] # None =>
        /\ verdict[p].unsolicited = {}
        /\ verdict[p].withheld \subseteq {turn[p] + 1}

\* Without a fault nobody aborts: the two loops never wait on each other, and a
\* peer that is still owed a message has always been told when none is coming.
FaultFreeNeverAborts ==
    faults = MaxFaults => \A p \in Peers : outcome[p] # TechnicalLoss

\* Both processes end, whatever the opponent does (rule 6).
Terminates == <>Over

\* Commit-reveal in lock step, as CommitReveal promises it: a peer's last sealed
\* step is the turn it plays, its disclosed steps are those the other applied.
CR == INSTANCE CommitReveal WITH
        Players   <- Peers,
        Peer      <- Other,
        Rounds    <- MaxMoves,
        sealed    <- turn,
        disclosed <- [p \in Peers |-> seen[Other(p)]]

\* Every step of the sub-game is a step of the promise or leaves it unchanged.
ImplementsCommitReveal == CR!Spec
=============================================================================
