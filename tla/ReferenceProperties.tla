------------------------ MODULE ReferenceProperties ------------------------
(* What a sub-game on the reference wire owes both sides (ReferenceWire).  *)
EXTENDS ReferenceWire

\* No call has raised and no deadline has run out on a peer that would have answered.
FaultFree == faults = MaxFaults

BothEnded == \A p \in Peers : peer[p].pc = "done"

\* A round is one action each, the thief's first: whatever arrives twice or late,
\* nobody acts again before the other has (reference_inbox.take_turn_at).
OneActionEach ==
    \A p \in Peers :
      ~peer[p].terminal =>
        Len(peer[p].sealed) <= Cardinality(peer[p].held) + (IF p = Thief THEN 1 ELSE 0)

\* A wall is on both boards once its turn was read, and never on the thief's alone.
BoardsAgree ==
    /\ peer[Thief].walls \subseteq peer[Cop].walls
    /\ Cardinality(peer[Thief].held) = Len(peer[Cop].sealed)
         => peer[Thief].walls = peer[Cop].walls

\* Rule 35: two drivers whose calls all went through file the same ending, and a
\* thief caught on a claim files a capture with the cop, the claim of the last round
\* included (ReferenceDriver.wrap_up).  Rule 47 apart: a thief walled in by the last
\* claim files a capture its cop is never told of.
OutcomesAgree ==
    FaultFree /\ BothEnded /\ ~BoxedIn(Thief, peer[Thief])
      => /\ peer[Cop].outcome = peer[Thief].outcome
         /\ peer[Thief].caught => peer[Cop].outcome = Capture

\* A sub-game in which everybody answered is never filed as a technical loss, not
\* even when the cop has nothing to say at the move ceiling (play_round).
NoTechnicalLoss ==
    FaultFree => \A p \in Peers : peer[p].outcome # TechnicalLoss

\* Every sub-game ends in an outcome that is stated, and not in a traceback
\* (tests/unit/test_runtime/test_reference_driver_faults.py).
EndsInAnOutcome ==
    \A p \in Peers : peer[p].pc # "crashed"

\* No driver waits forever, whatever is lost and whoever has gone.
EverySubGameEnds == <>(\A p \in Peers : Gone(p))
=============================================================================
