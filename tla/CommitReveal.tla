---------------------------- MODULE CommitReveal ----------------------------
(***************************************************************************)
(* What the turn protocol promises, with the messages, the board and the   *)
(* endings left out: two players who each seal a step before either        *)
(* discloses it, and who seal the next one only when both have disclosed   *)
(* the last (domain/protocol.py, COMMIT -> ACK -> REVEAL -> APPLY).        *)
(***************************************************************************)
EXTENDS Integers

CONSTANTS Players, Peer(_), Rounds

VARIABLES sealed,      \* the last step each player has sealed
          disclosed    \* the last step of each player the other has been shown

Init == /\ sealed = [p \in Players |-> 0]
        /\ disclosed = [p \in Players |-> 0]

Seal(p) ==
    /\ sealed[p] < Rounds
    /\ disclosed[p] = sealed[p]
    /\ disclosed[Peer(p)] = sealed[p]
    /\ sealed' = [sealed EXCEPT ![p] = @ + 1]
    /\ UNCHANGED disclosed

Disclose(p) ==
    /\ disclosed[p] < sealed[p]
    /\ sealed[p] <= sealed[Peer(p)]
    /\ disclosed' = [disclosed EXCEPT ![p] = @ + 1]
    /\ UNCHANGED sealed

Next == \E p \in Players : Seal(p) \/ Disclose(p)

Spec == Init /\ [][Next]_<<sealed, disclosed>>

=============================================================================
