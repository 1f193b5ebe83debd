-------------------------- MODULE ServedProperties --------------------------
(* What the served wire owes the rules and the reports (ServedTurns). *)
EXTENDS ServedTurns

session  == peer.session
loop     == peer.loop
recorder == peer.recorder

\* The session's last turn was of the sub-game the driver is playing.
SameGame == session.owner # None /\ session.owner = driver.game

\* The audit is keyed on our own step number: whatever steps arrive, no two of
\* our records share one and none goes back (TurnLoop._reply_step).
StepsAreMonotone ==
    \A i, j \in DOMAIN session.records :
      i < j => session.records[i] < session.records[j]

\* Every commitment a session holds is of one sub-game: their next sub-game is
\* never played on the last one's board (_opener_is_a_retry).
SessionHoldsOneGame ==
    \A i \in DOMAIN session.held : session.held[i] = session.owner.id

\* One artifact set per sub-game, however often the result is agreed
\* (ServedRecorder.settle).
FiledOnce == \A i, j \in DOMAIN recorder.filed :
    /\ recorder.filed[i].owner = recorder.filed[j].owner
    /\ ~recorder.filed[i].resent /\ ~recorder.filed[j].resent
    => i = j

\* A sub-game whose ending we saw is on file before its session is replaced
\* (_restart_if_a_new_sub_game: the last moment its records exist).
EndedGameIsFiled ==
    [][(/\ loop # None /\ loop' = None
        /\ loop.finished # None /\ session.owner # None)
       => \E i \in DOMAIN recorder'.filed : recorder'.filed[i].owner = session.owner]_vars

\* Both sides read the sub-game alike once it is over: a survival as soon as it
\* is one, a capture once it was conceded on the cell we claimed (TurnLoop.outcome,
\* TurnLoop.concede), whichever answers were lost and turns sent again.
OutcomesAgree ==
    (/\ SameGame /\ driver.over # None
     /\ \/ role = Thief /\ (driver.over = Survival => ~session.caught)
        \/ role = Cop /\ driver.over = Survival
        \/ role = Cop /\ driver.confirmed /\ driver.pos = loop.claimed)
    => Outcome(peer) = driver.over
=============================================================================
