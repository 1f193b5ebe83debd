------------------------- MODULE StartUpProperties -------------------------
(***************************************************************************)
(* What two processes that were started on their own agree on before a     *)
(* step of theirs counts.                                                  *)
(***************************************************************************)
EXTENDS StartUp

Playable(p, q) ==
    /\ Role(p) # Role(q)
    /\ conf[p].convention = conf[q].convention /\ conf[p].group # conf[q].group =>
            Role(p) = RoleFor(conf[p].group, conf[q].group, conf[p].number,
                              SubGames, conf[p].convention)

\* Two cops chase nobody: no step is played between two peers of the same role,
\* or in roles their convention gives the other way round, once either's
\* declaration was served before it went on, even if the refusal was lost on
\* its way back (declare_step0, step0_role_check, outstanding_clash).
ClashIsNotPlayed ==
    \A p \in Peers : applied[p] /\ heard # {} => Playable(p, Other(p))

\* what both of them declare is the same, and each says who it is
Consistent(p, q) ==
    /\ conf[p].group # conf[q].group
    /\ conf[p].named /\ conf[q].named
    /\ \A f \in DOMAIN conf[p].declares \cap DOMAIN conf[q].declares :
            conf[p].declares[f] = conf[q].declares[f]

\* A step is played only in one sub-game, and by teams that agree, unless one
\* of them answers hello with nothing that can be judged (compare on both sides
\* before either commits, _check_game).
PlayedAsAgreed ==
    \A p \in Peers : applied[p] =>
        LET q == Other(p) IN
        /\ conf[p].number = conf[q].number
        /\ Consistent(p, q) \/ \E r \in Peers : conf[r].hello # "nested"

Agreeing(p, q) ==
    /\ Consistent(p, q)
    /\ conf[p].declares # <<>> /\ conf[q].declares # <<>>
    /\ conf[p].number = conf[q].number
    /\ conf[p].convention = conf[q].convention
    /\ conf[p].typed = None /\ conf[q].typed = None
    /\ Runs(p) /\ Runs(q)

\* Neither gate turns away a peer that agrees: two such peers that are up at
\* the same time, with no call lost, both come to play, in whatever order they
\* knock, greet, declare and commit.
AgreeingPeersPlay ==
    \A p \in Peers :
        LET q == Other(p) IN
        (Agreeing(p, q) /\ Up(p) /\ Up(q))
            ~> (faults > 0 \/ (pc[p] = "playing" /\ pc[q] = "playing"))

\* A process that was started ends or plays: none waits for ever for a peer
\* that refused, gave up, or never came (the knock's and the turn's deadline).
NobodyHangs ==
    \A p \in Peers :
        (pc[p] = "knocking" /\ Runs(p))
            ~> pc[p] \in Gone \cup {"playing", "reference"}
=============================================================================
