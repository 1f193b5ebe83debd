-------------------------- MODULE SeriesProperties --------------------------
(***************************************************************************)
(* What a series is worth, whoever adds it up.                             *)
(***************************************************************************)
EXTENDS Series

Over == Len(played) = SubGames

\* However each team numbers its logs, the two file one artifact: the same
\* rows, totals and verdict under both digests, every row the sub-game that
\* was played in that place, and the verdict the one of the running tally.
\* Rule 35 voids the match for both otherwise.
BothReportTheSame ==
    Over =>
        /\ \A s, t \in Teams : ResultArtifact(s) = ResultArtifact(t)
        /\ \A t \in Teams :
            /\ ResultArtifact(t).final_result = Finalise(tally)
            /\ LET rows == ResultArtifact(t).own.sub_games
               IN  \A k \in 1..SubGames :
                    /\ rows[k].sub_game = k
                    /\ rows[k].roles = RolesIn(k)
                    /\ rows[k].result = played[k]

\* Four sums of one series agree: the engine's verdict in the filed result is
\* the one of both hashed summaries, save for the total of a level series
\* under a rule the summaries do not know.
VerdictIsTheDigest ==
    Over => \A t \in Teams :
        LET artifact == ResultArtifact(t)
            filed == artifact.final_result
            hashed == artifact.own.totals
        IN  /\ hashed = artifact.league.aggregate
            /\ filed.winner = hashed.winner
            /\ filed.won = hashed.won
            /\ \/ filed.total_score = hashed.total_score
               \/ filed.winner = Nobody /\ terms.tieRule # "series_add"

\* The hashed total follows the tie rule the pairing declared, which
\* assemble_series takes so that one codebase has one answer.
DigestFollowsTheTieRule ==
    Over => \A t \in Teams :
        LET artifact == ResultArtifact(t)
        IN  artifact.final_result.total_score = artifact.own.totals.total_score
=============================================================================
