------------------------------- MODULE Series -------------------------------
(***************************************************************************)
(* The score of a series.  The scoring engine keeps a tally while the      *)
(* sub-games are played; afterwards each team rebuilds the series from the *)
(* logs it wrote, under the numbers it gave them, and files the engine's   *)
(* verdict next to the summaries that both teams hash.                     *)
(***************************************************************************)
EXTENDS Roles, Sequences, FiniteSets

CONSTANTS
    Teams,      \* the two group ids
    SubGames,   \* the signed num_sub_games
    Tables,     \* score tables: points of either role, per result
    TieScore    \* constants.TIE_SCORE

Results == {"capture", "survival", "technical_loss"}
TieRules == {"series_add", "series_replace", "per_subgame"}
\* as in Settlement: over the series, from another start, or per repository
Numberings == {"global", "offset", "per_role"}
Nobody == 0

ASSUME SeriesAssumption ==
    /\ Teams \subseteq Nat \ {0} /\ IsFiniteSet(Teams) /\ Cardinality(Teams) = 2
    /\ SubGames \in Nat \ {0} /\ TieScore \in Nat
    /\ Tables \subseteq [Results -> [Roles -> Int]]

Rival(team) == CHOOSE other \in Teams : other # team
Zero == [team \in Teams |-> 0]

VARIABLES
    terms,      \* what the pairing agreed, and how each team numbers
    played,     \* the results so far
    tally       \* the running SeriesTally

vars == <<terms, played, tally>>

-----------------------------------------------------------------------------
(***************************************************************************)
(* The scoring engine (domain/scoring.py).                                 *)
(***************************************************************************)
\* by role
Award(result) == terms.table[result]

WinnerRole(result) ==
    CASE result = "capture" -> "police"
      [] result = "survival" -> "thief"
      [] OTHER -> "nobody"

IsDrawnRow(result, paid) ==
    result # "technical_loss" /\ \A s, t \in Teams : paid[s] = paid[t]

\* what a sub-game pays, with the tie score of a drawn row where it is due
Paid(roles, result) ==
    LET award == [t \in Teams |-> Award(result)[roles[t]]]
    IN  IF IsDrawnRow(result, award) /\ terms.tieRule = "per_subgame"
        THEN [t \in Teams |-> award[t] + TieScore]
        ELSE award

NewTally == [totals |-> Zero, wins |-> Zero, ties |-> 0]

Record(sum, row) ==
    [totals |-> [t \in Teams |-> sum.totals[t] + row.score[t]],
     wins |-> [t \in Teams |->
        sum.wins[t] + IF row.roles[t] = WinnerRole(row.result) THEN 1 ELSE 0],
     ties |-> sum.ties + IF IsDrawnRow(row.result, row.score) THEN 1 ELSE 0]

\* a tally after every row in turn
TallyOf(rows) ==
    LET sum[k \in 0..Len(rows)] ==
            IF k = 0 THEN NewTally ELSE Record(sum[k - 1], rows[k])
    IN  sum[Len(rows)]

IsLevel(scores) == \A s, t \in Teams : scores[s] = scores[t]
LeaderOf(scores) ==
    IF IsLevel(scores) THEN Nobody
    ELSE CHOOSE t \in Teams : scores[t] > scores[Rival(t)]

Finalise(sum) ==
    [total_score |->
        CASE IsLevel(sum.totals) /\ terms.tieRule = "series_add" ->
                [t \in Teams |-> sum.totals[t] + TieScore]
          [] IsLevel(sum.totals) /\ terms.tieRule = "series_replace" ->
                [t \in Teams |-> TieScore]
          [] OTHER -> sum.totals,
     won |-> sum.wins,
     winner |-> LeaderOf(sum.totals)]

-----------------------------------------------------------------------------
(***************************************************************************)
(* The series as it is played (MatchService.run_series).                   *)
(***************************************************************************)
RoleOf(team, k) == RoleFor(team, Rival(team), k, SubGames, terms.convention)
RolesIn(k) == [t \in Teams |-> RoleOf(t, k)]

Row(k, roles, result) ==
    [sub_game |-> k, roles |-> roles, result |-> result,
     score |-> Paid(roles, result)]

Init ==
    /\ terms \in [convention : Conventions, table : Tables,
                  tieRule : TieRules, numbering : [Teams -> Numberings]]
    /\ played = <<>>
    /\ tally = NewTally

Play(result) ==
    /\ Len(played) < SubGames
    /\ played' = Append(played, result)
    /\ LET k == Len(played')
       IN  tally' = Record(tally, Row(k, RolesIn(k), result))
    /\ UNCHANGED terms

Next == \E result \in Results : Play(result)

Spec == Init /\ [][Next]_vars

-----------------------------------------------------------------------------
(***************************************************************************)
(* The series as a team rebuilds it (assemble_series).  Its logs are named *)
(* by number and role, and read in that order.                             *)
(***************************************************************************)
NumberOf(team, k) ==
    CASE terms.numbering[team] = "global" -> k
      [] terms.numbering[team] = "offset" -> k + 1
      [] OTHER -> Cardinality({i \in 1..k : RoleOf(team, i) = RoleOf(team, k)})

LogOf(team, k) ==
    [number |-> NumberOf(team, k), role |-> RoleOf(team, k), result |-> played[k]]

\* what is in S, as Python's sorted leaves it
Sorted(S, precedes) ==
    CHOOSE s \in [1..Cardinality(S) -> S] :
        \A i, j \in DOMAIN s : i < j => <<s[i], s[j]>> \in precedes

ByName(logs) ==
    {p \in logs \X logs :
        \/ p[1].number < p[2].number
        \/ p[1].number = p[2].number /\ p[1].role = "police" /\ p[2].role = "thief"}

SeriesLogs(team) ==
    LET logs == {LogOf(team, k) : k \in DOMAIN played}
    IN  Sorted(logs, ByName(logs))

\* the place of log i by the role convention: the slots of its role are
\* filled in the order of the logs
Slot(team, logs, i) ==
    LET n == Len(logs)
        rank == Cardinality({h \in 1..i : logs[h].role = logs[i].role})
        slots == {k \in 1..n : RoleFor(team, Rival(team), k, n,
                                       terms.convention) = logs[i].role}
        fits == {k \in slots : Cardinality(slots \cap 1..k) = rank}
    IN  IF fits = {} THEN 0 ELSE CHOOSE k \in fits : TRUE

\* mutant: the numbers the logs carry
RecordedIndices(team, logs) == [i \in DOMAIN logs |-> logs[i].number]

CanonicalIndices(team, logs) ==
    IF {logs[i].number : i \in DOMAIN logs} = 1..Len(logs)
    THEN [i \in DOMAIN logs |-> logs[i].number]
    ELSE [i \in DOMAIN logs |-> Slot(team, logs, i)]

\* roles come from the log and are not derived again
LoggedRoles(team, log) ==
    [t \in Teams |-> IF t = team THEN log.role ELSE OtherRole(log.role)]

\* logs of one position stay in their order
ByPosition(places) ==
    {p \in places \X places :
        \/ p[1].position < p[2].position
        \/ p[1].position = p[2].position /\ p[1].log < p[2].log}

Outcomes(team) ==
    LET logs == SeriesLogs(team)
        positions == CanonicalIndices(team, logs)
        places == {[position |-> positions[i], log |-> i] : i \in DOMAIN logs}
        order == Sorted(places, ByPosition(places))
    IN  [k \in DOMAIN order |->
            LET log == logs[order[k].log]
            IN  Row(order[k].position, LoggedRoles(team, log), log.result)]

FinalResult(outcomes) == Finalise(TallyOf(outcomes))

-----------------------------------------------------------------------------
(***************************************************************************)
(* What both teams hash (agreed_summary and interop_summary): the rows,    *)
(* and totals summed once more.  Neither is told the tie rule.             *)
(***************************************************************************)
PointsOf(t, rows) ==
    LET sum[k \in 0..Len(rows)] ==
            IF k = 0 THEN 0 ELSE sum[k - 1] + rows[k].score[t]
    IN  sum[Len(rows)]
ScoresOf(rows) == [t \in Teams |-> PointsOf(t, rows)]
WinnerOf(row) ==
    LET winners == {t \in Teams : row.roles[t] = WinnerRole(row.result)}
    IN  IF winners = {} THEN Nobody ELSE CHOOSE t \in winners : TRUE

\* mutant: the tie score in place of the sums
TotalsReplaced(rows) ==
    LET scores == ScoresOf(rows)
    IN  [total_score |-> IF IsLevel(scores) THEN [t \in Teams |-> TieScore]
                         ELSE scores,
         won |-> [t \in Teams |->
            Cardinality({k \in DOMAIN rows : WinnerOf(rows[k]) = t})],
         winner |-> LeaderOf(scores)]

SeriesTotals(rows) ==
    LET scores == ScoresOf(rows)
    IN  [total_score |-> IF IsLevel(scores)
                         THEN [t \in Teams |-> scores[t] + TieScore]
                         ELSE scores,
         won |-> [t \in Teams |->
            Cardinality({k \in DOMAIN rows : WinnerOf(rows[k]) = t})],
         winner |-> LeaderOf(scores)]

AgreedSummary(outcomes) ==
    [sub_games |-> outcomes, totals |-> SeriesTotals(outcomes)]

\* the league's word for the one result it spells otherwise
LeagueResult(result) == IF result = "technical_loss" THEN "timeout" ELSE result

LeagueRow(row) ==
    [sub_game_number |-> row.sub_game, roles |-> row.roles,
     result |-> LeagueResult(row.result), winner_group |-> WinnerOf(row),
     score |-> row.score]

\* the same sums, over the league's rows
LeagueAggregate(rows) ==
    LET scores == ScoresOf(rows)
        level == IsLevel(scores)
    IN  [total_score |-> [t \in Teams |-> scores[t] + IF level THEN TieScore ELSE 0],
         won |-> [t \in Teams |->
            Cardinality({k \in DOMAIN rows : rows[k].winner_group = t})],
         winner |-> LeaderOf(scores)]

InteropSummary(outcomes) ==
    LET rows == [k \in DOMAIN outcomes |-> LeagueRow(outcomes[k])]
    IN  [sub_games |-> rows, aggregate |-> LeagueAggregate(rows)]

\* the result artifact: what is filed, and what is hashed beside it
ResultArtifact(team) ==
    LET outcomes == Outcomes(team)
    IN  [num_sub_games |-> Len(outcomes), final_result |-> FinalResult(outcomes),
         own |-> AgreedSummary(outcomes), league |-> InteropSummary(outcomes)]
=============================================================================
