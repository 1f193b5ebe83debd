------------------------ MODULE SettlementProperties ------------------------
(***************************************************************************)
(* What settlement owes the league: a report of one series, all of it, and *)
(* one per series.                                                         *)
(***************************************************************************)
EXTENDS Settlement

\* A report that was mailed has the signed number of rows, and each stands at
\* the place of the sub-game it reports, however the logs were numbered and
\* whichever of them were rewritten meanwhile (incompleteness, canonical_indices).
MailedRowsAreTrue ==
    \A mail \in mails :
        /\ {row.game : row \in mail.report.rows} = 1..SubGames
        /\ \A row \in mail.report.rows :
            row.position = row.game /\ row.role = RoleIn(row.game)

\* A game is in its sender's ledger before the report can reach anyone, and stays
\* there whatever crashes, fails or is written later (settlement_report.py:88-90:
\* "written BEFORE the send and regardless of it"), unless the thief's repository
\* was synced: that copies the cop's ledger over it, and with it may erase a game
\* (sync_thief.py _copy).
LedgerComesFirst ==
    \A mail \in mails :
        \/ Opponent \in ledger[Home[mail.from]]
        \/ mail.from = "thief" /\ syncs > 0

\* A process attempts the report once, sent or not, unless it crashed between
\* a send and its receipt (the sentinel of settlement_report.py:29-33).
AttemptedOncePerProcess == \A r \in Roles : attempts[r] <= 1 + cut[r]

\* A series whose last sub-game is over is reported by one of the processes,
\* or at least attempted, unless one of them crashed: the last to write its
\* log finds the others' (series_logs).
SeriesIsSettled ==
    []( over = SubGames
        => <>(crashes > 0 \/ \E r \in Roles : receipt[r] # None))

\* README.md:314 says of the counted report "exactly once, with a receipt on
\* disk as the sentinel".
SettledOnce == attempts["police"] + attempts["thief"] <= 1
=============================================================================
