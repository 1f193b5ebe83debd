----------------------------- MODULE Settlement -----------------------------
(***************************************************************************)
(* How a counted series is filed.  The team's cop and thief are two        *)
(* processes in two repositories.  Each records the sub-games it played,   *)
(* rebuilds the series' result from the logs of both repositories and,     *)
(* when the result is complete, enters the game in the ledger, mails the   *)
(* report and leaves a receipt.  Every file operation is a step: the other *)
(* process may run, and either may crash, between any two.                 *)
(***************************************************************************)
EXTENDS Roles, FiniteSets

CONSTANTS
    Mine, Theirs,   \* the group ids
    SubGames,       \* the signed num_sub_games
    Homes,          \* the ledger files
    Home,           \* the ledger file of each role's process
    Earlier,        \* the opponents of the counted games before this one
    Opponent,       \* the opponent of this one
    None,
    MaxReplays,     \* bound: sub-games played again
    MaxCrashes,     \* bound: crashes of a role's process
    MaxSyncs        \* bound: runs of tools/sync_thief.py

ASSUME SettlementAssumption ==
    /\ SubGames \in Nat \ {0}
    /\ Mine \in Nat /\ Theirs \in Nat \ {Mine}
    /\ Home \in [Roles -> Homes]
    /\ Opponent \notin Earlier
    /\ IsFiniteSet(Earlier)
    /\ None \notin {"sent", "failed"}
    /\ {MaxReplays, MaxCrashes, MaxSyncs} \subseteq Nat

VARIABLES
    terms,      \* what the pairing fixed: convention and numbering
    ended,      \* sub-games over and not yet recorded, per role
    over,       \* how many sub-games of the series are over
    replays, crashes, syncs,
    logs,       \* the log files of each repository
    result,     \* its result file
    receipt,    \* its receipt file
    ledger,     \* opponents, per ledger file
    mails,      \* the reports that reached the league
    pc, job,    \* where each role's process is, and what it holds
    attempts,   \* sends each process has started on its own account
    cut         \* those whose receipt a crash prevented

files == <<logs, result, receipt, ledger>>
vars == <<terms, ended, over, replays, crashes, syncs, files, mails, pc, job,
          attempts, cut>>

RoleIn(k) == RoleFor(Mine, Theirs, k, SubGames, terms.convention)
Numberings == {"global", "offset", "per_role"}

\* the number the sub-game is played under: the other team declares it, and
\* teams count over the series, from another start, or per repository
NumberOf(k) ==
    CASE terms.numbering = "global" -> k
      [] terms.numbering = "offset" -> k + 1
      [] OTHER -> Cardinality({i \in 1..k : RoleIn(i) = RoleIn(k)})

LogOf(k, whole) ==
    [number |-> NumberOf(k), role |-> RoleIn(k), game |-> k, whole |-> whole]

(***************************************************************************)
(* canonical_indices: the recorded numbers if they are 1..n, otherwise the *)
(* logs of either role fill the slots of that role in recorded order.      *)
(***************************************************************************)
Numbered(found) == {log.number : log \in found} = 1..Cardinality(found)

Slots(role, n) ==
    {k \in 1..n : RoleFor(Mine, Theirs, k, n, terms.convention) = role}

Rank(x, S) == Cardinality({y \in S : y < x})

SlotOf(log, found) ==
    LET same == {l.number : l \in {m \in found : m.role = log.role}}
        slots == Slots(log.role, Cardinality(found))
        fits == {s \in slots : Rank(s, slots) = Rank(log.number, same)}
    IN  IF fits = {} THEN 0 ELSE CHOOSE s \in fits : TRUE

Position(log, found) ==
    IF Numbered(found) THEN log.number ELSE SlotOf(log, found)

\* refresh_result: the rows, and what standings_block reads off the ledger
Report(found, entries) ==
    [rows |-> {[position |-> Position(log, found), game |-> log.game,
                role |-> log.role] : log \in found},
     played |-> Cardinality(entries) + 1,
     first |-> Opponent \notin entries]

\* mutant: complete by the report's own count
CompleteInItself(report) ==
    {row.position : row \in report.rows} = 1..Cardinality(report.rows)

\* incompleteness: the signed count, and the numbers 1..N once each
Complete(report) ==
    /\ Cardinality(report.rows) = SubGames
    /\ {row.position : row \in report.rows} = 1..SubGames

\* the opponents in the ledger file r's process reads
Entries(r) == ledger[Home[r]]

Points == {"idle", "writing", "logged", "gathered", "refreshed", "counting",
           "counted", "sent"}
Free == [game |-> 0, found |-> {}, entries |-> {}, sent |-> FALSE]

Init ==
    /\ terms \in [convention : Conventions, numbering : Numberings]
    /\ ended = [r \in Roles |-> {}]
    /\ over = 0 /\ replays = 0 /\ crashes = 0 /\ syncs = 0
    /\ logs = [r \in Roles |-> {}]
    /\ result = [r \in Roles |-> None]
    /\ receipt = [r \in Roles |-> None]
    /\ ledger = [h \in Homes |-> Earlier]
    /\ mails = {}
    /\ pc = [r \in Roles |-> "idle"]
    /\ job = [r \in Roles |-> Free]
    /\ attempts = [r \in Roles |-> 0]
    /\ cut = [r \in Roles |-> 0]

-----------------------------------------------------------------------------
(***************************************************************************)
(* The match.  A sub-game ends in the process of its role; when that       *)
(* process records it is another matter.                                   *)
(***************************************************************************)
EndOf(k) == ended' = [ended EXCEPT ![RoleIn(k)] = @ \cup {k}]

EndSubGame ==
    /\ over < SubGames
    /\ over' = over + 1
    /\ EndOf(over')
    /\ UNCHANGED <<terms, replays, crashes, syncs, files, mails, pc, job,
                   attempts, cut>>

\* a sub-game the teams play again, under its number
Replay(k) ==
    /\ replays < MaxReplays
    /\ k \in 1..over
    /\ replays' = replays + 1
    /\ EndOf(k)
    /\ UNCHANGED <<terms, over, crashes, syncs, files, mails, pc, job,
                   attempts, cut>>

-----------------------------------------------------------------------------
(***************************************************************************)
(* record_sub_game, from file to file.                                     *)
(***************************************************************************)
At(r, from, to) == pc[r] = from /\ pc' = [pc EXCEPT ![r] = to]
Match == <<terms, over, replays, crashes, syncs, cut>>

\* the log file is opened, which empties it
OpenLog(r) ==
    /\ At(r, "idle", "writing")
    /\ \E k \in ended[r] :
        /\ ended' = [ended EXCEPT ![r] = @ \ {k}]
        /\ job' = [job EXCEPT ![r].game = k]
        /\ logs' = [logs EXCEPT ![r] =
                {log \in @ : log.number # NumberOf(k)}
                    \cup {LogOf(k, FALSE)}]
    /\ UNCHANGED <<Match, result, receipt, ledger, mails, attempts>>

CloseLog(r) ==
    /\ At(r, "writing", "logged")
    /\ LET k == job[r].game
       IN  logs' = [logs EXCEPT ![r] =
                (@ \ {LogOf(k, FALSE)}) \cup {LogOf(k, TRUE)}]
    /\ UNCHANGED <<Match, ended, job, result, receipt, ledger, mails, attempts>>

\* its own directory, and the sibling's
Found == UNION {logs[r] : r \in Roles}
Readable == \A log \in Found : log.whole
BackToIdle(r) ==
    pc' = [pc EXCEPT ![r] = "idle"] /\ job' = [job EXCEPT ![r] = Free]

\* series_logs: a log half written raises out of record_sub_game
GatherLogs(r) ==
    /\ pc[r] = "logged"
    /\ \/ /\ Readable
          /\ pc' = [pc EXCEPT ![r] = "gathered"]
          /\ job' = [job EXCEPT ![r].found = Found]
       \/ ~Readable /\ BackToIdle(r)
    /\ UNCHANGED <<Match, ended, files, mails, attempts>>

WriteResult(r) ==
    /\ At(r, "gathered", "refreshed")
    /\ result' = [result EXCEPT ![r] =
            Report(job[r].found, Entries(r))]
    /\ UNCHANGED <<Match, ended, job, logs, receipt, ledger, mails, attempts>>

(***************************************************************************)
(* fire_if_settled: a receipt, or a report that is not complete, ends it.  *)
(* Otherwise record_counted_game reads the ledger and, unless it names     *)
(* them, writes it.                                                        *)
(***************************************************************************)
\* mutant: only the process of the last sub-game reports
DueAfterTheLast(r) ==
    receipt[r] = None /\ Complete(result[r]) /\ job[r].game = SubGames

Due(r) == receipt[r] = None /\ Complete(result[r])

NotDue(r) ==
    /\ pc[r] = "refreshed"
    /\ ~Due(r)
    /\ BackToIdle(r)
    /\ UNCHANGED <<Match, ended, files, mails, attempts>>

\* mutant: the ledger is left for later
LedgerLater(r) ==
    /\ At(r, "refreshed", "counted")
    /\ Due(r)
    /\ UNCHANGED <<Match, ended, job, files, mails, attempts>>

ReadLedger(r) ==
    /\ pc[r] = "refreshed"
    /\ Due(r)
    /\ job' = [job EXCEPT ![r].entries = Entries(r)]
    /\ pc' = [pc EXCEPT ![r] =
            IF Opponent \in Entries(r) THEN "counted" ELSE "counting"]
    /\ UNCHANGED <<Match, ended, files, mails, attempts>>

WriteLedger(r) ==
    /\ At(r, "counting", "counted")
    /\ ledger' = [ledger EXCEPT ![Home[r]] = job[r].entries \cup {Opponent}]
    /\ UNCHANGED <<Match, ended, job, logs, result, receipt, mails, attempts>>

Mailed(r) == mails' = mails \cup {[from |-> r, report |-> result[r]]}

\* send_result: delivered or not, and known to be or not
Send(r) ==
    /\ At(r, "counted", "sent")
    /\ attempts' = [attempts EXCEPT ![r] = @ + 1]
    /\ \E sent \in BOOLEAN :
        /\ job' = [job EXCEPT ![r].sent = sent]
        /\ Mailed(r) \/ (~sent /\ mails' = mails)
    /\ UNCHANGED <<Match, ended, files>>

\* mutant: only a success leaves a receipt
ReceiptOfSuccess(r) ==
    /\ pc[r] = "sent"
    /\ receipt' = [receipt EXCEPT ![r] = IF job[r].sent THEN "sent" ELSE @]
    /\ BackToIdle(r)
    /\ UNCHANGED <<Match, ended, logs, result, ledger, mails, attempts>>

\* the receipt says whether it was sent, and is written either way
WriteReceipt(r) ==
    /\ pc[r] = "sent"
    /\ receipt' = [receipt EXCEPT ![r] =
            IF job[r].sent THEN "sent" ELSE "failed"]
    /\ BackToIdle(r)
    /\ UNCHANGED <<Match, ended, logs, result, ledger, mails, attempts>>

Step(r) ==
    \/ OpenLog(r) \/ CloseLog(r) \/ GatherLogs(r) \/ WriteResult(r)
    \/ NotDue(r) \/ ReadLedger(r) \/ WriteLedger(r) \/ Send(r)
    \/ WriteReceipt(r)

-----------------------------------------------------------------------------
(***************************************************************************)
(* What the operator does, and what may befall a process.                  *)
(***************************************************************************)
\* the process is gone, with what it held and had not recorded
Crash(r) ==
    /\ crashes < MaxCrashes
    /\ pc[r] # "idle" \/ ended[r] # {}
    /\ crashes' = crashes + 1
    /\ cut' = [cut EXCEPT ![r] = IF pc[r] = "sent" THEN @ + 1 ELSE @]
    /\ ended' = [ended EXCEPT ![r] = {}]
    /\ BackToIdle(r)
    /\ UNCHANGED <<terms, over, replays, syncs, files, mails, attempts>>

\* send-report --live, on a failed receipt: the result file as it is now
SendByHand(r) ==
    /\ receipt[r] = "failed"
    /\ Complete(result[r])
    /\ Mailed(r)
    /\ UNCHANGED <<Match, ended, files, pc, job, attempts>>

\* sync_thief: config/ is copied over the thief's, artifacts/ is not
Sync ==
    /\ syncs < MaxSyncs
    /\ ledger[Home["thief"]] # ledger[Home["police"]]
    /\ syncs' = syncs + 1
    /\ ledger' = [ledger EXCEPT ![Home["thief"]] = ledger[Home["police"]]]
    /\ UNCHANGED <<terms, ended, over, replays, crashes, logs, result,
                   receipt, mails, pc, job, attempts, cut>>

Next ==
    \/ EndSubGame
    \/ \E k \in 1..SubGames : Replay(k)
    \/ \E r \in Roles : Step(r) \/ Crash(r) \/ SendByHand(r)
    \/ Sync

Spec == Init /\ [][Next]_vars
\* a process that is recording goes on, and records what is over
FairSpec == Spec /\ \A r \in Roles : WF_vars(Step(r))
=============================================================================
