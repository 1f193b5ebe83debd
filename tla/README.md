# A verification of p2pchase

p2pchase plays a two-party pursuit game (cop and thief on a grid, 35 steps, permanent walls)
between two teams' processes on the open internet, **without a referee**. Everything a
referee would do is done by a protocol: every step is sealed before it is shown, captures
are claimed by one side and conceded by the other, and at the end both sides disclose their
chains and audit each other. This directory models that protocol in TLA+, checks it with TLC
and proves its core with TLAPS. Paths below are under `src/src/p2pchase/`.

## 1. The system

### Parts, their state and their operations

| Part | Files | State | Operations |
|---|---|---|---|
| Board and own world | `domain/board.py`, `own_state.py` | walls, own position, own step count, count of opponent steps seen | legal moves, wall targets, settle and apply a move, apply the opponent's wall, boxed in, survival reached |
| Turn protocol, native wire | `runtime/peer.py`, `peer_session.py`, `session_disclosure.py`, `opponent_ending.py`, `watchdog.py`, `domain/protocol.py`, `audit.py` | pending step, applied records, opponent's commitments, ending flags, last audit, two clocks | play a step, run the sub-game, exchange chains, abort |
| Handlers and payloads | `mcp/handlers.py`, `contracts.py`, `client.py` | abort reason, the shared session | one handler per tool; the client's timeout |
| Hosting and start-up | `runtime/peer_host.py`, `cli/network_commands.py` | server task, role clash, first commitment | bring up, knock, greet, declare, play, tear down |
| Handshake and negotiation | `services/handshake.py`, `negotiation_service.py`, `config_proposal.py`, `agreement_floor.py` | terms and fingerprints declared | greet, compare, propose |
| Served turn wire | `mcp/interop.py`, `runtime/turn_loop.py`, `declaration_trace.py`, `served_recorder.py`, `pairing_guard.py`, `wall_capture.py` | the turn loop's round and ending, last claim, recorded keys, series number | declare, submit a turn, concede, agree |
| Reference wire | `runtime/reference_*.py`, `session_terminal.py`, `mcp/reference_v3*.py` | four inboxes, the driver's position | agree, push a turn, await a turn, wrap up, audit |
| Gatekeeper | `infra/gatekeeper.py`, `queueing.py`, `rate_limiter.py`, `retrying.py` | tokens, daily count, burst window and latch, FIFO of tickets | execute a call through the four gates |
| Settlement and ledger | `services/settlement_report.py`, `network_artifacts.py`, `reports/history.py`, `tools/sync_thief.py` | log, result, receipt and ledger files of two repositories | record a sub-game, rebuild the series, enter it, mail it, once |
| Scoring, roles, series rules | `domain/scoring.py`, `roles.py`, `reports/series_assembly.py`, `agreed.py`, `consensus.py`, `result.py` | a running tally | award, tally, derive roles, rebuild a series, sum what is hashed |
| Sensing | `domain/smell.py`, `scent_*.py`, `belief.py`, `trail_*.py` | scent grids, a delay line, a belief over cells | emit, decay, sample, fit a deposit |
| Brains | `domain/brains.py`, `cop_brain.py`, `thief_brain.py` | recent cells, stall counter | decide a move, a wall, a sentence |
| Rehearsal harness | `runtime/local_match.py`, `match_side.py` | two worlds in one process | play a whole sub-game |
| Sealing | `domain/crypto.py`, `kit_seal.py`, `core_terms.py` | none | commit, verify |
| Reports, SDK, CLI, UI, configuration | `reports/`, `sdk/`, `cli/`, `ui/`, `shared/` | files | write, print, draw |

### How they interact

One process is a **runner** (client: `PeerRunner`) and a **server** (`PeerHandlers`) on one
asyncio loop over one `PeerSession`, with no locks: whatever runs between two awaits is
atomic, and the session may have changed at every await. (That one loop is what `runtime/peer_host.py:15`
says; the tools are plain functions, and a framework that ran those on worker threads would
break it. The models take it as said.) The runner calls the *opponent's*
handlers over the network; the handlers change *our* session. The two processes share
nothing else. The threads of the gatekeeper and the files of settlement (two role processes
on one machine) are the only other shared state.

One step, for both peers alike: decide and seal (`prepare_step`) → push the commitment → poll
until theirs is here → push the reveal (hint, wall, capture claim; the reply says whether
the thief was caught) → poll until theirs is here → apply the own step → ask for the trail →
look whether it is over.

### What is hard

* **Stale state across awaits.** Four awaits lie between sealing a step and applying it. A
  claim must meet the step it was made for.
* **Knowledge split in two.** The cop knows where it is, the thief whether it was caught, the
  thief alone whether it is boxed in; both must report the same result.
* **Endings racing with play.** A final reveal can arrive instead of the awaited message, and
  its answer is a snapshot of a peer that is still playing.
* **Clocks that are not shared.** Each side samples the other's trail, greets and declares when it
  gets there itself; the other may be a step ahead or behind.
* **Threads and files without locks.** Several threads cross the gatekeeper; two processes read
  and write each other's logs, and a crash between mail and receipt forgets the mail.
* **Failures.** A call can raise although it was served, be served long after it raised, or
  meet a process that has exited; clocks can expire on a live opponent.

What makes each part correct:

* *turn protocol*: no peer sees a step before it is bound to its own; claims are answered in
  their own step; concessions are true; no contradictory endings; honest chains audit clean; no
  deadlock and no endless wait;
* *board*: the two private boards agree;
* *start-up*: two cops never play, a pair that disagrees never plays, a pair that agrees does;
* *served wire*: step numbers never reused, a retry never restarts a game and a new game is never
  taken for a retry, each ended sub-game filed once;
* *reference wire*: one action each per round, both drivers end on the same result, a game in
  which everybody answered is no technical loss, nobody waits for ever;
* *gatekeeper*: the burst threshold holds for threads too, the daily limit is overshot by less than one call
  per thread, every call ends and leaves no ticket behind;
* *settlement*: what is mailed is the series that was played, the ledger first, and once from each process;
* *series rules*: two teams that number their logs differently hash the same rows and totals;
* *sensing*: a field is what the trail left, a sample is as old as agreed or one turn older, a fit of
  samples taken in time explains the cell just trod;
* *brains*: neither side walls itself in, and a wall on the thief ends the game.

## 2. The modules

| Module | Models |
|---|---|
| `Board` | `domain/board.py` and `OwnState.settle_move`: cells, legal moves, wall targets and quota, escape. |
| `PeerProtocol` | One sub-game on the native wire: both runners, both servers, the network between them. |
| `CommitReveal` | The abstract promise: two players that seal before either discloses. |
| `StartUp` | Two processes from the command line to the first step (`Roles`). |
| `ServedTurns` | The served wire: our door, its turn loop and its recorder, called by another team's program. |
| `ReferenceWire` | The reference wire: two drivers that push turns into each other's inboxes. |
| `Gatekeeper` | Threads crossing the four gates in front of an external call. |
| `Settlement` | Two role processes from the end of a sub-game to the receipt, file by file (`Roles`). |
| `Roles` | `domain/roles.py`: who is the cop of a sub-game, under either convention. |
| `Series` | The tally, the rebuild of a series from logs, and the sums both teams hash (`Roles`). |
| `Trail` | Scent: kernels, emission, decay, the delay line, the fit of a deposit. |
| `Brains` | What the shipped brains may decide: the rules that forbid. |
| `Chase` | Two worlds played by `Brains` over `Trail`, in the harness or across the wire. |
| `*Properties` | The properties of each, and for the native wire the refinement mapping to `CommitReveal`. |
| `MC*` | The instance of each for TLC. |
| `PeerProofs`, `StartUpProofs`, `ServedProofs`, `ReferenceProofs`, `GatekeeperProofs`, `SettlementProofs`, `SeriesProofs`, `ChaseProofs` | The theorems and their proofs. |

### `PeerProtocol` against the code

* `pc[p]` is the await the runner is parked at; **an action is the code between two awaits**,
  or one handler answering one request. `Call` sends the request and parks, `Returned` is the reply.
* `pending[p]` is `PeerSession._pending` (decision and record), `records[p]` the steps applied,
  `held[p]` the keys of `opponent_commitments`, `seen[p]` `state.opponent_steps_seen`,
  `oppFinished[p]` `opponent_finished`, `iAmCaught[p]` `i_am_caught`, `verdict[p]` the audit the
  runner returns, `phase[p]` `machine.phase`.
* `requests` are the calls on the wire, in no order. A caller that has failed leaves its request
  there: it is served later or never. A reply to a caller that has moved on is dropped.
* The brain is `Decisions(p)`: any legal move, or, for the cop, any legal wall. The own cell
  is left out as a wall target, since the cop's brain does not wall itself in.
* A commitment is abstracted to its step number: every step is sealed once, with a fresh
  nonce, and honestly. Hints, scent grids and beliefs only inform decisions and are left out; the
  scent *call* stays, because it is an await and can fail.
* The failure of a call or the expiry of a clock costs one unit of `faults` while the opponent
  is alive, and is free once it is gone.

### `ServedTurns` against the code

* A handler of the served surface contains no await, so **an action is one call**, with every
  state change it makes. `peer` is `InteropAdapter`: `session` (its `PeerSession`), `loop`
  (`_turns`, `None` until the first turn) and `recorder`. An operator on `peer` is named for the
  function it stands for: `AtTheDoor`, `Restart`, `Absorb`, `TakeTurn`, `Settle`, and so on.
* `Hello` stands for `hello` and `propose_config`, which do the same to this state. `Declare` is
  `declare_step0`; its `clash` is the verdict of the role check. `Handover`, `ThiefTurn`, `CopTurn` and
  `SendAgain` are `submit_turn`: opener or not (`Arrived`), then decline, concede or answer
  (`Answers`). `ConfirmResult`, `FinalAudit` and `AgreeResult` are the endings.
* A commitment is the sub-game it seals a step of: `held[step]` is `opponent_commitments[step]`,
  and a turn sent again carries the same one.
* `session.owner`, `session.resent` and the `owner` of a filed row are the model's: which of the
  driver's sub-games a turn was of, and whether one came twice.
* **The driver is external.** It plays honestly on a board of its own, as thief (nil handover first)
  or as cop (claiming its cell; claiming a wall's cell or not, which teams read differently), with
  or without step-0 declarations; it may fail to hear an answer and send the turn again, play on
  after a refusal, and give a sub-game up and start the next. A call always arrives; only its answer is lost.

### `StartUp` against the code

* `conf[p]` is the command line and configuration of a process; `Start` types it. From there
  `pc[p]` is the await of `host_and_play` it is parked at: `Knock` (`_await_opponent`), `Greet` and
  `Judge` (`_check_terms`, `NegotiationService.compare`), `Open` (the dialect), `Declare`, `Commit`,
  `AwaitCommit`, `Reveal`, `AwaitReveal`, `Abort`. Playing on is `PeerProtocol`, another team's
  reference program is `ReferenceWire`.
* `clash`, `held` and `applied` are `role_clash`, the first commitment and the first reveal in the
  session the handlers write; `Admits` is `_check_game`.
* A call is the caller's step and the handler's at once; or it fails unserved, or its answer is
  lost, or it is served late (`late`). `DeclareUnanswered` is the `except` that takes any failure of
  step 0 for a tool the other does not have.
* Terms and fingerprints are the set of fields declared and a value each.

### `ReferenceWire` against the code

* `peer[p]` is a driver with its session, its loop and its three inboxes. It yields only in a push
  and in a wait, so **an action runs from one of these to the next**; the handlers behind the inboxes
  only append. `Act` is `ReferenceDriver.act` with what `play_round` makes of it, `Receive` the thief's or
  the cop's half of the round, `Close` the terminal step, `ReadTerminal` `wrap_up`.
* `Delivered` and `Raised` are the two ways of a call; one that raises may have arrived. A turn whose
  push raises takes the driver down (`pc = "crashed"`), as no `except` of `run_sub_game` names it.
* A deadline is free when nothing more would come (`Silent`) and costs a fault otherwise. `idle` says that
  the watchdog, as patient as the wait for the agreement, has been running since then.
* `stops` is a cop of the dialect that ends at the ceiling unprompted.

### `Gatekeeper` against the code

* Only `OverflowQueue` takes a lock; a thread may be suspended at any call, so **an action runs from
  one call that touches shared state to the next**: `Check`, `Peek` and `Take` (the bucket is read
  and stored in two steps), `Join`, `HeadTries`, `GiveUp`, `Leave`, `Record` and `Judge` (append and
  verdict of the detector), `Consume`, and the call with its retries.
* Time is `Tick`, in which the bucket earns one token; ages of events are counted in ticks; `events` and
  `cleared` count, for every age, the events of that age or a smaller one. `Midnight` resets the quota. `cleared` and `spent` are the model's: what really passed.

### `Settlement` against the code

* `pc[r]` and `job[r]` are where `record_sub_game` of a role's process is and what it has read;
  **an action is one file operation**: `OpenLog` empties the log file, `CloseLog` completes it,
  `GatherLogs` reads both repositories' (a half-written one raises), `WriteResult`, then
  `fire_if_settled` with the ledger, the mail and the receipt.
* `terms.numbering` is how the other team numbers sub-games; `SlotOf` is `canonical_indices`.
* `Crash` may fall between any two; `cut[r]` counts the sends whose receipt it prevented. `Replay` is
  a sub-game played again under its number, `SendByHand` the CLI's command, `Sync` `tools/sync_thief.py`.

### `Series` against the code

* `Play` is one sub-game of `MatchService.run_series` with `SeriesTally.record`. `Outcomes(team)` is
  `assemble_series` on that team's logs, `FinalResult` the engine's verdict on them, `AgreedSummary` and
  `InteropSummary` the two digests' content, `ResultArtifact` what is filed.
* `Sorted` is Python's `sorted`, of the logs by number and role and of their places by position. The sums are recursive functions
  over the rows, as the loops of the code are; the folds and sorts of the libraries take operators, which the provers
  cannot follow.

### `Trail`, `Brains` and `Chase` against the code

* Strengths are integers in millionths, exact for these kernels and the three or four decays a run has;
  after more of them a decay rounds down (`Rounding`, nine millionths for each deposit at most).
  `Record` and `Transmitted` are `LaggedTrail`; `ExactFits` is the set of centres at which
  `deposit_centre` finds no error, which is what it promises to find (the least wrong cell, when there is
  none, is not computed).
* `FitDeposit` is the cop's alone: `track_deposit` is on in `config/police/setup.json` and nowhere else, and
  only a peer session passes it on; the harness builds its sides without a setup (`local_match.py`:43), so it
  never fits, and always plays the book's scent model.
* `Brains` keeps what forbids. The cop's target is any cell, since a belief may name any; it may wall or
  walk; among equal walls it takes any of the best. Of the legal moves the thief keeps `Survivable`. In
  `_keeps_us_mobile` the exception for a wall on the target never applies: `_evaluate` finds no path to a
  walled target and has rejected it before.
* `Chase` has two paths. On `"harness"` the actions are those of `local_match.py`, the cop first. On
  `"wire"` they are the peers': `Decide`, `Reveal` (the other's `on_reveal`), `Apply`, `Pull`, `EndOfTurn`.
  Calls succeed here; what failure does is `PeerProtocol`. `trod`, `prompt` and `landed` are history: `prompt`
  counts the cop's latest samples in a row that were taken in time, after the thief's step and before the end of its turn.

## 3. The runs

| Run | Expect | Shows |
|---|---|---|
| `peer_protocol` | pass | invariants, refinement and termination of one sub-game on the native wire |
| `start_up` | pass | whom two processes play with, and that neither hangs |
| `served_turns` | pass | steps, boards, outcomes and filed rows of two sub-games served to one team |
| `reference_wire` | pass | rounds, boards, outcomes and termination of one sub-game on the reference wire |
| `ends_in_an_outcome` | violation | a push that raises ends a driver in a traceback |
| `gatekeeper` | pass | quota, burst, types and termination for three threads |
| `settlement` | pass | what is mailed, when, and that a series is settled |
| `settled_once` | violation | both processes mail a report of one series |
| `series` | pass | both teams file and hash the same |
| `digest_follows_the_tie_rule` | violation | a level series is filed under one tie rule and hashed under another |
| `chase` | pass | fields, samples, fits and walls of four short games |
| `trail_is_inverted` | violation | a lagged trail is not fitted exactly |

**`peer_protocol`.** `NoPeek` and `ImplementsCommitReveal`: the order of
sealing and showing. `AnsweredInTheSameStep`: a claim is answered from the cell of its own
step, even when its request is late. `BoardsAgree`: the thief, which adds declared walls
unchecked, has the cop's board, plus at most the wall in flight. `ConcessionIsTrue`: between
steps, a conceding thief is on the cop's cell or in a wall, and a thief in a wall has conceded.
`NoContradiction`: the reported results. `HonestChainAudits`: an honest
chain is never "invented", and only a step begun after the exchange can be missing.
`FaultFreeNeverAborts`: without a fault, no clock runs out. `Terminates`: both processes end.

**`start_up`.** `ClashIsNotPlayed`: once either's declaration was served before it went on, no step is
played in equal or swapped roles, although a lost refusal is taken for a missing tool.
`PlayedAsAgreed`: a step is played in one sub-game and by teams that agree (a team whose `hello` carries
nothing to judge apart). `AgreeingPeersPlay`: no gate turns an agreeing peer away. `NobodyHangs`.

**`served_turns`.** `StepsAreMonotone`: no two records of ours share a step number,
whatever arrives and however often. `SessionHoldsOneGame`: an opener is recognised, so that no session
ever holds commitments of two sub-games. `OutcomesAgree`: once the driver's sub-game is over our outcome
is its own (for a cop's win, once it is conceded on the cell we claimed). `EndedGameIsFiled`,
`FiledOnce`: one row per sub-game, sessions in which a turn came twice excepted (`resent`): such a turn is
played as a new one. `OutcomesAgree` excepts a survival claimed while our own last move lost, and a
boxed-in thief that concedes its own cell instead of the wall we claimed, which `concede` refuses.

**`reference_wire`.** `OneActionEach`: nobody acts twice before the other has, with turns arriving
twice. `BoardsAgree`. `OutcomesAgree`: two drivers whose calls went through file the same ending, the
claim of the last round included; a thief walled in by the last claim excepted, whose cop is never told.
`NoTechnicalLoss`: a game in which everybody answered is not one, even with a cop that falls silent at
the ceiling. `EverySubGameEnds`.

**`gatekeeper`.** `BurstIsBounded`: no more calls than the threshold leave within a window.
`OvershootIsBounded`: the quota, read before the wait and counted after it, is overshot by less than one
call per thread; TLC reaches that overshoot. `EveryCallEnds`: again and again nobody is inside and no ticket is in
line; one that outlived its caller would show. `TypeOK` matters here because the bucket stores a stale value:
its level stays within its capacity. What the bucket grants over time is bounded by no property; the
unlocked stores of `allow` and of `seconds_until` (`Measure`, `Nap`) may grant more than the rate.

**`settlement`.** `MailedRowsAreTrue`: every row of a mailed report stands in the place of the sub-game
it reports. `LedgerComesFirst`: a mailed game is in its sender's ledger, of either process, but for a thief
whose repository was synced meanwhile (section 3, below). `AttemptedOncePerProcess`: the sentinel works
within one process.
`SeriesIsSettled`: whoever writes its log last finds the others' and attempts the report.

**`series`.** `BothReportTheSame`: whatever numbers each team gave its logs, both file the same artifact
with the tally's verdict, and every row is the sub-game played there. `VerdictIsTheDigest`: four sums of one
series agree, except for the total of a level series under a rule the digests are not told.

**`chase`.** `FieldIsTheTrail`: a field lies within what the cells trod, each decayed on its own, can
leave, rounding apart. `HeardAsAgreed`: a sample is never of a later turn, and at most one turn older than agreed.
`FreshTrailIsInverted`: on the wire, with the shipped lag of 0, the cell just trod explains a sample exactly when
it and the one before were taken in time. `CopStaysFree`: no series of walls
leaves the cop without a move. `BoxedInByAWall`: a thief is never boxed in but by a wall of that very turn.
`NobodyPlaysOnInAWall`: rule 46 on the wire.

### What the violation runs say

Each quotes its line in `PROJECT.json`.

* `ends_in_an_outcome`: `push_turn` lets a transport error through, and no `except` of `run_sub_game` names it.
* `settled_once`: the receipt lies in one repository and is not seen from the other.
* `trail_is_inverted`: under a lag of 1 the snapshot (`own_state.py`:112) lies between the decay and the emission, so
  consecutive samples differ by a deposit and then a decay; the fit assumes the other order, and no cell explains the
  sample. The shipped lag is 0 (`config/*/game.json`). There the fit is exact for samples taken in
  time, which is what `FreshTrailIsInverted` claims; a cop that samples before the thief has made its step, or after the
  thief has ended its turn, finds a residual at a lag of 0 too, and `TrailIsInverted` fails there as well. How wrong the
  cell then chosen is, is not shown.
* `digest_follows_the_tie_rule`: the hashed totals always add the tie score.

Reading the code for the models also turned up the following. The first group are behaviours the models
have, and the properties above say no more than holds beside them; no run states them.

* Native wire: a thief whose aim is walled in the same step answers from where it stays, while its sealed
  record names the cell aimed at (`peer_session.py`:137). A thief that steps onto the cop's cell while the cop
  builds a wall is asked about the wall's cell, and both play on from one cell (`peer_session.py`:177). A thief
  walled in by the last step reports a capture and its cop a survival (`peer.py`:208). The chain answered
  to a final reveal can lack a step committed before the answer is audited, which the audit lists as
  withheld (`session_disclosure.py`:36). Nothing reads `aborted_reason`: a peer told of an abort sits out its
  clock (`handlers.py`:269). The phase jumps from idle to finalising (`session_disclosure.py`:35).
* Settlement: `tools/sync_thief.py` copies `config/` with the cop's ledger over the thief's (`_copy`, lines 83-94). The
  entry of a series that the thief's process settled is erased, so that repository counts a game less the next time,
  against `history.py`:49-54 ("the two repositories can no longer disagree"); before the sync the cop's lacks the
  entry. `LedgerComesFirst` excepts exactly that (`syncs`).
* Served wire: a turn with a commitment that comes twice is answered with a second move
  (`turn_loop.py`:82, against 127-129). `submit_turn` does not ask for the role clash that refused the caller at
  step 0 (`interop.py`:301). `note_caller` renames the recorder's opponent before the door has judged the caller
  (`interop.py`:86). A survival can be on the wire and a capture in the record (`turn_loop.py`:241).
  A confirmation that names no ending is read as the concession of a claimed capture (`turn_loop.py`:115);
  the run's driver names what it confirms (`Unstated` FALSE), and one team calls (`Callers`).
* Reference wire: a cop is never told of a thief walled in by its last claim (`reference_driver.py`:250). The
  watchdog runs from the construction of the driver, so a peer that never pushes an agreement uses it up
  before the first turn (`reference_driver.py`:86).
* Gatekeeper: a newcomer takes a refilled token before the head of the line (`gatekeeper.py`:145).
* Start-up: a `hello` that carries nothing to judge is played (`peer_host.py`:261).

The second group lies outside what the models distinguish:

* `SubGameOutcome.tie` is set nowhere, so the `ties` that are hashed are always 0, while
  `SeriesTally.ties` counts drawn rows.
* A series of technical losses only is level and, under `series_add`, pays 2 to each side, which
  `scoring.py`:72-76 says rule 6 is there to prevent.
* `reports/agreed.py`:34 says the tie score "replaces" the totals; the code adds it.
* The harness never counts rule 46: `terminal_outcome` compares cells and looks for exits
  (`local_match.py`:115, against `board.py`:13-14).
* A result built after the ledger was written counts its own series twice among the games played
  (`standings.py`:90, called at `network_artifacts.py`:275 before the ledger the first time and after it later).
* At a lag of 1 a spoken claim about turn *n* is judged by the drift of the trail of the turn before
  (`match_side.py`:113-148).

### Bounds

**`peer_protocol`.** `GridSize` 2, `MaxBarriers` 2, `MaxMoves` = `SurvivalThreshold` = 3, `MaxFaults` 1.
On a 2x2 grid with opposite corners the thief can be caught by a move in the first step and
boxed in by two walls in the second, cells can be swapped, and a wall can land on a cell being
entered. Three steps give a first, a middle and a last one, and let box-in fall before and
(with a standing step) on the last. One fault puts a late request, a lost reply or an expired
clock at every await; two would compound failures of peers one of which is then already
closing. About 278,000 states.

**`start_up`.** One correct team and, for each side, that team with one thing wrong at a time (four against
fourteen configurations): another number, convention or typed role, our own group id, no name, nothing
declared, another value of a field, a flat or absent `hello`, no step 0, another dialect. Two faults: the lost
answer of a refusal and one more. 43,592 states.

**`served_turns`.** The 2x2 grid. `SurvivalThreshold` 2 and `MaxStep` 3: the
thief's claim of survival falls on the step after the threshold on our side and on it on the
driver's. Two sub-games (`MaxGames`) give an opener that follows a sub-game played, ended or given up, and the same
number declared twice, which opens a new series. `MaxLosses` 2 lets one turn come three times. One
team calls a door that was started for another (`GameGroup`), so the pairing is always corrected first.
1,081,166 states.

**`reference_wire`.** The 2x2 grid, three steps, one fault, one copy: a turn may come twice
at any later moment, or one call raise, before or after it arrived, or one deadline run out on a live
peer. Three rounds make a copy stale, current and early. 115,124 states. `ends_in_an_outcome` needs two steps, no walls
and one fault.

**`gatekeeper`.** Three threads, four calls, one token, a quota of 1, a threshold of 2, a line of 2, waits
of 2, one retry: the last unit is contended, the line is full, somebody gives up behind the head and
somebody crosses the threshold. 301,452 states.

**`settlement`.** Three sub-games (the roles change within them, both ways), one replay, one crash, one
sync, all three numberings and both conventions; one ledger per repository. The log directories start empty: logs
of an earlier or voided series with the same opponent (`reporting_service.py`:154-189) do not occur. 221,205 states. `settled_once` needs two
sub-games and neither replay nor crash.

**`series`.** Four sub-games, two conventions, three tie rules, every pair of numberings, the table of Appendix F
and one under which a sub-game can draw. 13,068 states; a state carries the whole rebuild.

**`chase`.** A 3x3 grid, two walls, three turns in the harness and two on the wire; five games with several starts: the
book's model at both lags on both paths, and the subtractive one on the wire (the harness has only the book's). Three turns
saturate a cell; two on the wire are two samples and a fit; two walls and an edge box a thief in.
`MinSafeExits` is 3, as cells on the edge of a 3x3 board have three exits (2 is
shipped for 7x7); the other thresholds are those shipped. 42,698 states. `trail_is_inverted` plays the one game on the wire with a lag of 1.

Runs whose system really stops (a series over, both drivers gone) say `CHECK_DEADLOCK FALSE`;
`peer_protocol`, `served_turns` and `gatekeeper` check deadlock.

### Fairness

* Native wire (`PeerProtocol`): (1) a runner whose await is over is scheduled: asyncio runs every
  ready task; (2) a request whose caller is still parked on it is served: the connection is open
  and the handlers do not wait on anything; nothing is assumed of a request whose caller has
  given up; (3) a runner waiting on a process that has exited gives up: connections are refused,
  and every polling loop checks both clocks of `watchdog.py`. No fairness is assumed of faults.
  `Ended` stutters only when both processes have exited.
* `StartUp`, `ReferenceWire`: a process, or a driver, that can go on does: all its waits are polls with a
  deadline. Starting a process is not fair, a fault neither.
* `Gatekeeper`: a thread inside `execute` is scheduled; time goes on (strongly, as the model stops the clock inside
  a call of the bucket or the detector). A caller is not obliged to call.
* `Settlement`: a process that has a sub-game to record goes on. Crashes, replays, the sync and sending by hand
  are not fair.
* `ServedTurns`, `Series`, `Chase`: none. A driver owes us nothing, and nothing is claimed to happen.

## 4. What is proved

**The native wire.** `PeerProofs` proves, for every grid, quota, horizon, move ceiling and number of faults, from
`BoardAssumption` and `ProtocolAssumption` alone (a grid of two cells a side, positive horizons, starts on the board, a `None`
that is none of the values it stands beside):

* `TypeCorrectness`: `Spec => []TypeOK`;
* `NobodyPeeks`: `Spec => []NoPeek`;
* `ClaimsMeetTheirStep`: `Spec => []AnsweredInTheSameStep`;
* `Refinement`: `Spec => ImplementsCommitReveal`.

All rest on `Invariance`: `Spec => []Inv`. `NoPeek` alone is not inductive: that a reveal finds
its step open depends on which requests can still be on the wire. `Inv` therefore relates, for each
peer, what the runner's `pc` says about its step (sealed or not, pushed or not, revealed or not)
to the commitments the other holds, to the reveals it has counted, and to the requests of each
kind that may exist. Its parts: `Stage` (where the runner is parked against its turn and its
sealed step), `Abreast` (the reveals counted are those of the last step or of this one, and of
the last only when nothing is sealed), `Committed` (what the opponent holds, and that a commitment
on the wire is of the current step and unanswered) and `Shown` (when the opponent has counted the
reveal, and that a reveal on the wire is the only one, of the current step, with both
commitments held). One lemma per action shows that the
action preserves it; `CommitReveal`'s `Seal` and `Disclose` are then the images of `BeginStep` and an accepted
`ServeReveal`, and every other action is a stutter.

A second part carries the same system to the end of the sub-game. It adds to `Inv` what a message may say and
what an ending may rest on, and proves:

* `BoardsStayTogether`: `Spec => []BoardsAgree`. A wall is put on the thief's board when the reveal is counted and on the cop's when
  the step is applied, so the boards differ inside a step. `Told` says that a reveal on the wire is what its sender has sealed and not
  yet applied; `Walls`, that the thief's board is the cop's with the wall it has shown and not built.
* `ConcessionsAreTrue`: `Spec => []ConcessionIsTrue`. `Known` says when each runner knows of a concession, `Conceded` that the thief
  conceded only if the cell it answers for (where it will be once its step is applied) is the one the cop lands on or a wall, and
  always if it is a wall.
* `HonestChainsAudit`: `Spec => []HonestChainAudits`. `Chains` says that a peer discloses a record of every step it has sealed and that the
  other holds the commitment of each, the last one perhaps excepted; `Audited`, that what an auditor finds missing is at most
  the one step that was sealed after the chain was given.
* `NoContradictions`: `Spec => []NoContradiction`. `Reasoned` gives each outcome its reason: true of the board, or the other's word.
* `NobodyAbortsUnprovoked`: `Spec => []FaultFreeNeverAborts`. `Announced` says that, no fault having happened, whoever has left
  has told the other so or has left after it: so no call to it fails and nobody waits for it in vain.

**The gatekeeper.** `GatekeeperProofs` proves, for any finite set of threads and every capacity, window,
threshold, quota, depth of the line, number of retries and patience, from `GatekeeperAssumption` alone:

* `TypeCorrectness`: `Spec => []TypeOK`. A thread that stores a value of the bucket it read before
  another took from it still leaves no more than the capacity; a ticket taken from the middle of the
  line leaves a line.
* `OvershootBounded`: `Spec => []OvershootIsBounded`. The bound on `spent` alone is not inductive:
  `Consume` would break it. `Admission` adds the threads that have passed the check and are not
  counted yet (`Passed`): what is spent plus those in between stays below the quota plus the number of
  threads, because a thread is admitted only while a unit is left, and `Consume` moves one thread
  from the one term to the other. `NobodyEnters` covers every other action.
* `BurstBounded`: `Spec => []BurstIsBounded`. A detector that appends and judges under no lock clears no more
  calls than its threshold within a window. `Detected` says why: a thread between its append and its verdict (`Judging`) is counted
  and not cleared, so the events of every age or a smaller one are at least the cleared ones and those being
  judged; who is cleared has read a count within the threshold that included itself.

**Settlement.** `SettlementProofs` proves, for any number of sub-games, replays, crashes and syncs, whether the two
processes share a repository or not, from `SettlementAssumption` (two different teams, an opponent the ledger does not
name yet, a `None` that is no receipt):

* `SentinelHolds`: `Spec => []AttemptedOncePerProcess`. The sentinel is read long before it is written, so the
  count of attempts says nothing about the file by itself. `Accounted` closes the books: the attempts of a process are
  those a crash cut off, the one under way between the mail and the receipt, and the one that left the receipt; and
  a process past the check has no receipt yet.
* `LedgerIsFirst`: `Spec => []LedgerComesFirst`, for both processes. `InLedger` says where a process may be while its
  ledger does not name the game: not past the ledger, without a receipt, with nothing mailed, or with its ledger
  copied over (`CopiedOver`, the thief's after a sync). No other step forgets a game.
* `MailedAsPlayed`: `Spec => []MailedRowsAreTrue`. `Told` says
  that every log of a sub-game is what that sub-game leaves, that the rows a process holds came from such logs, and that a
  result past the check is complete and is not rewritten before the send. That a complete result
  numbers each sub-game as it was played is a matter of `canonical_indices`: a row's number is the rank of its log among those of
  its role, and the rank lemmas show that rows take different slots, so as many rows as sub-games fill all of them.

**Start-up.** `StartUpProofs` proves `ClashNotPlayed`: `Spec => []ClashIsNotPlayed`, for any two configurations
(groups as numbers, a role typed or derived), any number of sub-games and of lost, late and unanswered calls. The
property speaks of a step played and of a declaration heard, and the two are tied together by what lies in between. `Inv` says, for a caller
and its callee: once the declaration was served in time the callee's `clash` is the verdict on it (`Judged`); the callee
holds a commitment of one sub-game only, never of a caller it found to clash, and none of a caller that has not declared yet (`Bound`);
and a reveal, applied, pushed or still on its way, comes from a peer that holds the other's commitment (`Opened`). So a step that is played
needs both commitments, and one good verdict among them is enough: by `RolesAreComplementary` the two teams derive
opposite roles in whatever order they name each other, so a verdict passed by one peer tells the roles of both.
`StepsKeepInv` covers every action at once: each is a step of one peer that moves it, may leave a call behind and may change
the other's session by the call it makes (`Steps`).

`AgreedBeforePlay`: `Spec => []PlayedAsAgreed` needs one part more, `Met`: a peer that finds something to refuse in a greeting it can read
is not beyond greeting, has no commitment under way and has none that was received. A step is played only by two peers that hold each other's commitment.

**The served wire.** `ServedProofs` proves, for every grid, threshold, number of sub-games and of answers lost, from `ServedAssumption`:

* `StepsNeverGoBack`: `Spec => []StepsAreMonotone` and `OneGamePerSession`: `Spec => []SessionHoldsOneGame`, however many teams
  call. The door cannot see which sub-game a turn is of; only the driver knows. `Inv` has a part for each: `Door` (our records ascend and are of rounds of the loop, it has seen a turn if and only if the session holds a commitment, and all it holds is of one sub-game) and
  `Caller` (what the driver believes of the session: once it has a turn behind it, the session it speaks to holds its sub-game
  and no other). The step that could break it is a first turn sent again, which opens a session anew.
* `EndedGamesAreFiled`: `Spec => EndedGameIsFiled`, an action property, for one calling team and a threshold above 1 (35 is shipped;
  `constants.py`). `Files` adds what a key on file says: a key of the session's own series and number means that the artifact
  on disk is of the session's sub-game. Both hypotheses are needed. With two teams TLC finds an ended sub-game that is not
  filed: `note_caller` (`mcp/interop.py`) names the recorder's opponent after the caller before the door has judged the
  caller, so the key may be that of the other team. With a threshold of 1 a sub-game ends on its first turn.
* `OneSetPerSubGame`: `Spec => []FiledOnce`, under the same two hypotheses and a third, `ApartAtStart`: the cop cannot reach the
  thief's start in one move (the shipped starts are three rows and three columns apart). `Single` follows a sub-game from the turn that makes
  the session its own (`Owned`) to the row it leaves (`Once`), and says of the driver that its sub-game is not on file
  while it is played (`AtIt`). What could break it is a sub-game that ends before its driver has heard anything: a first turn whose answer is lost is
  sent again, and at a door that has ended in between it opens a second session of the same sub-game. Between
  neighbouring starts TLC finds just that: the cop captures with its first turn, the answer is lost, and the game is filed twice with neither turn
  seen twice by either session.
* `BothReadTheSame`: `Spec => []OutcomesAgree`, for any set of teams, starts and threshold, whichever answers are lost and turns sent
  again, provided a driver that confirms a result names it. That hypothesis, `~Unstated`, is needed: TLC finds a thief that confirms its survival without
  naming it, which `record_ending` takes for a survival and `concede` for a capture on the cell we claimed
  last. `Accord` relates what the driver saw to the loop and the records: of the sub-game the session holds the driver has taken no more turns
  than we have records, so a survival of its own is borne out by `outcome`'s horizon; a thief's answer says no more than its loop holds; and our cop, which nothing can
  catch, holds a capture only where one was conceded.

**The reference wire.** `ReferenceProofs` proves, for every grid, start, quota, threshold and horizon, whether the cop is of the dialect that
stops at the ceiling or not, and however many calls raise, deadlines run out and turns arrive twice, from `ReferenceAssumption` and
`BoardAssumption`:

* `TypeCorrectness`: `Spec => []TypeOK`, `NobodyActsTwice`: `Spec => []OneActionEach` and `WallsAreShared`: `Spec => []BoardsAgree`.
  Nothing in a turn says whether it has come before, so `Inv` counts: `Rounds` says that a driver reads the other's turns in order, one per
  round, and that where it stands tells how many it has sealed; `Sent`, that every turn on its way is of a step its sender has sealed,
  and that nobody has read more of them than there are; `Boards`, that a turn carries the last wall built until it is
  read. The lemmas on the inbox (`FirstIsFound`, `KeptWasThere`) say that a turn taken is of the step waited for and that the turns kept were there.
* `NobodyStalls`: `Spec => []NoTechnicalLoss` and `OneEnding`: `Spec => []OutcomesAgree`. `Ending` adds two parts to `Inv`. `Story` holds
  whatever fails: `Running` (who still plays has seen no ending, a thief that is caught files it), `Claims` (what a
  turn on its way claims, and that only the terminal step of a caught thief concedes) and `Grounded` (a capture anybody has seen is
  one). `Calm` holds while no fault has happened: `Smooth` (agreements and chains that were pushed are there, nobody
  has gone whom the other still needs), `LeftBehind` (a cop that has left leaves a thief waiting only at the ceiling, the
  one silence that is in order) and `Admitted` (the concession of a thief caught on a claim is owed, then in the cop's inbox, and stays there until it
  is read, copies and later turns included). Without `Admitted` nothing would tie what the cop files at the ceiling to what the thief knows.

**Chase.** `ChaseProofs` proves, for every grid, quota, lag, model of scent and number of turns, in the harness and across the wire, from
`ChaseAssumption` and `BoardAssumption` (a grid of two cells a side; the shipped floor is 7):

* `TheCopStaysFree`: `Spec => []CopStaysFree`, `BoxedInOnlyByAWall`: `Spec => []BoxedInByAWall` and
  `NoPlayInsideAWall`: `Spec => []NobodyPlaysOnInAWall`. The cop's brain exempts a wall on its target from the
  rule that keeps it mobile (`_keeps_us_mobile`), so the exemption might wall it in. It never does: a target that
  becomes a wall is not reached by any path, the brain rejects it before the exemption is asked, and `CopIsFree`
  is kept. `InStep` relates the two worlds' boards and turns, `ThiefIsFree` and `ThiefIsInTheOpen` say that a thief
  whose turn it is has an exit and stands on no wall: the only step that takes them from it is a wall of the cop's.

The scent has invariants of its own, relative to the one above, and an induction of its own: the provers cannot be
given the library's induction theorems, whose parameter is an operator, but its `NatLessThanWellFounded` and `WFMin`
speak of sets, and from them come `LeastIn`, `SetInduction` and `PrimitiveRecursion` (what is given at 0 and from each
number to the next exists). With these the recursive definitions of the properties unfold.

* `LiveTrailsAreInverted`: `Spec => []FreshTrailIsInverted`. `Followed` ties the thief's field to the last sample the cop took
  in time: that sample, then decayed, then with the new cell's kernel on it, as the thief goes on by at most one turn (`Seen`).
  `FitRepeatsTheTrail` says that the fit does the same in the same order, so the cell just trod is among those it finds
  no error at. A sample out of time breaks `Followed`, and `prompt` starts again at 0.
* `SamplesAreAsAgreed`: `Spec => []HeardAsAgreed`. `Scented` says for each side how many emissions its trail has in each place of its turn, and which
  recomputed field (`Emitted`, `Stale`) its field and its line hold then; with `Turns` that bounds what a
  sample taken at any moment may be, and `AllowedStays` keeps it so while the other side moves on.
* `TrailsAreExplained`: `Spec => []FieldIsTheTrail`. `EmissionExplained` and `DecayExplained` carry what is left of every deposit through a turn.
  Proving it showed that the capped sum alone is no upper bound in integers: a decay of the field rounds once where
  the pieces round each for itself, and after some turns more than a run has the difference shows. A piece is short of at most
  nine millionths however long it decays (`TogetherWeakens`), which is what `Rounding` allows.

**Series.** `SeriesProofs` proves, for any number of sub-games, any score table, every tie rule and role convention and
however each of two teams numbers its logs, from `SeriesAssumption` (two teams, at least one sub-game, whole points):

* `ReportsAreTheSame`: `Spec => []BothReportTheSame`. `RebuiltAsPlayed` follows one team's logs: no two have one number and
  role (`NamesDiffer`), so they can be sorted (`SortedIsInOrder`) and are a permutation of the sub-games that keeps
  those of a role in order (`LogsAreArranged`); as many logs of its role come up to a log as slots of the role up to its
  place (`RanksAreSlots`), so `canonical_indices` puts each where it was played. When the numbers are a whole
  series already they are the places, also where each repository counts for itself (`NumbersRise`): then one role has played them all.
* `VerdictIsHashed`: `Spec => []VerdictIsTheDigest`. `Inv` says that the tally is each of the sums of the rows so
  far: the engine's, the points of a team and its wins. A sum is a recursive function, so the invariant carries that it exists and
  that it has one value, and `TallyGrows`, `PointsGrow` and `WinsGrow` say what one more row does to each.

**Only model-checked.** The liveness properties (`Terminates`, `EverySubGameEnds`, `EveryCallEnds`, `SeriesIsSettled`,
`AgreeingPeersPlay`, `NobodyHangs`): they depend on fairness and ENABLED, which are outside the prover. Every
safety property and action property of the passing runs is proved.

## 5. What is not modelled

* **Belief, trust and spoken claims** (`belief.py`, `trail_reading.py`, the decoding of hints): products of
  floats and centroids, beyond TLC's integers. They rank decisions that the models leave open.
* **How good a decision is**: scores of moves, stalls, idling, deception. Any decision the rules of the brains
  allow may be taken in `Chase`, any the board allows in the wires.
* **Hashing and dishonest chains**: a seal is bound to its step; both peers run this code. On the served
  and the reference wire the content of an audit is left out.
* **Tools around a sub-game of the native wire**: `negotiate`, `audit_result`, `agree_result`, and the proposal
  a served peer answers (`config_proposal.py`).
* **On the served wire**: scent and hints, the audit of a chain disclosed there, and a write of artifacts that
  fails.
* **Content of reports**: texts, names, token counts, commits, hardware; the mail itself is sent or not, answered or not.
* **Configuration, SDK, CLI, UI, the survey of another team's tools**: no protocol state.

## 6. Plan

Done: the native wire and its refinement, start-up, the served wire, the reference wire, the gatekeeper, settlement,
series, chase; the proofs of section 4.

Left, in order:

1. `config_proposal.py` and `negotiate` in `StartUp`.
2. Two teams taking turns at one served door, and an ending derived at the horizon that a restart does not file.
