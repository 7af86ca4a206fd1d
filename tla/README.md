# Verification of the Exposure Academy services

TLA+ models of the parts of this repository that are concurrent, leased, retried or otherwise hard to
test; TLC configurations that check them on small instances; and TLAPS proofs of what matters most for
every size. Each definition names the source lines it translates in `PROJECT.json` ("map").

## 1. Inventory

| Component | State it keeps | Operations | How it meets the others |
|---|---|---|---|
| AI Monopoly tournament queue (`academy/src/monopoly.rs`, migration 018) | tournament, game, attempt, event and worker rows | start, cancel, resource report, claim + lease recovery, heartbeat, events, result, demand | runners over HTTP, the administrator, PostgreSQL row locks |
| Submissions and artifacts (same file) | one submission row per team with generation and validation lease, archive files, temporary files, one upload permit | submit, reject, validation claim / heartbeat / result, upload, download, 6-hourly retention | controller over HTTP, tournament start freezes approved rows |
| Schedule (same file) | none (pure) | groups, balanced seats, seeds | called by start |
| Monopoly controller (`monopoly-worker/monopoly_controller.py`) | fleet of sessions and host runners, one validation at a time with a lease thread | allocate, reap, stop, validate, upload, approve | Academy API, Docker, Colab |
| Monopoly runner (`rl_monopoly_runner.py`, `shared_game.py`) | the game in play, a process per agent, strikes and times per seat, unsent events, heartbeat thread | prepare, play, flush, report, give up | Academy API, agents over pipes, the rules engine |
| Rules engine (`monopoly_game_engine/env.py`, `state.py`) | players, properties (ownership twice, monopolies cached), phase, turn, auction, offers, one rent debt, house and hotel supply | reset, step, allowed actions | called by the runner, for agents and fixed bots |
| Harness run queue (`academy/src/harness.rs`) | run rows (stage, lease, deadline, attempts), frames, Kaggle exports | submit, stop, fail, claim, heartbeat, stage, progress, frames, result | benchmark controller over HTTP |
| Benchmark controller (`benchmark-node/src/bin/controller.rs`, `academy.rs`) | lanes, running count, protection, retries | claim, run, supervise, report | Academy API, executor, EC2 API |
| EC2 fleet protection (`fleet.rs`) | protection and termination flags | protect, complete termination | Auto Scaling lifecycle hook |
| Executor and framing (`bin/executor.rs`, `ndjson.rs`) | two slots, adapter process, partial line | start, relay, stop | controller over a socket |
| Model gateway (`gateway.rs`) | key pool with leases and cool-downs | acquire, send, cool down | adapters over HTTP |
| Board, sessions, teams, grading, consent, portal, chatbot, admin pages, Academy Verified | single rows | form handlers | browser |

Hard behaviours: transactions that interleave under READ COMMITTED, leases that expire while their holder
lives, delayed and repeated requests, transactions lost after part of their work, an upload and its validation
that outlive each other, agents that crash or answer late, two sides that count the same game, a termination
hook racing a claim, cancelled reads in a `select!`, cash, property and buildings over long games of arbitrary
policies. They are listed with their lines under "hazards" in `PROJECT.json`.

What makes each correct, in a sentence: a game has one live attempt, and only it writes (queue); a verdict on
a tournament is true (queue); an approved submission has the archive it was approved with (submissions); a
schedule is balanced (schedule); supply and cash are conserved and a turn always ends (engine); a run has one
reporter and ends once (harness queue); a claimed run is not lost to a termination (fleet); a message is
delivered whole or not at all (framing); a key is used only while leased (gateway).

## 2. Plan

| Module | Models | Abstract specification | Proofs |
|---|---|---|---|
| `LeasedJob` | what both queues promise about a job that is leased, retried and credited once | itself | |
| `LeasedAttempt` | what the tournament queue and the runner both take one attempt at a game to be | itself | |
| `Entries` | what the validation of submissions promises the teams | itself | |
| `MonopolyGames` | tournament queue | `LeasedJob`, `LeasedAttempt` | `MonopolyGames_proofs` |
| `HarnessQueue` | benchmark run queue | `LeasedJob` | `HarnessQueue_proofs` |
| `NodeFleet` | lanes of a benchmark node and its scale-in protection | | `NodeFleet_proofs` |
| `Submissions` | validation of submissions, uploads, the controllers | `Entries` | `Submissions_proofs` |
| `GameRunner` | one leased game from both ends | `LeasedAttempt` | `GameRunner_proofs` |
| `MonopolyEngine` | the rules with any policies | | `MonopolyEngine_proofs` |
| `MonopolyProgress` | why a game by these rules ends (extends `MonopolyEngine`) | | `MonopolyProgress_proofs` |

All of these are written, checked and proved. `MC<module>` gives each its small instances.

What is left, in the order in which it would add most:

1. The removal of archives unused for 30 days, composed with `Submissions` and with the freezing of entries by a
   tournament start (hazard at `monopoly.rs:2614`).
2. The message framing between controller and executor (`ndjson.rs`) and the supervision of one run in the
   controller, composed with `HarnessQueue`.
3. The official Kaggle export queue with its credentials; the key pool of the model gateway.
4. The schedule as operators against a definition of balance.

## 3. MonopolyGames

**State.** `tournament`, `game`, `attempt`, `events` and `worker` are the tables of migration 018, reduced to
the columns that decide something. `lapsed` says that `lease_expires_at` has passed. A lease id is a fresh
UUID stored with the attempt row, so the pair (game, attempt number) stands for it. `round` goes the way of
`action_count`; seat metrics, the winner and log texts are left out; "unscheduled" is a row not inserted yet.

**Transactions.** Each handler is one transaction. Those that refresh a tournament (a result, and a claim that
recovers expired leases) count its games without a lock and write the counted numbers later, so they take two
steps: `Result` / `RecoverExpired` do everything up to the count and hold their row locks in `tx`;
`CommitResult` / `ClaimGame` / `ClaimNothing` write and commit. `Rollback` ends an open transaction without a
trace: a 412 to a worker that is not ready (which also undoes the recovery), a deadlock victim, a lost
connection. The other handlers are ordered by the row locks they take and are one step. A game row locked by
an open transaction blocks heartbeats, events, results and cancel, and is skipped by `skip locked`; a
tournament row written before the count (`partial_reason`) blocks other refreshes.

**Environment.** A request comes from the worker that was handed the attempt, at any later time and any
number of times. That covers delay, reordering, client retries, and runners that go on after losing a lease.

**Runs** (`MCMonopolyGames`).

| Run | Instance | Shows |
|---|---|---|
| `MonopolyReplay` | 1 game, 2 workers, 2 connections, 3 attempts, 2 events | types, `AttemptLedger`, `ReplayWhole`, `LapsedLeaseEnds`, `IsLeasedJob`, `IsLeasedAttempt` |
| `MonopolyVerdict` | 1 tournament of 2 games, 1 worker, 2 connections, 2 attempts, fairness | `NoGameLeftBehind`, `VerdictTrue` with unlocked counts; `GameSettles`: a queued game ends |
| `MonopolySkew` | 2 games, 1 attempt | violation of `LastGameCloses`: a finding, below |

Two events suffice for a gap, an overlap and a repeat; three attempts is the code's number; two connections
suffice for two transactions that overlap, and the count of one can miss only what others hold.

**`LeasedAttempt`** is one attempt as both of its ends must see it: opened once and empty, adding moves only while its
lease is live, ended once, completed or lost, with what it has. `attempts` maps each attempt row with its events to one,
for all games and attempt numbers at once; `GameRunner` maps the attempt of one worker to the same specification
(section 7), so what a worker assumes of the queue is what the queue does. `FinishedGameKept` and `ReplayFenced` say
more about rows and deadlines; they are theorems, and no run repeats them.

**Fairness** (`FairSpec`). Leases end (a runner stops after ten minutes or 50 000 actions and reports or is
gone); a runner reports ready after its game or when it is restarted; a ready runner polls; open transactions
end; and of transactions tried again and again some commit (strong fairness, since any one may be rolled back).

**Finding.** The results of the last two games of a tournament may overlap. Each counts the other as leased,
the second tournament update waits for the first and then writes its stale count, and the tournament stays
`active` with no game left; nothing refreshes it again.

**Proved** (`MonopolyGames_proofs`): see section 9.

## 4. HarnessQueue and LeasedJob

**State.** `run` holds the rows of `harness_runs`: stage, kind, `claim_attempts`, the lease token, what is left of the
lease and of the deadline, who recorded the commit, who reported, and which scores are set. `frames` holds, for each
frame number, the attempt that inserted it. `claim` is how far each open claim request has come, `attempt` how far the
controller of each attempt has come. A lease token is issued with each increment of `claim_attempts`, so the attempt
number stands for it. Progress payloads, error texts and the contents of frames are left out.

**Time** is kept as what remains until `lease_expires_at` and `deadline_at`. `Tick` takes one unit from all of them, so
a row may be before (> 0), at (0) or after (< 0) either, as the strict comparisons of the code tell apart.

**Statements.** `worker_harness_claim` runs three statements, each committed by itself: fail the runs past their deadline
and grace (`SweepDeadlines`), fail the runs whose third lease lapsed (`SweepLeases`), hand out a run (`ClaimRun`,
`ClaimNothing`). `ClaimLost` cuts a claim off after any of them. The other handlers are one statement, one action:
`Submit`, `Stop`, `Fail`, `Heartbeat`, `ReportStage`, `PostFrames`, `Result`. `ResultRefused` is the 400 of the result
handler as the controller takes it.

**Environment.** Heartbeats, frames and results may come for any attempt, at any time, again and again. A result has the
status that the adapter's `terminal_status` gives it; scores need a checkout that was reported.

**`LeasedJob`** is what both queues promise: a job is handed out at most MaxTries times, ends once, and is credited to
its current try only. `JobOf` in each module is the refinement mapping; `IsLeasedJob` is checked and proved.

**Runs** (`MCHarnessQueue`).

| Run | Instance | Shows |
|---|---|---|
| `HarnessRun` | 1 run, 2 overlapping claims, 2 attempts, lease 4, grace 2, deadline 11, 2 frames, fairness | types, `ScoresOfCommit`, `LeaseWithinGrace`, `HeldWhileActive`, `EndedRunKept`, `LiveLeaseHonoured`, `WritesFenced`, `IsLeasedJob`; `RunEnds`: a queued run ends |
| `HarnessRefused` | small | violation of `CompletedIsRecorded`: a finding |

The lease is longer than grace + 1, so that a lease set near the deadline is really cut; the grace has room for a result
between the deadline and its end; the deadline is long enough for both leases to lapse before it. Two attempts suffice for
a late holder and its successor; `HarnessRefused` has the three of the code. Runs meet only in the
unique index of `Submit` and in the choice of a claim, so one run with two claims shows the races, and the theorems cover
any number.

**Fairness** (`FairSpec`). Time passes. A controller polls every two seconds, so the first statement of a claim is
taken (weak); the later ones may be cut off, but not for ever (strong). Nothing is asked of the controllers that play.

**Finding.** A run of kind arc or frontier that does everything right reports `done` without the score of the other
benchmark, which the result handler refuses with 400; the controller does not retry and the scores are lost.

**Remark.** A reclaimed run keeps the frames of the lost attempt: `on conflict do nothing` on (run, number) lets them
shadow those of the attempt that is scored. `frames` in the model keeps which attempt each came from, and `WritesFenced`
says that only the holder adds to them.

## 5. NodeFleet

**State.** `lifecycle` and `protected` are what the Auto Scaling group keeps of the instance (`waiting` is
`Terminating:Wait`, `proceeding` is `Terminating:Proceed`); `healthy` and `running` are the controller's atomics; `lane`
is where each lane is in its loop, and the permits it holds follow from that. `up` is false until `run` has set the
lanes going.

**Steps.** A lane takes its permits (`Acquire`; maintenance needs those of both others), looks at `healthy` without the
lock (`CheckHealthy`), asks for the lifecycle under it (`CheckTermination`), claims (`Claim`), counts and protects
(`StartWork`, or `RefuseWork` when protection fails), works, and ends (`FinishWork`, `ReleaseFailed`, both through
`Release`). The sections under `fleet_transition` exclude each other and are one step; a change of lifecycle between
their calls makes a later call fail, which ends the process: `Crash` at any time, then `Boot`. The group may `ScaleIn` an
unprotected node at any time, the hook may run out, and a node that proceeds is gone; then the system stops, so the run
does not look for deadlock.

| Run | Instance | Shows |
|---|---|---|
| `NodeFleet` | the three lanes | types, `WorkShielded`, `WorkDrained`; `DrainCompletes` under fairness |
| `NodeFleetRace` | the three lanes | violation of `RaceIsCaught`: a finding |

There is nothing to bound: the three lanes are those of the code, and the counter is bounded by them. That the counter is
exact (`CountExact`) is not a property of the run but part of the invariant that is proved.

**Fairness.** Lanes go on (calls return or fail, work ends at its deadline) and systemd restarts the controller. Nothing is
asked of the hook, so `DrainCompletes` shows that the controller lets go by itself.

**Finding.** Work is counted only after its claim was answered. If the node is chosen in between, the check of another
lane sees a counter of 0 and completes the termination. The same may happen to a lane that has passed the health check
and waits for the lock: by then the state is `Terminating:Proceed`, which does not count as waiting, and it claims. The
documents also give the hook 15 minutes where `stack.yaml` has 7200 seconds, and a comment in `protect_claimed_work`
"its full deadline", which is nine hours; the model leaves the hook's length open.

## 6. Submissions

**State.** `sub` is `monopoly_submissions`, one row per team; `live` says that its validation lease has not expired.
`disk` and `temp` are the archives in the artifact directory and the temporary files of uploads, named by SHA-256;
`storing` is the archive whose upload holds the semaphore's only permit. `validator` is how far `validation_once` has come
in each controller, with the job it was handed and what its `ValidationLease` thread has met. A lease id is a fresh UUID
and a controller forgets a job before it claims the next, so (submission, controller) stands for the id. A request still
on its way when its sender has given up is another controller that has come no further.

**Steps.** `Claim` and `ClaimNothing` begin with the recovery of lapsed leases. Building and testing a repository is one
step with any outcome that `Contents` allows, followed by `lease.check()`. An approval is two steps, since the file is
looked for after one query and before the transaction that approves (`CheckApproval`, `CommitApproval`; `now()` is that of
the transaction's start, so the second asks for the lease id only). An upload reserves the artifact, takes the permit and
opens the temporary file (`Upload`), then ends in `Stored`, `UploadTimesOut` or `UploadBreaks`: a refusal for an existing
temporary file (409) removes that file, a refusal for the permit (429) does not. `Restart` is the Academy's: requests end,
files stay. Any controller may lose any answer (`Outage`) or its heartbeat (`HeartbeatFails`).

**`Entries`** is what all this is to a team: its latest submission waits until it is judged, is judged once, from its own
repository, and only a new submission or the administrator undoes a verdict. `Entry` maps a pending and a validating row to
the same waiting entry, so that claims, recoveries, uploads and restarts are stutters.

A lease whose holder beats does not lapse: it beats every minute for a lease of twenty. A paused process appears as one
whose heartbeat failed. The status `rejected` of the schema is never written.

| Run | Instance | Shows |
|---|---|---|
| `Submissions` | 1 team that submits twice (the second repository may be invalid), 2 controllers | types and table checks, `ApprovedWasValidated`, `IsEntries`; `ValidationSettles` under fairness |
| `SubmissionsBurned` | 2 teams with the same repository | violation of `OnlyTheTeamsFault`: a finding |

Two generations are needed for a validation that outlives its repository, two controllers for one that outlives its lease.
With two teams the graph has 1.8 million states and liveness takes too long; the safety theorems hold for any number.

**Fairness.** Leases that nobody keeps lapse; a controller's next call returns; and an outage, a broken connection or a
lapse does not hit every try (strong fairness for the steps of an undisturbed controller).

**Finding.** `validation_once` keeps a submission pending after an outage, as its comment says, only when the error has no
status or one from 500. An upload that takes fifteen minutes (408), meets another upload (429) or a file left by a broken
one (409) fails the submission for good.

## 7. GameRunner

One attempt at one game: `drive_game` and `main` of the worker, the agents' processes, the heartbeat thread, and the
Academy's handlers for events, result and failure, which recompute the result from the stored events.

**State.** `pc` is where the main thread is; `strikes`, `decisions`, `total` and `disqualified` are `SeatRuntime`; `agent` says
whether a seat's process runs, or is `behind` (it still computes an answer nobody waits for; no step of the code leaves it so,
and `NoLateAnswer` is why that matters). `events` are the moves not uploaded; `stored` is the attempt's part of
`monopoly_events`; `lease` and `game` are the row of the attempt. The rules of the game only say who moves, whether there is a
choice, and that the game ended: they are those of `MonopolyEngine`. Snapshots, rounds, the smallest and largest decision time
and replay payloads are left out.

**Time** is `active_us()`, which does not run past the limit; `Tick` passes between any two steps, so the clock may reach the
limit after the last check of it and before the report. Preparing and restarting an agent is off the clock, and a process
that is too slow to start is charged as a decision that timed out although none was asked for. Python compares averages as
floating-point numbers and Rust cross-multiplies; the model compares exactly in both.

**Environment.** An agent answers, answers illegally, crashes, times out, cannot be started, or sends a line that cannot be
decoded. A heartbeat may fail at any time, which ends its thread; any request or answer may be lost; the lease may be taken
away; the process may die. One attempt is a behaviour; what becomes of the game afterwards is `MonopolyGames`.

| Run | Instance | Shows |
|---|---|---|
| `GameRunner` | 2 teams, up to 4 moves, batches of 2, a play limit of two timed-out decisions | types, `RefusedOnlyAtTheLimit`, `NoLateAnswer`, `ThirdStrikeEnds`; `AttemptEnds` under fairness |

Four moves are three strikes of one agent and what comes after; two batches separate an upload during play from the last one.

**Fairness.** The main thread goes on: every call it makes has a time limit of its own. Nothing is asked of agents.

**The end of an attempt.** `Remaining` is what an attempt has left: stages ahead, actions up to the ceiling, the part of the
turn, moves not uploaded, time, and two flags for the one loss each of an answer and of the lease. `EveryStepCounts` says
that each step lowers it in lexicographic order, so no retry or restart goes round in a circle.

**The attempt seen from the queue.** `View` is what the Academy's rows show of the attempt, and `IsLeasedAttempt` says that it
behaves as `LeasedAttempt`: an answer lost after the commit, a repeated upload or a failure report after a result stores and
ends nothing outside the lease. Both are theorems; no run repeats them.

`RefusedOnlyAtTheLimit` names the one disagreement: a game that ended by the rules while its clock crossed ten minutes before
the report is refused, and then reported as an infrastructure failure.

## 8. MonopolyEngine

**State** is that of `MonopolyEnv`: players, properties with their owner, `held` (Player.properties), the cached `isMonopoly`,
phase, turn, doubles, offers, auction, debt and supplies. `out_of_turn_pids` is kept in turn order and only shortened, so a set
stands for it (`FirstOf`). The board, prices, rents, supplies, the number of players and of houses per hotel are parameters;
the assumptions `BoardAssumption` and `AmountAssumption` say what kind of board it is. `player_needs_funds` mirrors the debt;
the get-out-of-jail card is never granted; the branch of `step` for a bankrupt player is unreachable (`EliminatedIsOut`, which
is proved). These, the reward, the state vector and `winner` are left out. The shuffled turn order is a constant.

**Steps.** One action for each kind of action index, with the guard that `get_allowed_actions` gives it and everything
`step` does with it, down to `_check_game_over`. Policies, those of agents and bots alike, are the free choice among them.
Money and property change hands in rents, taxes, bail, purchases, auctions, trades, mortgages, improvements, liquidation and
bankruptcy; a debtor is held in the rescue menu until `_settle_debt` has paid or nothing is left to sell.

| Run | Instance | Shows |
|---|---|---|
| `EngineTable` | 3 players, 1 round, two streets, trades, auctions, a ruinous rent | `OwnershipAgrees`, `DebtSound`, `AuctionSound`, `EliminatedIsOut`, `OnlyByConsent`, `EveryMoveDescends` |
| `EngineRounds` | 2 players, 2 rounds, building, jail, tax, salary | types (cash is never negative), `SupplyConserved`; `GameEnds` under fairness |

Three players are needed for a bystander, a second bidder and play after a bankruptcy; two rounds for returning to a square
with what was built. On these boards every street is a colour group, one house makes a hotel possible, and the bank has one of
each, so shortages happen. 
**Why a game ends** is `MonopolyProgress`. Every circle in the menus costs money or is cut by a limit: redeeming a mortgage costs a
tenth, buildings sell at half, one open offer per player, an out-of-turn player leaves the turn. `Left` puts this into eight
numbers, from the most to the least significant: rounds, seats of the round, the stage of the turn with the rolls that doubles
still allow, players still to be heard, bids that somebody could pay, offers to answer or to make, what the active player is
worth, and what that player can sell. `EveryMoveDescends` says that every step, whatever the policies choose, lowers `Left` in
lexicographic order. `TermsAssumption` is what it needs of `constants.py`: a property costs more than its mortgage pays; a
mortgage pays at least 10 (30 in the code), so that the tenth it takes to redeem it is not rounded to nothing; houses cost at
least 50 and bail 50.

**Fairness.** The runner asks for a move until the game is done; which one is never assumed.

**Remark.** `WithHotel` follows `env.py:958`: a hotel can be sold only if the bank has the houses it is sold for. A player whose
wealth is a hotel may so be left with bankruptcy as the only move, although the comment at `env.py:288` speaks of a player who
is "Genuinely insolvent". The rescue menu states the rule on purpose, so this is recorded as a hazard and not as a finding.

## 9. Proofs

`MonopolyGames_proofs` proves for every finite set of games, any tournaments, workers and connections, and any
bounds what the runs show on small instances. The only assumption is `GamesAssumption`.

| Theorem | Establishes |
|---|---|
| `TypeCorrect` | the schema's types and check constraints |
| `LedgerCorrect` | `AttemptLedger` |
| `LapsedIsLost` | `LapsedLeaseEnds` |
| `FinishedStays`, `ReplayIsFenced` | `FinishedGameKept`, `ReplayFenced`, which no run checks |
| `VerdictCorrect`, `NoneLeftBehind` | `VerdictTrue`, `NoGameLeftBehind` |
| `ReplayCorrect` | `ReplayWhole` |
| `RefinesLeasedJob` | `IsLeasedJob`: the refinement of `LeasedJob`, one step of each game's job at a time |
| `RefinesLeasedAttempt` | `IsLeasedAttempt`: the refinement of `LeasedAttempt`, for each attempt at each game |

The argument has three inductive invariants, each defined in `MonopolyGames` next to the properties and model-checked
before it was proved.

- `LedgerInv` = types, `AttemptLedger`, `TxHoldsLeases` (an open transaction holds leased games, and no two hold the
  same) and `ScheduledTogether`. Without the locks a result and a recovery could both end one lease. The action
  properties are step lemmas from it.
- `VerdictInv` adds to it what keeps a stale count harmless. `TallyTrue`: a count that found nothing to play is still
  exact when it is written, for every other game of the tournament is over or locked by the transaction that counted.
  `ReasonTrue` and `CancelledTogether` say where the words "partial" and "cancelled" may come from. A count that found
  something to play may be wrong in its numbers; it then writes no verdict, and that is the finding of section 3.
- `ReplayInv` adds `ReplayWhole` and `CursorAtEnd`: the cursor of a leased game is the end of its replay, the attempts to
  come have no events, and a result being written holds the cursor it was compared with. `RefinesLeasedAttempt` needs all of
  it: an attempt opens empty because the attempts to come have no events, an events batch adds or repeats because the stored
  events are an interval before and after, and a commit ends only live attempts because of the locks.

`CommitType` and its companions say once what the rows written by a commit are; the four actions that commit cite them.

`HarnessQueue_proofs` does the same for the run queue, from `HarnessAssumption` alone (any lease, grace and deadline).

| Theorem | Establishes |
|---|---|
| `HarnessTypes`, `ScoresCorrect`, `LeaseBounded`, `HolderCorrect` | `TypeOK`, `ScoresOfCommit`, `LeaseWithinGrace`, `HeldWhileActive` |
| `EndedStays`, `LeaseHonoured`, `WritesAreFenced` | `EndedRunKept`, `LiveLeaseHonoured`, `WritesFenced` |
| `DeadlineOnlyNears` | `DeadlineShared`, which no run checks: after the first claim the deadline is never put off |
| `RefinesLeasedJob` | `IsLeasedJob` |

`HarnessInv` adds to the properties `OutcomeAtEnd` (only an ended run has an outcome) and `AttemptsKnown` (past its
checkout the latest attempt has recorded the commit, and attempts to come have no controller): without them a
late result could pair scores with another attempt's commit. No action writes one row from another, so `ByRow` turns the invariant
into one of a single row (`RowInv`), with a lemma for each way a row is rewritten. `RowSteps` and `FrameSteps` say what
a step may do to one row and its frames, `Cases` reduces that to the fields the properties look at, and each action
property and the refinement follow from `Cases`.

`NodeFleet_proofs` proves, for any finite set of lanes, `FleetTypes` (`TypeOK`), `ShieldKept` (`WorkShielded`),
`CounterExact` (`CountExact`) and `WorkIsDrained` (`WorkDrained`) from `FleetInv`. The shield needs the exact counter: the lane that lifts protection has
seen it at 1 (or at 0, having counted nothing), so no other lane works (`CountOne`, `CountZero`); and `Boot` needs
`NoneDown`, that a process that is down has no lanes.

`Submissions_proofs` proves, for any teams, controllers, archives and numbers of submissions, `SubmissionTypes` (`TypeOK`),
`ApprovalSound` (`ApprovedWasValidated`) and `VerdictsStand` (`VerdictStands`,
which no run checks) from `SubmissionInv`, and `RefinesEntries` (`IsEntries`): a step that gives a verdict finds the row
validating and, by `JobsSound`, gives one that the latest repository allows; every other step of a controller is a stutter. What it adds is `JobsSound`:
whatever a controller holds came from the repository its job names, and an archive about to be approved is on the disk.
Generations only grow, so a job whose lease id and generation still match speaks of the latest repository. The invariant
is taken apart by variable (rows, jobs, store), with a lemma for each way of writing one of them.

`GameRunner_proofs` proves, for any seats, ceilings, batch sizes and limits, `RunnerTypes` (`TypeOK`), `JudgementsAgree`
(`RefusedOnlyAtTheLimit`), `AnswersInTime` (`NoLateAnswer`) and `ThreeStrikesAreOut` (`ThirdStrikeEnds`). `RunnerInv` adds to them
`BooksAgree` (the worker's counts are those of the moves, uploaded or not), `OutAgrees` (who is out, and why), `EndAgrees` and
`NothingLeft`. The lemma `OneMoreRow` says what one more event does to each count; with it a move keeps `BooksAgree`, an upload
leaves the moves as they are, and when everything is uploaded the Academy counts what the worker counted. From the
same invariant follow `AttemptsAreFinite` (`EveryStepCounts`) and `RefinesLeasedAttempt` (`IsLeasedAttempt`).

`MonopolyEngine_proofs` proves, for any board, prices and supplies and any number of players, every property of the two runs
but the end of the game:

| Theorem | Establishes |
|---|---|
| `EngineTypes`, `BooksOfOwnership`, `DebtsAreSound`, `AuctionsAreSound`, `TheEliminatedAreOut` | `TypeOK`, `OwnershipAgrees`, `DebtSound`, `AuctionSound`, `EliminatedIsOut` |
| `BuildingsConserved` | `SupplyConserved` |
| `ConsentOnly` | `OnlyByConsent` |

`EngineInv` is the conjunction of the first five with `TableSound` (the player whose turn it is plays, and a turn that waits
waits for someone). The parts need each other: the leader of an auction can pay because only the bidder asked moves and the
debt is settled before; a debt can be paid because the creditor cannot have left the game, since only a debtor leaves and there
is one debt at a time; a rent is owed to a player because the two books agree and the eliminated hold nothing. `Parts` takes
the invariant apart by the variables it speaks of (estate, money, auction, flow), each part has a lemma for what leaves it
alone, and each action has its own lemma. `NextSeatInSet` shows that the search around the table finds a player,
`RentIsNat`, `ProceedsIsNat` and `CountsAreNat` that the amounts are natural numbers, and `OneSite` that building or selling on
one property changes the counts by what stands there.

`MonopolyProgress_proofs` proves `ProgressSound`, that `ProgressInv` (`EngineInv`, `RollsCounted`, `BankHoldsBare`) is an
invariant, and from it `GamesDescend` (`EveryMoveDescends`), from the assumptions of the engine and `TermsAssumption`. Each action has a
lemma that names the component it lowers and shows those before it unchanged; the sums over properties are cardinalities of
sets of units (`Units`), so that a trade, a mortgage or a sale is an inclusion or a difference of finite sets.

Only model-checked: liveness (`GameSettles`, `RunEnds`, `DrainCompletes`, `ValidationSettles`, `AttemptEnds`, `GameEnds`), since
fairness and ENABLED are out of the prover's reach, and the findings' counterexamples, which are behaviours. For `GameEnds` and
`AttemptEnds` the core of the argument is proved for every size: `EveryMoveDescends` and `EveryStepCounts` say that every step lowers
a tuple of natural numbers. TLC is left with what the provers cannot do: that a step is enabled until the end, and the induction
over the order of tuples.

## 10. Not modelled

`PROJECT.json` lists every component with its status.

- Of the tournament queue: the removal of replays older than 30 days, seat metrics and the winner (`GameRunner` has the
  last two). Of the submissions: downloads and the removal of unused archives, whose race is listed as a hazard.
- The schedule (pure), the fixed bots (any policy is allowed), the sizing of Colab sessions and host runners (it decides how
  many workers there are; the queue has any number), and the start-up and probing of hosts.
- Of the harness: the official Kaggle export queue, the board and the status pages. Of the node: the executor and its
  message framing (a hazard names the line), the key pool of the gateway, and the adapters, which are task loops inside a container.
- Rendering, sessions, teams, grading, consent, the portal, administration, Academy Verified and the shell scripts: form
  handlers with single statements, templates and I/O, without a protocol between requests.

Most of the repository's Python is not the program: the directories under `services/monopoly-worker/.artifact-cache` are archives
of teams' submissions, and those under `adapters/builtin_submissions` are sample agents. They are data for the engine
and the benchmark, and any behaviour of theirs is allowed by the models.
