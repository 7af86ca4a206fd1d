---------------------------- MODULE MonopolyGames ----------------------------
(***************************************************************************)
(* The tournament queue of Academy's AI Monopoly service                   *)
(* (services/academy/src/monopoly.rs): tournaments, their games, the       *)
(* leased attempts at a game, the uploaded replay events and the worker    *)
(* rows.  Every handler is one PostgreSQL transaction under READ COMMITTED. *)
(*                                                                         *)
(* The two transactions that end with refresh_tournament (a result, and a  *)
(* claim that found expired leases) count the games of a tournament        *)
(* without locking them and write the count into the tournament row later. *)
(* They take two steps here: one up to and including the count, with the   *)
(* row locks held so far recorded in tx, and one that writes and commits.  *)
(* All other handlers are serialised by the rows they lock: one step each. *)
(*                                                                         *)
(* A lease id is a fresh UUID inserted with the attempt row, so the pair   *)
(* (game, attempt number) stands for it.  A request is made by the worker  *)
(* that was handed the attempt, at any later time and any number of times: *)
(* that is what delays, client retries and duplicates amount to.           *)
(***************************************************************************)
EXTENDS Integers, FiniteSets

CONSTANTS
    Tournament,     \* tournaments the administrator may start
    Game,           \* games of all schedules
    TournamentOf,   \* the tournament a game is scheduled in
    Worker,         \* worker ids: Colab sessions and host runners
    Conn,           \* database connections, one open transaction each
    MaxAttempts,    \* 3 in the code
    MaxSeq,         \* MAX_ACTIONS: highest event sequence number
    None            \* SQL null

ASSUME GamesAssumption ==
    /\ IsFiniteSet(Game)
    /\ TournamentOf \in [Game -> Tournament]
    /\ MaxAttempts \in Nat \ {0}
    /\ MaxSeq \in Nat
    /\ None \notin Game \cup Worker

VARIABLES
    tournament,     \* monopoly_tournaments rows
    game,           \* monopoly_games rows
    attempt,        \* monopoly_game_attempts rows, by game and attempt number
    events,         \* sequence numbers in monopoly_events, by game and attempt
    worker,         \* monopoly_workers rows
    tx              \* transactions between their count and their commit

vars == <<tournament, game, attempt, events, worker, tx>>

----------------------------------------------------------------------------
Attempts == 1 .. MaxAttempts

GamesOf(t) == {g \in Game : TournamentOf[g] = t}

Outstanding == {"queued", "leased"}
Final == {"done", "failed", "cancelled"}

TournamentRow ==
    [status : {"unscheduled", "active", "completed", "partial", "cancelled"},
     completed_games : Nat,
     partial_reason : BOOLEAN]

GameRow ==
    [status : {"unscheduled"} \cup Outstanding \cup Final,
     attempt_count : 0 .. MaxAttempts,
     lease_worker : Worker \cup {None},
     lapsed : BOOLEAN,              \* lease_expires_at < now()
     last_event_seq : 0 .. MaxSeq,
     action_count : 0 .. MaxSeq]

AttemptRow ==
    [status : {"none", "leased", "completed", "infra_failed", "expired", "cancelled"},
     worker : Worker \cup {None}]

\* "other" stands for every reported status that is neither ready nor busy.
WorkerRow == [status : {"ready", "busy", "error", "other"}, current_game : Game \cup {None}]

Tally == [done : Nat, failed : Nat, outstanding : Nat]

Transaction ==
    [kind : {"idle", "claim", "result"},
     worker : Worker \cup {None},
     games : SUBSET Game,           \* rows locked, whose lease this transaction ends
     outcome : {"none", "expired", "infra_failed", "completed"},
     action_count : 0 .. MaxSeq,
     tally : [Tournament -> Tally]]

TypeOK ==
    /\ tournament \in [Tournament -> TournamentRow]
    /\ game \in [Game -> GameRow]
    /\ attempt \in [Game -> [Attempts -> AttemptRow]]
    /\ events \in [Game -> [Attempts -> SUBSET (1 .. MaxSeq)]]
    /\ worker \in [Worker -> WorkerRow]
    /\ tx \in [Conn -> Transaction]

NoTally == [t \in Tournament |-> [done |-> 0, failed |-> 0, outstanding |-> 0]]

Idle == [kind |-> "idle", worker |-> None, games |-> {}, outcome |-> "none",
         action_count |-> 0, tally |-> NoTally]

Init ==
    /\ tournament = [t \in Tournament |->
           [status |-> "unscheduled", completed_games |-> 0, partial_reason |-> FALSE]]
    /\ game = [g \in Game |->
           [status |-> "unscheduled", attempt_count |-> 0, lease_worker |-> None,
            lapsed |-> FALSE, last_event_seq |-> 0, action_count |-> 0]]
    /\ attempt = [g \in Game |-> [n \in Attempts |-> [status |-> "none", worker |-> None]]]
    /\ events = [g \in Game |-> [n \in Attempts |-> {}]]
    /\ worker = [w \in Worker |-> [status |-> "other", current_game |-> None]]
    /\ tx = [c \in Conn |-> Idle]

----------------------------------------------------------------------------
(* Row locks *)

Locked(g) == \E c \in Conn : g \in tx[c].games

\* mutant: one attempt too few
Exhausted_TooEarly(g) == game[g].attempt_count >= MaxAttempts - 1

\* The attempt at g that fails now is the last one it gets.
Exhausted(g) == game[g].attempt_count >= MaxAttempts

\* Tournament rows written (partial_reason) before the count, hence locked.
LockedTournaments(c) ==
    IF tx[c].outcome \in {"expired", "infra_failed"}
    THEN {TournamentOf[g] : g \in {h \in tx[c].games : Exhausted(h)}}
    ELSE {}

TournamentLockFree(c, T) == \A d \in Conn \ {c} : LockedTournaments(d) \cap T = {}

----------------------------------------------------------------------------
(* What the end of a lease writes *)

\* The game row after its current attempt expired or failed, and after it completed.
AfterLostAttempt(g) ==
    IF Exhausted(g)
    THEN [game[g] EXCEPT !.status = "failed", !.lease_worker = None, !.lapsed = FALSE]
    ELSE [game[g] EXCEPT !.status = "queued", !.lease_worker = None, !.lapsed = FALSE,
                         !.last_event_seq = 0, !.action_count = 0]

AfterCompleted(g, k) ==
    [game[g] EXCEPT !.status = "done", !.lease_worker = None, !.lapsed = FALSE,
                    !.action_count = k]

AfterLease(g, outcome, k) ==
    IF outcome = "completed" THEN AfterCompleted(g, k) ELSE AfterLostAttempt(g)

\* update ... where lease_id = $1 and status = 'leased'
CloseAttempt(g, status) ==
    [n \in Attempts |->
        IF n = game[g].attempt_count /\ attempt[g][n].status = "leased"
        THEN [attempt[g][n] EXCEPT !.status = status]
        ELSE attempt[g][n]]

\* The rows of the games, attempts and tournaments once transaction c commits.
GamesAfter(c) ==
    [g \in Game |-> IF g \in tx[c].games
                    THEN AfterLease(g, tx[c].outcome, tx[c].action_count)
                    ELSE game[g]]

AttemptsAfter(c) ==
    [g \in Game |-> IF g \in tx[c].games THEN CloseAttempt(g, tx[c].outcome) ELSE attempt[g]]

\* The status of g that a transaction sees when it has ended the leases of S.
StatusAfter(S, outcome, g) ==
    IF g \in S THEN AfterLease(g, outcome, 0).status ELSE game[g].status

\* The games of t that it sees in one of the statuses.
InStatus(S, outcome, t, statuses) ==
    {g \in GamesOf(t) : StatusAfter(S, outcome, g) \in statuses}

\* mutant: a leased game does not count as outstanding
CountGames_QueuedOnly(S, outcome) ==
    [t \in Tournament |->
        [done |-> Cardinality(InStatus(S, outcome, t, {"done"})),
         failed |-> Cardinality(InStatus(S, outcome, t, {"failed"})),
         outstanding |-> Cardinality(InStatus(S, outcome, t, {"queued"}))]]

\* refresh_tournament: the count, of committed rows and of this transaction's own.
CountGames(S, outcome) ==
    [t \in Tournament |->
        [done |-> Cardinality(InStatus(S, outcome, t, {"done"})),
         failed |-> Cardinality(InStatus(S, outcome, t, {"failed"})),
         outstanding |-> Cardinality(InStatus(S, outcome, t, Outstanding))]]

\* mutant: only the reason is looked at, and it is set by cancel alone
Refreshed_IgnoresFailed(row, tally) ==
    IF row.status = "active" /\ tally.outstanding = 0
    THEN [row EXCEPT !.completed_games = tally.done, !.status = "completed"]
    ELSE row

\* refresh_tournament: the update, with the counted numbers on the current row.
Refreshed(row, tally) ==
    IF row.status # "active" THEN row
    ELSE [row EXCEPT
            !.completed_games = tally.done,
            !.status = IF tally.outstanding # 0 THEN "active"
                       ELSE IF tally.failed > 0 \/ row.partial_reason THEN "partial"
                       ELSE "completed"]

\* partial_reason = coalesce(partial_reason, ...), once a game is exhausted
WithReason(c, t) ==
    IF t \in LockedTournaments(c) THEN [tournament[t] EXCEPT !.partial_reason = TRUE]
    ELSE tournament[t]

TournamentsAfter(c) ==
    [t \in Tournament |->
        IF t \in {TournamentOf[g] : g \in tx[c].games}
        THEN Refreshed(WithReason(c, t), tx[c].tally[t])
        ELSE tournament[t]]

\* Workers whose game expired; a result releases the worker that reported it.
WorkersAfterRecovery(c) ==
    [w \in Worker |-> IF worker[w].current_game \in tx[c].games
                      THEN [status |-> "error", current_game |-> None]
                      ELSE worker[w]]

----------------------------------------------------------------------------
(* Administration and worker registration *)

\* admin_monopoly_start: at most one tournament is active (unique index).
Start(t) ==
    /\ tournament[t].status = "unscheduled"
    /\ GamesOf(t) # {}
    /\ \A u \in Tournament : tournament[u].status # "active"
    /\ tournament' = [tournament EXCEPT ![t].status = "active"]
    /\ game' = [g \in Game |-> IF TournamentOf[g] = t
                               THEN [game[g] EXCEPT !.status = "queued"] ELSE game[g]]
    /\ UNCHANGED <<attempt, events, worker, tx>>

\* admin_monopoly_cancel.  It waits for the rows a transaction has locked; a
\* transaction it deadlocks with is rolled back first (Rollback).
Cancel(t) ==
    /\ \A g \in GamesOf(t) : ~Locked(g)
    /\ tournament[t].status # "unscheduled"
    /\ tournament' = [tournament EXCEPT ![t] =
           IF @.status = "active" THEN [@ EXCEPT !.status = "cancelled", !.partial_reason = TRUE]
           ELSE @]
    /\ game' = [g \in Game |->
           IF g \in GamesOf(t) /\ game[g].status \in Outstanding
           THEN [game[g] EXCEPT !.status = "cancelled", !.lease_worker = None, !.lapsed = FALSE]
           ELSE game[g]]
    /\ attempt' = [g \in Game |-> IF g \in GamesOf(t) THEN CloseAttempt(g, "cancelled")
                                  ELSE attempt[g]]
    /\ worker' = [w \in Worker |->
           IF worker[w].current_game \in GamesOf(t)
           THEN [status |-> "ready", current_game |-> None] ELSE worker[w]]
    /\ UNCHANGED <<events, tx>>

\* worker_rl_monopoly_resource: an unconditional upsert.  A runner reports a
\* game only with "busy", and only one it was handed.
ReportResource(w, status, g) ==
    /\ status = "busy" => g \in Game /\ \E n \in Attempts : attempt[g][n].worker = w
    /\ status # "busy" => g = None
    /\ worker' = [worker EXCEPT ![w] = [status |-> status, current_game |-> g]]
    /\ UNCHANGED <<tournament, game, attempt, events, tx>>

\* The lease deadline of g passes.
Lapse(g) ==
    /\ game[g].status = "leased"
    /\ ~game[g].lapsed
    /\ game' = [game EXCEPT ![g].lapsed = TRUE]
    /\ UNCHANGED <<tournament, attempt, events, worker, tx>>

----------------------------------------------------------------------------
(* Claiming *)

\* recover_expired_leases: select ... for update skip locked
Expired == {g \in Game : game[g].status = "leased" /\ game[g].lapsed /\ ~Locked(g)}

\* The first half of a claim that finds expired leases.
RecoverExpired(c, w) ==
    /\ tx[c].kind = "idle"
    /\ Expired # {}
    /\ TournamentLockFree(c, {TournamentOf[g] : g \in {h \in Expired : Exhausted(h)}})
    /\ tx' = [tx EXCEPT ![c] =
           [kind |-> "claim", worker |-> w, games |-> Expired, outcome |-> "expired",
            action_count |-> 0, tally |-> CountGames(Expired, "expired")]]
    /\ UNCHANGED <<tournament, game, attempt, events, worker>>

\* The claim of w may go on: its recovery is done, or there was nothing to recover.
Recovering(c, w) == tx[c].kind = "claim" /\ tx[c].worker = w
ClaimReady(c, w) ==
    /\ Recovering(c, w) \/ (tx[c].kind = "idle" /\ Expired = {})
    /\ TournamentLockFree(c, {TournamentOf[g] : g \in tx[c].games})
    /\ WorkersAfterRecovery(c)[w].status = "ready"      \* worker_qualifies, else 412

\* mutant: the last attempt is never handed out
Candidates_OneFewer(c) ==
    {g \in Game : /\ GamesAfter(c)[g].status = "queued"
                  /\ GamesAfter(c)[g].attempt_count < MaxAttempts - 1
                  /\ TournamentsAfter(c)[TournamentOf[g]].status = "active"}

\* Games the claim may take.  "skip locked" passes over rows other claims hold,
\* so the game_no order is no promise and any of them may come first.
Candidates(c) ==
    {g \in Game : /\ GamesAfter(c)[g].status = "queued"
                  /\ GamesAfter(c)[g].attempt_count < MaxAttempts
                  /\ TournamentsAfter(c)[TournamentOf[g]].status = "active"}

ClaimGame(c, w, g) ==
    /\ ClaimReady(c, w)
    /\ g \in Candidates(c)
    /\ LET n == game[g].attempt_count + 1 IN
       /\ game' = [GamesAfter(c) EXCEPT ![g].status = "leased", ![g].attempt_count = n,
                                        ![g].lease_worker = w, ![g].lapsed = FALSE]
       /\ attempt' = [AttemptsAfter(c) EXCEPT ![g][n] = [status |-> "leased", worker |-> w]]
    /\ worker' = [WorkersAfterRecovery(c) EXCEPT ![w] =
                      [status |-> "busy", current_game |-> g]]
    /\ tournament' = TournamentsAfter(c)
    /\ tx' = [tx EXCEPT ![c] = Idle]
    /\ UNCHANGED events

\* {"game": null}: the recovery alone is committed.
ClaimNothing(c, w) ==
    /\ ClaimReady(c, w)
    /\ Recovering(c, w)
    /\ Candidates(c) = {}
    /\ game' = GamesAfter(c)
    /\ attempt' = AttemptsAfter(c)
    /\ worker' = WorkersAfterRecovery(c)
    /\ tournament' = TournamentsAfter(c)
    /\ tx' = [tx EXCEPT ![c] = Idle]
    /\ UNCHANGED events

\* An open transaction is lost: the claiming worker is not ready (412), the
\* database broke a deadlock, the connection or the process died.
Rollback(c) ==
    /\ tx[c].kind # "idle"
    /\ tx' = [tx EXCEPT ![c] = Idle]
    /\ UNCHANGED <<tournament, game, attempt, events, worker>>

----------------------------------------------------------------------------
(* Requests under a lease *)

\* w was handed attempt n at g, so it may send a request that names it.
Handed(w, g, n) == attempt[g][n].worker = w

\* mutants: the status, the attempt or the deadline is not compared
LeaseValid_AnyStatus(w, g, n) == game[g].attempt_count = n /\ ~game[g].lapsed
LeaseValid_AnyAttempt(w, g, n) ==
    game[g].status = "leased" /\ game[g].lease_worker = w /\ ~game[g].lapsed
LeaseValid_AnyTime(w, g, n) ==
    game[g].status = "leased" /\ game[g].attempt_count = n /\ game[g].lease_worker = w

\* where id and status = 'leased' and attempt_count and lease_id and
\* lease_worker_id match, and lease_expires_at >= now()
LeaseValid(w, g, n) ==
    /\ game[g].status = "leased"
    /\ game[g].attempt_count = n
    /\ game[g].lease_worker = w
    /\ ~game[g].lapsed

\* renew_lease: the deadline moves away again.
Renewed(row) == [row EXCEPT !.lapsed = FALSE]

Heartbeat(w, g, n) ==
    /\ Handed(w, g, n)
    /\ LeaseValid(w, g, n)
    /\ ~Locked(g)
    /\ game' = [game EXCEPT ![g] = Renewed(@)]
    /\ UNCHANGED <<tournament, attempt, events, worker, tx>>

\* mutant: the cursor is not looked at
FollowsCursor_Never(g, first) == TRUE

\* A batch may repeat stored events but not leave a gap (409).
FollowsCursor(g, first) == first <= game[g].last_event_seq + 1

\* mutant: the cursor is advanced by the batch instead of to its end
Greatest_Sum(a, b) == a + b

Greatest(a, b) == IF a >= b THEN a ELSE b

Advanced(row, last) ==
    [Renewed(row) EXCEPT !.last_event_seq = Greatest(@, last),
                         !.action_count = Greatest(@, last)]

\* worker_rl_monopoly_events: the batch first .. last of consecutive events.
Events(w, g, n, first, last) ==
    /\ Handed(w, g, n)
    /\ LeaseValid(w, g, n)
    /\ ~Locked(g)
    /\ FollowsCursor(g, first)
    /\ events' = [events EXCEPT ![g][n] = @ \cup (first .. last)]
    /\ game' = [game EXCEPT ![g] = Advanced(@, last)]
    /\ UNCHANGED <<tournament, attempt, worker, tx>>

\* A completed result must report as many actions as are stored (else 400); a
\* failed one reports none.
ResultMatches(g, outcome, k) ==
    k = IF outcome = "completed" THEN game[g].last_event_seq ELSE 0

\* worker_rl_monopoly_result up to the count of refresh_tournament.
Result(c, w, g, n, outcome, k) ==
    /\ tx[c].kind = "idle"
    /\ Handed(w, g, n)
    /\ LeaseValid(w, g, n)
    /\ ~Locked(g)
    /\ ResultMatches(g, outcome, k)
    /\ outcome = "infra_failed" /\ Exhausted(g) => TournamentLockFree(c, {TournamentOf[g]})
    /\ tx' = [tx EXCEPT ![c] =
           [kind |-> "result", worker |-> w, games |-> {g}, outcome |-> outcome,
            action_count |-> k, tally |-> CountGames({g}, outcome)]]
    /\ UNCHANGED <<tournament, game, attempt, events, worker>>

CommitResult(c) ==
    /\ tx[c].kind = "result"
    /\ TournamentLockFree(c, {TournamentOf[g] : g \in tx[c].games})
    /\ game' = GamesAfter(c)
    /\ attempt' = AttemptsAfter(c)
    /\ worker' = [worker EXCEPT ![tx[c].worker] = [status |-> "ready", current_game |-> None]]
    /\ tournament' = TournamentsAfter(c)
    /\ tx' = [tx EXCEPT ![c] = Idle]
    /\ UNCHANGED events

----------------------------------------------------------------------------
Next ==
    \/ \E t \in Tournament : Start(t) \/ Cancel(t)
    \/ \E w \in Worker, s \in {"ready", "busy", "other"}, g \in Game \cup {None} :
           ReportResource(w, s, g)
    \/ \E g \in Game : Lapse(g)
    \/ \E c \in Conn, w \in Worker :
           \/ RecoverExpired(c, w)
           \/ ClaimNothing(c, w)
           \/ \E g \in Game : ClaimGame(c, w, g)
    \/ \E c \in Conn : Rollback(c) \/ CommitResult(c)
    \/ \E w \in Worker, g \in Game, n \in Attempts :
           \/ Heartbeat(w, g, n)
           \/ \E first, last \in 1 .. MaxSeq : first <= last /\ Events(w, g, n, first, last)
           \/ \E c \in Conn, outcome \in {"completed", "infra_failed"}, k \in 0 .. MaxSeq :
                  Result(c, w, g, n, outcome, k)

Spec == Init /\ [][Next]_vars

\* What the runners and their supervisors do again and again.  A lease does not
\* live for ever (ten minutes or MAX_ACTIONS, then the runner reports or is gone);
\* a runner reports ready when its game is over or it is restarted, claims while it
\* is ready, and now and then gets to the end of a transaction.
Fairness ==
    /\ \A g \in Game : WF_vars(Lapse(g))
    /\ \A c \in Conn : WF_vars(Rollback(c)) /\ SF_vars(CommitResult(c))
    /\ \A w \in Worker :
          /\ WF_vars(ReportResource(w, "ready", None))
          /\ SF_vars(\E c \in Conn : worker[w].status = "ready" /\ RecoverExpired(c, w))
          /\ SF_vars(\E c \in Conn, g \in Game : ClaimGame(c, w, g))
          /\ SF_vars(\E c \in Conn : ClaimNothing(c, w))

FairSpec == Spec /\ Fairness

----------------------------------------------------------------------------
(* Safety *)

Lost == {"expired", "infra_failed"}

\* The attempt rows tell the story of the game row: every attempt before the
\* current one was lost, none comes after it, and the current one is leased, or
\* completed, exactly when the game is leased, or done.  A game fails only when
\* all its attempts were lost.  A claim, a recovery, a result and a cancel write
\* the two tables in separate statements.
LedgerOf(row, rows) ==
    \A n \in Attempts :
        /\ n < row.attempt_count => rows[n].status \in Lost
        /\ n > row.attempt_count => rows[n].status = "none"
        /\ n = row.attempt_count =>
              /\ row.status = "leased" <=> rows[n].status = "leased"
              /\ row.status = "leased" => row.lease_worker = rows[n].worker
              /\ row.status = "done" <=> rows[n].status = "completed"
              /\ row.status = "queued" => rows[n].status \in Lost
              /\ row.status = "failed" => rows[n].status \in Lost /\ n = MaxAttempts

AttemptLedger == \A g \in Game : LedgerOf(game[g], attempt[g])

\* The replay of an attempt has no gap, and that of a finished game is whole: the
\* stored events are 1 .. action_count, whatever batches were repeated, delayed,
\* or sent by earlier attempts (events and result handlers).
ReplayWhole ==
    \A g \in Game :
        /\ \A n \in Attempts : \E k \in 0 .. MaxSeq : events[g][n] = 1 .. k
        /\ game[g].status \in {"leased", "done"} =>
              events[g][game[g].attempt_count] = 1 .. game[g].action_count

\* Only the active tournament has games to play: no order of refreshes, recoveries
\* and cancels closes a tournament and leaves a game that is queued or leased.
NoGameLeftBehind ==
    \A g \in Game : game[g].status \in Outstanding => tournament[TournamentOf[g]].status = "active"

\* The final word on a tournament is true: "completed" says every game was played,
\* "partial" says one exhausted its attempts, and both counted the played games.
\* The verdict is computed from a count that is not locked.
VerdictTrue ==
    \A t \in Tournament :
        LET Is(s) == {g \in GamesOf(t) : game[g].status = s} IN
        /\ tournament[t].status = "completed" => Is("done") = GamesOf(t)
        /\ tournament[t].status = "partial" => Is("failed") # {}
        /\ tournament[t].status \in {"completed", "partial"} =>
              tournament[t].completed_games = Cardinality(Is("done"))

\* The transaction that ends the last game of a tournament also closes it, as the
\* tests of the result handler expect: an active tournament has a game to play.
LastGameCloses ==
    \A t \in Tournament :
        tournament[t].status = "active" =>
            \E g \in GamesOf(t) : game[g].status \in Outstanding

----------------------------------------------------------------------------
(* What makes the invariants inductive *)

\* An open transaction holds the row locks of leased games, and no two hold the same.
TxHoldsLeases ==
    /\ \A c \in Conn :
          /\ tx[c].kind = "idle" => tx[c].games = {}
          /\ tx[c].kind = "claim" => tx[c].outcome = "expired"
          /\ tx[c].kind = "result" => tx[c].outcome \in {"completed", "infra_failed"}
          /\ \A g \in tx[c].games : game[g].status = "leased"
    /\ \A c, d \in Conn : c # d => tx[c].games \cap tx[d].games = {}

\* The games of a tournament are inserted with it, and are untouched until then.
ScheduledTogether ==
    \A g \in Game :
        /\ game[g].status = "unscheduled" <=> tournament[TournamentOf[g]].status = "unscheduled"
        /\ game[g].status = "unscheduled" => game[g].attempt_count = 0
        /\ game[g].status = "leased" => game[g].attempt_count > 0
        /\ game[g].lapsed => game[g].status = "leased"

LedgerInv == TypeOK /\ TxHoldsLeases /\ ScheduledTogether /\ AttemptLedger

\* A count that found nothing to play stays exact until it is written: the counted
\* games are over, and the others are locked by the transaction that counted.
TallyTrue ==
    \A c \in Conn : \A g \in tx[c].games :
        tx[c].tally[TournamentOf[g]].outstanding = 0 =>
            tx[c].tally[TournamentOf[g]] =
                CountGames(tx[c].games, tx[c].outcome)[TournamentOf[g]]

\* A reason for a partial tournament is a failed game, or the cancellation.
ReasonTrue ==
    \A t \in Tournament :
        tournament[t].partial_reason =>
            \/ tournament[t].status = "cancelled"
            \/ \E g \in GamesOf(t) : game[g].status = "failed"

\* Games are cancelled with their tournament only.
CancelledTogether ==
    \A g \in Game :
        game[g].status = "cancelled" => tournament[TournamentOf[g]].status = "cancelled"

\* The cursor of a leased game is the end of its replay, a game that waits starts at
\* zero, and the attempts to come have no event.  A result that is being written
\* holds the cursor it was compared with.
CursorAtEnd ==
    \A g \in Game :
        /\ \A n \in Attempts : n > game[g].attempt_count => events[g][n] = {}
        /\ game[g].status \in {"unscheduled", "queued"} =>
              game[g].last_event_seq = 0 /\ game[g].action_count = 0
        /\ game[g].status = "leased" => game[g].action_count = game[g].last_event_seq
        /\ \A c \in Conn : g \in tx[c].games /\ tx[c].outcome = "completed" =>
              tx[c].action_count = game[g].last_event_seq

ReplayInv == LedgerInv /\ ReplayWhole /\ CursorAtEnd

VerdictInv ==
    /\ LedgerInv
    /\ NoGameLeftBehind
    /\ VerdictTrue
    /\ TallyTrue
    /\ ReasonTrue
    /\ CancelledTogether

----------------------------------------------------------------------------
(* Action properties *)

\* A finished game keeps its row, its attempts and its replay: a late result, event
\* batch, recovery or cancel finds no lease to act on.
FinishedGameKept ==
    [][\A g \in Game : game[g].status \in Final =>
          /\ game'[g] = game[g]
          /\ attempt'[g] = attempt[g]
          /\ events'[g] = events[g]]_vars

\* Only the attempt that holds the lease adds events, only while the deadline has
\* not passed, and no transaction is ending that lease: a runner that lost its game
\* cannot write into the replay of the attempt that took over.
ReplayFenced ==
    [][\A g \in Game, n \in Attempts : events'[g][n] # events[g][n] =>
          /\ attempt[g][n].status = "leased"
          /\ ~game[g].lapsed
          /\ \A c \in Conn : g \notin tx[c].games]_vars

\* Once its deadline has passed a lease is only ever ended, never revived by a late
\* heartbeat or event batch.
LapsedLeaseEnds ==
    [][\A g \in Game : game[g].lapsed /\ game'[g] # game[g] =>
          attempt'[g][game[g].attempt_count].status # "leased"]_vars

----------------------------------------------------------------------------
(* Refinement *)

\* The job that a game stands for.
JobOf(row) ==
    [phase |-> IF row.status = "unscheduled" THEN "new"
               ELSE IF row.status = "queued" THEN "waiting"
               ELSE IF row.status = "leased" THEN "held" ELSE "ended",
     tries |-> row.attempt_count,
     by |-> IF row.status = "done" THEN row.attempt_count ELSE 0]

jobs == [g \in Game |-> JobOf(game[g])]

Jobs == INSTANCE LeasedJob WITH Job <- Game, MaxTries <- MaxAttempts, job <- jobs

\* The tournament queue is a queue of leased jobs: recovery, claims, results and cancels
\* that overlap hand a game out at most MaxAttempts times, to one runner at a time, and
\* end it once, with the result of the current attempt or nobody's.
IsLeasedJob == Jobs!Spec

\* The attempt that a row of monopoly_game_attempts and its events stand for.
AttemptOf(row, rows) ==
    [phase |-> IF row.status = "none" THEN "none"
               ELSE IF row.status = "leased" THEN "live"
               ELSE IF row.status = "completed" THEN "completed" ELSE "lost",
     moves |-> Cardinality(rows)]

attempts == [i \in Game \X Attempts |-> AttemptOf(attempt[i[1]][i[2]], events[i[1]][i[2]])]

Attempting == INSTANCE LeasedAttempt WITH Attempt <- Game \X Attempts, attempt <- attempts

\* Each attempt is what its runner takes it for (GameRunner): opened without events,
\* only added to under its lease, and ended once by a result, a recovery or a cancel.
IsLeasedAttempt == Attempting!Spec

----------------------------------------------------------------------------
(* Liveness *)

\* Every game of a started tournament is played, given up after its attempts, or
\* cancelled, though runners die, transactions are lost and a worker that is not
\* ready has its claim refused together with the recovery it had begun.
GameSettles == \A g \in Game : game[g].status = "queued" ~> game[g].status \in Final
=============================================================================
