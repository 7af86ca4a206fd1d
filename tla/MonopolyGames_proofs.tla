------------------------ MODULE MonopolyGames_proofs ------------------------
(* Theorems about MonopolyGames, for every number of tournaments, games,     *)
(* workers, connections, attempts and events.                                *)
EXTENDS MonopolyGames, FiniteSetTheorems, TLAPS

USE GamesAssumption DEF GamesAssumption

----------------------------------------------------------------------------
(* What the helpers return *)

\* The count of refresh_tournament is a triple of naturals for each tournament.
LEMMA CountType ==
    ASSUME NEW S, NEW outcome
    PROVE  CountGames(S, outcome) \in [Tournament -> Tally]
  <1>1. ASSUME NEW t, NEW statuses
        PROVE  Cardinality(InStatus(S, outcome, t, statuses)) \in Nat
    <2>1. InStatus(S, outcome, t, statuses) \subseteq Game
      BY DEF InStatus, GamesOf
    <2> QED BY <2>1, FS_Subset, FS_CardinalityType
  <1> QED BY <1>1 DEF CountGames, Tally

\* The game row written at the end of a lease is a game row.
LEMMA AfterLeaseType ==
    ASSUME TypeOK, NEW g \in Game, NEW outcome, NEW k \in 0 .. MaxSeq
    PROVE  AfterLease(g, outcome, k) \in GameRow
  <1>1. game[g] \in GameRow
    BY DEF TypeOK
  <1>2. AfterCompleted(g, k) \in GameRow
    BY <1>1 DEF AfterCompleted, GameRow, Final, Outstanding
  <1>3. AfterLostAttempt(g) \in GameRow
    <2>1. CASE Exhausted(g)
      BY <1>1, <2>1 DEF AfterLostAttempt, GameRow, Final, Outstanding
    <2>2. CASE ~Exhausted(g)
      <3>1. 0 \in 0 .. MaxSeq
        OBVIOUS
      <3> QED BY <1>1, <2>2, <3>1 DEF AfterLostAttempt, GameRow, Final, Outstanding
    <2> QED BY <2>1, <2>2
  <1> QED BY <1>2, <1>3 DEF AfterLease

\* Closing an attempt changes nothing but the status of one attempt row.
LEMMA CloseAttemptType ==
    ASSUME TypeOK, NEW g \in Game,
           NEW status \in {"none", "expired", "infra_failed", "completed", "cancelled"}
    PROVE  CloseAttempt(g, status) \in [Attempts -> AttemptRow]
  <1> SUFFICES ASSUME NEW n \in Attempts
               PROVE  /\ attempt[g][n] \in AttemptRow
                      /\ [attempt[g][n] EXCEPT !.status = status] \in AttemptRow
    BY DEF CloseAttempt
  <1>1. attempt[g][n] \in AttemptRow
    BY DEF TypeOK
  <1> QED BY <1>1 DEF AttemptRow

\* What a transaction commits has the types of the tables.
LEMMA CommitType ==
    ASSUME TypeOK, NEW c \in Conn
    PROVE  /\ GamesAfter(c) \in [Game -> GameRow]
           /\ AttemptsAfter(c) \in [Game -> [Attempts -> AttemptRow]]
           /\ TournamentsAfter(c) \in [Tournament -> TournamentRow]
           /\ WorkersAfterRecovery(c) \in [Worker -> WorkerRow]
  <1> DEFINE row == tx[c]
  <1>1. row \in Transaction
    BY DEF TypeOK
  <1>2. GamesAfter(c) \in [Game -> GameRow]
    BY <1>1, AfterLeaseType DEF GamesAfter, TypeOK, Transaction
  <1>3. AttemptsAfter(c) \in [Game -> [Attempts -> AttemptRow]]
    <2>1. row.outcome \in {"none", "expired", "infra_failed", "completed", "cancelled"}
      BY <1>1 DEF Transaction
    <2> QED BY <2>1, CloseAttemptType DEF AttemptsAfter, TypeOK
  <1>4. ASSUME NEW t \in Tournament, NEW r \in TournamentRow
        PROVE  Refreshed(r, row.tally[t]) \in TournamentRow
    BY <1>1 DEF Refreshed, TournamentRow, Transaction, Tally
  <1>5. ASSUME NEW t \in Tournament
        PROVE  WithReason(c, t) \in TournamentRow
    <2>1. tournament[t] \in TournamentRow
      BY DEF TypeOK
    <2>2. [tournament[t] EXCEPT !.partial_reason = TRUE] \in TournamentRow
      BY <2>1 DEF TournamentRow
    <2> QED BY <2>1, <2>2 DEF WithReason
  <1>6. TournamentsAfter(c) \in [Tournament -> TournamentRow]
    BY <1>4, <1>5 DEF TournamentsAfter, TypeOK
  <1>7. WorkersAfterRecovery(c) \in [Worker -> WorkerRow]
    BY DEF WorkersAfterRecovery, TypeOK, WorkerRow
  <1> QED BY <1>2, <1>3, <1>6, <1>7

----------------------------------------------------------------------------
(* Type correctness *)

LEMMA IdleType == Idle \in Transaction
  BY DEF Idle, NoTally, Transaction, Tally

\* The rows of the tables, one at a time.
LEMMA RowType ==
    ASSUME TypeOK
    PROVE  /\ \A t \in Tournament : tournament[t] \in TournamentRow
           /\ \A g \in Game : game[g] \in GameRow
           /\ \A g \in Game : \A n \in Attempts : attempt[g][n] \in AttemptRow
           /\ \A c \in Conn : tx[c] \in Transaction
  BY DEF TypeOK

LEMMA InitType == Init => TypeOK
  <1> SUFFICES ASSUME Init PROVE TypeOK
    OBVIOUS
  <1> USE DEF Init
  <1>1. tournament \in [Tournament -> TournamentRow]
    BY DEF TournamentRow
  <1>2. game \in [Game -> GameRow]
    BY DEF GameRow
  <1>3. attempt \in [Game -> [Attempts -> AttemptRow]]
    BY DEF AttemptRow
  <1>4. events \in [Game -> [Attempts -> SUBSET (1 .. MaxSeq)]]
    OBVIOUS
  <1>5. worker \in [Worker -> WorkerRow]
    BY DEF WorkerRow
  <1>6. tx \in [Conn -> Transaction]
    BY IdleType
  <1> QED BY <1>1, <1>2, <1>3, <1>4, <1>5, <1>6 DEF TypeOK

LEMMA NextType == ASSUME TypeOK, [Next]_vars PROVE TypeOK'
  <1>1. ASSUME NEW t \in Tournament, Start(t) PROVE TypeOK'
    <2>1. tournament' \in [Tournament -> TournamentRow]
      <3>1. [tournament[t] EXCEPT !.status = "active"] \in TournamentRow
        BY RowType DEF TournamentRow
      <3> QED BY <1>1, <3>1 DEF Start, TypeOK
    <2>2. game' \in [Game -> GameRow]
      <3>1. ASSUME NEW g \in Game PROVE [game[g] EXCEPT !.status = "queued"] \in GameRow
        BY RowType DEF GameRow, Outstanding
      <3> QED BY <1>1, <3>1 DEF Start, TypeOK
    <2> QED BY <1>1, <2>1, <2>2 DEF Start, TypeOK
  <1>2. ASSUME NEW t \in Tournament, Cancel(t) PROVE TypeOK'
    <2>1. tournament' \in [Tournament -> TournamentRow]
      <3>1. [[tournament[t] EXCEPT !.status = "cancelled"] EXCEPT !.partial_reason = TRUE]
               \in TournamentRow
        BY RowType DEF TournamentRow
      <3> QED BY <1>2, <3>1 DEF Cancel, TypeOK
    <2>2. game' \in [Game -> GameRow]
      <3>1. ASSUME NEW g \in Game
            PROVE  [game[g] EXCEPT !.status = "cancelled", !.lease_worker = None,
                                   !.lapsed = FALSE] \in GameRow
        BY RowType DEF GameRow, Final
      <3> QED BY <1>2, <3>1 DEF Cancel, TypeOK
    <2>3. attempt' \in [Game -> [Attempts -> AttemptRow]]
      BY <1>2, CloseAttemptType DEF Cancel, TypeOK
    <2>4. worker' \in [Worker -> WorkerRow]
      BY <1>2 DEF Cancel, TypeOK, WorkerRow
    <2> QED BY <1>2, <2>1, <2>2, <2>3, <2>4 DEF Cancel, TypeOK
  <1>3. ASSUME NEW w \in Worker, NEW s \in {"ready", "busy", "other"},
               NEW g \in Game \cup {None}, ReportResource(w, s, g)
        PROVE  TypeOK'
    <2>1. worker' \in [Worker -> WorkerRow]
      BY <1>3 DEF ReportResource, TypeOK, WorkerRow
    <2> QED BY <1>3, <2>1 DEF ReportResource, TypeOK
  <1>4. ASSUME NEW g \in Game, Lapse(g) PROVE TypeOK'
    <2>1. [game[g] EXCEPT !.lapsed = TRUE] \in GameRow
      BY RowType DEF GameRow
    <2> QED BY <1>4, <2>1 DEF Lapse, TypeOK
  <1>5. ASSUME NEW c \in Conn, NEW w \in Worker, RecoverExpired(c, w) PROVE TypeOK'
    <2>1. [kind |-> "claim", worker |-> w, games |-> Expired, outcome |-> "expired",
           action_count |-> 0, tally |-> CountGames(Expired, "expired")] \in Transaction
      BY CountType DEF Transaction, Expired
    <2> QED BY <1>5, <2>1 DEF RecoverExpired, TypeOK
  <1>6. ASSUME NEW c \in Conn, NEW w \in Worker, ClaimNothing(c, w) PROVE TypeOK'
    BY <1>6, CommitType, IdleType DEF ClaimNothing, TypeOK
  <1>7. ASSUME NEW c \in Conn, NEW w \in Worker, NEW g \in Game, ClaimGame(c, w, g)
        PROVE  TypeOK'
    <2> DEFINE n == game[g].attempt_count + 1
    <2>1. n \in Attempts
      <3>1. game[g].attempt_count \in 0 .. MaxAttempts
        BY DEF TypeOK, GameRow
      <3>2. GamesAfter(c)[g].attempt_count = game[g].attempt_count
        BY DEF GamesAfter, AfterLease, AfterCompleted, AfterLostAttempt, TypeOK, GameRow
      <3> QED BY <1>7, <3>1, <3>2 DEF ClaimGame, Candidates, Attempts
    <2>2. game' \in [Game -> GameRow]
      <3>1. GamesAfter(c) \in [Game -> GameRow]
        BY CommitType
      <3>2. [GamesAfter(c)[g] EXCEPT !.status = "leased", !.attempt_count = n,
                                     !.lease_worker = w, !.lapsed = FALSE] \in GameRow
        <4>1. GamesAfter(c)[g] \in GameRow
          BY <3>1
        <4>2. n \in 0 .. MaxAttempts
          BY <2>1 DEF Attempts
        <4> HIDE DEF n
        <4> QED BY <4>1, <4>2 DEF GameRow, Outstanding
      <3> QED BY <1>7, <3>1, <3>2 DEF ClaimGame
    <2>3. attempt' \in [Game -> [Attempts -> AttemptRow]]
      <3>1. [status |-> "leased", worker |-> w] \in AttemptRow
        BY DEF AttemptRow
      <3> QED BY <1>7, <2>1, <3>1, CommitType DEF ClaimGame
    <2>4. worker' \in [Worker -> WorkerRow]
      <3>1. [status |-> "busy", current_game |-> g] \in WorkerRow
        BY DEF WorkerRow
      <3> QED BY <1>7, <3>1, CommitType DEF ClaimGame
    <2> QED BY <1>7, <2>2, <2>3, <2>4, CommitType, IdleType DEF ClaimGame, TypeOK
  <1>8. ASSUME NEW c \in Conn, Rollback(c) PROVE TypeOK'
    BY <1>8, IdleType DEF Rollback, TypeOK
  <1>9. ASSUME NEW c \in Conn, CommitResult(c) PROVE TypeOK'
    <2>1. [status |-> "ready", current_game |-> None] \in WorkerRow
      BY DEF WorkerRow
    <2> QED BY <1>9, <2>1, CommitType, IdleType DEF CommitResult, TypeOK
  <1>10. ASSUME NEW w \in Worker, NEW g \in Game, NEW n \in Attempts, Heartbeat(w, g, n)
         PROVE  TypeOK'
    <2>1. Renewed(game[g]) \in GameRow
      BY RowType DEF Renewed, GameRow
    <2> QED BY <1>10, <2>1 DEF Heartbeat, TypeOK
  <1>11. ASSUME NEW w \in Worker, NEW g \in Game, NEW n \in Attempts,
                NEW first \in 1 .. MaxSeq, NEW last \in 1 .. MaxSeq,
                Events(w, g, n, first, last)
         PROVE  TypeOK'
    <2>1. game' \in [Game -> GameRow]
      <3>1. ASSUME NEW k \in 0 .. MaxSeq PROVE Greatest(k, last) \in 0 .. MaxSeq
        BY DEF Greatest
      <3>2. Renewed(game[g]) \in GameRow
        BY RowType DEF Renewed, GameRow
      <3>3. Advanced(game[g], last) \in GameRow
        <4> DEFINE r == Renewed(game[g])
                   s == Greatest(r.last_event_seq, last)
                   a == Greatest(r.action_count, last)
        <4>1. s \in 0 .. MaxSeq /\ a \in 0 .. MaxSeq
          BY <3>1, <3>2 DEF GameRow
        <4>2. r \in GameRow
          BY <3>2
        <4> HIDE DEF r, s, a
        <4>3. [r EXCEPT !.last_event_seq = s, !.action_count = a] \in GameRow
          BY <4>1, <4>2 DEF GameRow
        <4> QED BY <4>3 DEF r, s, a, Advanced
      <3> QED BY <1>11, <3>3 DEF Events, TypeOK
    <2>2. events' \in [Game -> [Attempts -> SUBSET (1 .. MaxSeq)]]
      BY <1>11 DEF Events, TypeOK
    <2> QED BY <1>11, <2>1, <2>2 DEF Events, TypeOK
  <1>12. ASSUME NEW w \in Worker, NEW g \in Game, NEW n \in Attempts, NEW c \in Conn,
                NEW outcome \in {"completed", "infra_failed"}, NEW k \in 0 .. MaxSeq,
                Result(c, w, g, n, outcome, k)
         PROVE  TypeOK'
    <2>1. [kind |-> "result", worker |-> w, games |-> {g}, outcome |-> outcome,
           action_count |-> k, tally |-> CountGames({g}, outcome)] \in Transaction
      BY CountType DEF Transaction
    <2> QED BY <1>12, <2>1 DEF Result, TypeOK
  <1>13. CASE UNCHANGED vars
    BY <1>13 DEF vars, TypeOK
  <1> QED BY <1>1, <1>2, <1>3, <1>4, <1>5, <1>6, <1>7, <1>8, <1>9, <1>10, <1>11, <1>12,
             <1>13 DEF Next

\* Every reachable state has the types of the tables of 018_rl_monopoly.sql: their
\* check constraints on statuses, attempt and event counters are never what stops
\* a transaction.
THEOREM TypeCorrect == Spec => []TypeOK
  <1>1. Init => TypeOK
    BY InitType
  <1>2. TypeOK /\ [Next]_vars => TypeOK'
    BY NextType
  <1> QED BY <1>1, <1>2, PTL DEF Spec

----------------------------------------------------------------------------
(* The attempt ledger *)

\* One row at a time: what the end of a lease, a cancel and a claim make of a ledger.
LEMMA LostKeepsLedger ==
    ASSUME TypeOK, NEW g \in Game, game[g].status = "leased", game[g].attempt_count > 0,
           LedgerOf(game[g], attempt[g]), NEW outcome \in Lost
    PROVE  LedgerOf(AfterLostAttempt(g), CloseAttempt(g, outcome))
  <1>1. game[g] \in GameRow /\ \A n \in Attempts : attempt[g][n] \in AttemptRow
    BY RowType
  <1>2. /\ AfterLostAttempt(g).attempt_count = game[g].attempt_count
        /\ AfterLostAttempt(g).status = IF Exhausted(g) THEN "failed" ELSE "queued"
    BY <1>1 DEF AfterLostAttempt, GameRow
  <1>3. ASSUME NEW n \in Attempts
        PROVE  CloseAttempt(g, outcome)[n].status =
                   IF n = game[g].attempt_count THEN outcome ELSE attempt[g][n].status
    BY <1>1 DEF CloseAttempt, LedgerOf, AttemptRow
  <1>4. Exhausted(g) => game[g].attempt_count = MaxAttempts
    BY <1>1 DEF Exhausted, GameRow
  <1> QED BY <1>2, <1>3, <1>4 DEF LedgerOf, Lost

LEMMA CompletedKeepsLedger ==
    ASSUME TypeOK, NEW g \in Game, game[g].status = "leased", NEW k,
           LedgerOf(game[g], attempt[g])
    PROVE  LedgerOf(AfterCompleted(g, k), CloseAttempt(g, "completed"))
  <1>1. game[g] \in GameRow /\ \A n \in Attempts : attempt[g][n] \in AttemptRow
    BY RowType
  <1>2. /\ AfterCompleted(g, k).attempt_count = game[g].attempt_count
        /\ AfterCompleted(g, k).status = "done"
    BY <1>1 DEF AfterCompleted, GameRow
  <1>3. ASSUME NEW n \in Attempts
        PROVE  CloseAttempt(g, "completed")[n].status =
                   IF n = game[g].attempt_count THEN "completed" ELSE attempt[g][n].status
    BY <1>1 DEF CloseAttempt, LedgerOf, AttemptRow
  <1> QED BY <1>2, <1>3 DEF LedgerOf, Lost

LEMMA CancelKeepsLedger ==
    ASSUME TypeOK, NEW g \in Game, LedgerOf(game[g], attempt[g])
    PROVE  /\ game[g].status \in Outstanding =>
                 LedgerOf([game[g] EXCEPT !.status = "cancelled", !.lease_worker = None,
                                          !.lapsed = FALSE],
                          CloseAttempt(g, "cancelled"))
           /\ game[g].status \notin Outstanding =>
                 LedgerOf(game[g], CloseAttempt(g, "cancelled"))
  <1> DEFINE row == [game[g] EXCEPT !.status = "cancelled", !.lease_worker = None,
                                    !.lapsed = FALSE]
  <1>1. game[g] \in GameRow /\ \A n \in Attempts : attempt[g][n] \in AttemptRow
    BY RowType
  <1>2. row.attempt_count = game[g].attempt_count /\ row.status = "cancelled"
    BY <1>1 DEF GameRow
  <1>3. ASSUME NEW n \in Attempts
        PROVE  CloseAttempt(g, "cancelled")[n].status =
                   IF n = game[g].attempt_count /\ game[g].status = "leased"
                   THEN "cancelled" ELSE attempt[g][n].status
    BY <1>1 DEF CloseAttempt, LedgerOf, AttemptRow
  <1>4. ASSUME game[g].status \notin Outstanding, NEW n \in Attempts
        PROVE  CloseAttempt(g, "cancelled")[n] = attempt[g][n]
    BY <1>1, <1>4 DEF CloseAttempt, LedgerOf, Outstanding
  <1>5. ASSUME game[g].status \in Outstanding PROVE LedgerOf(row, CloseAttempt(g, "cancelled"))
    <2> HIDE DEF row
    <2> QED BY <1>2, <1>3, <1>5 DEF LedgerOf, Outstanding, Lost
  <1>6. ASSUME game[g].status \notin Outstanding
        PROVE  LedgerOf(game[g], CloseAttempt(g, "cancelled"))
    BY <1>4, <1>6 DEF LedgerOf
  <1> QED BY <1>5, <1>6

LEMMA ClaimKeepsLedger ==
    ASSUME NEW row \in GameRow, NEW rows \in [Attempts -> AttemptRow], NEW w \in Worker,
           row.status = "queued", row.attempt_count < MaxAttempts, LedgerOf(row, rows)
    PROVE  LedgerOf([row EXCEPT !.status = "leased", !.attempt_count = row.attempt_count + 1,
                                !.lease_worker = w, !.lapsed = FALSE],
                    [rows EXCEPT ![row.attempt_count + 1] =
                         [status |-> "leased", worker |-> w]])
  <1> DEFINE m == row.attempt_count + 1
             claimed == [row EXCEPT !.status = "leased", !.attempt_count = m,
                                    !.lease_worker = w, !.lapsed = FALSE]
             after == [rows EXCEPT ![m] = [status |-> "leased", worker |-> w]]
  <1>1. m \in Attempts /\ row.attempt_count \in Nat
    BY DEF GameRow, Attempts
  <1>2. claimed.status = "leased" /\ claimed.attempt_count = m /\ claimed.lease_worker = w
    BY DEF GameRow
  <1>3. after[m] = [status |-> "leased", worker |-> w]
    BY <1>1
  <1>4. \A n \in Attempts \ {m} : after[n] = rows[n]
    OBVIOUS
  <1>5. \A n \in Attempts : n < m => rows[n].status \in Lost
    BY <1>1 DEF LedgerOf, Attempts
  <1>6. \A n \in Attempts : n > m => rows[n].status = "none"
    BY <1>1 DEF LedgerOf, Attempts
  <1>7. LedgerOf(claimed, after)
    <2> HIDE DEF claimed, after
    <2> QED BY <1>1, <1>2, <1>3, <1>4, <1>5, <1>6 DEF LedgerOf, Attempts
  <1> QED BY <1>7

\* What a transaction commits keeps every ledger.
LEMMA CommitKeepsLedger ==
    ASSUME LedgerInv, NEW c \in Conn
    PROVE  \A g \in Game : LedgerOf(GamesAfter(c)[g], AttemptsAfter(c)[g])
  <1> SUFFICES ASSUME NEW g \in Game
               PROVE  LedgerOf(GamesAfter(c)[g], AttemptsAfter(c)[g])
    OBVIOUS
  <1> USE DEF LedgerInv
  <1>1. CASE g \notin tx[c].games
    BY <1>1 DEF GamesAfter, AttemptsAfter, AttemptLedger
  <1>2. CASE g \in tx[c].games
    <2>1. game[g].status = "leased" /\ tx[c].kind # "idle"
      BY <1>2 DEF TxHoldsLeases
    <2>2. tx[c].outcome \in Lost \cup {"completed"}
      BY <2>1, RowType DEF TxHoldsLeases, Transaction, Lost
    <2>3. game[g].attempt_count > 0 /\ LedgerOf(game[g], attempt[g])
      BY <2>1 DEF ScheduledTogether, AttemptLedger
    <2>4. CASE tx[c].outcome = "completed"
      BY <1>2, <2>1, <2>3, <2>4, CompletedKeepsLedger DEF GamesAfter, AttemptsAfter, AfterLease
    <2>5. CASE tx[c].outcome \in Lost
      BY <1>2, <2>1, <2>3, <2>5, LostKeepsLedger DEF GamesAfter, AttemptsAfter, AfterLease, Lost
    <2> QED BY <2>2, <2>4, <2>5
  <1> QED BY <1>1, <1>2

\* A row change that leaves the status, the count and the worker alone keeps the ledger.
LEMMA SameLedger ==
    ASSUME NEW row, NEW new, NEW rows, LedgerOf(row, rows),
           new.status = row.status, new.attempt_count = row.attempt_count,
           new.lease_worker = row.lease_worker
    PROVE  LedgerOf(new, rows)
  BY DEF LedgerOf

LEMMA NextLedger == ASSUME LedgerInv, [Next]_vars PROVE AttemptLedger'
  <1> USE DEF LedgerInv
  <1>1. ASSUME NEW t \in Tournament, Start(t) PROVE AttemptLedger'
    <2> SUFFICES ASSUME NEW g \in Game PROVE LedgerOf(game'[g], attempt[g])
      BY <1>1 DEF Start, AttemptLedger
    <2>1. LedgerOf(game[g], attempt[g]) /\ game[g] \in GameRow
      BY RowType DEF AttemptLedger
    <2>2. CASE TournamentOf[g] # t
      BY <1>1, <2>1, <2>2 DEF Start
    <2>3. CASE TournamentOf[g] = t
      <3>1. game[g].status = "unscheduled" /\ game[g].attempt_count = 0
        BY <1>1, <2>3 DEF Start, ScheduledTogether
      <3>2. game'[g].attempt_count = 0
        BY <1>1, <2>1, <2>3, <3>1 DEF Start, GameRow
      <3> QED BY <2>1, <3>1, <3>2 DEF LedgerOf, Attempts
    <2> QED BY <2>2, <2>3
  <1>2. ASSUME NEW t \in Tournament, Cancel(t) PROVE AttemptLedger'
    <2> SUFFICES ASSUME NEW g \in Game PROVE LedgerOf(game'[g], attempt'[g])
      BY DEF AttemptLedger
    <2>1. LedgerOf(game[g], attempt[g])
      BY DEF AttemptLedger
    <2>2. CASE g \notin GamesOf(t)
      BY <1>2, <2>1, <2>2 DEF Cancel
    <2>3. CASE g \in GamesOf(t)
      <3>1. attempt'[g] = CloseAttempt(g, "cancelled")
        BY <1>2, <2>3 DEF Cancel
      <3>2. game'[g] = IF game[g].status \in Outstanding
                       THEN [game[g] EXCEPT !.status = "cancelled", !.lease_worker = None,
                                            !.lapsed = FALSE]
                       ELSE game[g]
        BY <1>2, <2>3 DEF Cancel
      <3> QED BY <2>1, <3>1, <3>2, CancelKeepsLedger
    <2> QED BY <2>2, <2>3
  <1>3. ASSUME NEW w \in Worker, NEW s \in {"ready", "busy", "other"},
               NEW g \in Game \cup {None}, ReportResource(w, s, g)
        PROVE  AttemptLedger'
    BY <1>3 DEF ReportResource, AttemptLedger
  <1>4. ASSUME NEW h \in Game, Lapse(h) PROVE AttemptLedger'
    <2> SUFFICES ASSUME NEW g \in Game PROVE LedgerOf(game'[g], attempt[g])
      BY <1>4 DEF Lapse, AttemptLedger
    <2>1. LedgerOf(game[g], attempt[g]) /\ game[g] \in GameRow
      BY RowType DEF AttemptLedger
    <2>2. /\ game'[g].status = game[g].status
          /\ game'[g].attempt_count = game[g].attempt_count
          /\ game'[g].lease_worker = game[g].lease_worker
      BY <1>4, <2>1 DEF Lapse, TypeOK, GameRow
    <2> QED BY <2>1, <2>2, SameLedger
  <1>5. ASSUME NEW c \in Conn, NEW w \in Worker, RecoverExpired(c, w) PROVE AttemptLedger'
    BY <1>5 DEF RecoverExpired, AttemptLedger
  <1>6. ASSUME NEW c \in Conn, NEW w \in Worker, ClaimNothing(c, w) PROVE AttemptLedger'
    BY <1>6, CommitKeepsLedger DEF ClaimNothing, AttemptLedger
  <1>7. ASSUME NEW c \in Conn, NEW w \in Worker, NEW g \in Game, ClaimGame(c, w, g)
        PROVE  AttemptLedger'
    <2> DEFINE row == GamesAfter(c)[g]
               rows == AttemptsAfter(c)[g]
    <2>1. row \in GameRow /\ rows \in [Attempts -> AttemptRow]
      BY CommitType
    <2>2. row.attempt_count = game[g].attempt_count
      BY RowType DEF GamesAfter, AfterLease, AfterCompleted, AfterLostAttempt, GameRow
    <2>3. row.status = "queued" /\ row.attempt_count < MaxAttempts
      BY <1>7 DEF ClaimGame, Candidates
    <2>4. LedgerOf(row, rows)
      BY CommitKeepsLedger
    <2>5. /\ game' = [GamesAfter(c) EXCEPT ![g] =
                 [row EXCEPT !.status = "leased", !.attempt_count = row.attempt_count + 1,
                             !.lease_worker = w, !.lapsed = FALSE]]
          /\ attempt' = [AttemptsAfter(c) EXCEPT ![g] =
                 [rows EXCEPT ![row.attempt_count + 1] = [status |-> "leased", worker |-> w]]]
      BY <1>7, <2>1, <2>2, CommitType DEF ClaimGame
    <2>6. LedgerOf(game'[g], attempt'[g])
      BY <2>1, <2>3, <2>4, <2>5, ClaimKeepsLedger, CommitType
    <2>7. ASSUME NEW h \in Game, h # g PROVE LedgerOf(game'[h], attempt'[h])
      BY <2>5, <2>7, CommitKeepsLedger, CommitType
    <2> QED BY <2>6, <2>7 DEF AttemptLedger
  <1>8. ASSUME NEW c \in Conn, Rollback(c) PROVE AttemptLedger'
    BY <1>8 DEF Rollback, AttemptLedger
  <1>9. ASSUME NEW c \in Conn, CommitResult(c) PROVE AttemptLedger'
    BY <1>9, CommitKeepsLedger DEF CommitResult, AttemptLedger
  <1>10. ASSUME NEW w \in Worker, NEW h \in Game, NEW n \in Attempts, Heartbeat(w, h, n)
         PROVE  AttemptLedger'
    <2> SUFFICES ASSUME NEW g \in Game PROVE LedgerOf(game'[g], attempt[g])
      BY <1>10 DEF Heartbeat, AttemptLedger
    <2>1. LedgerOf(game[g], attempt[g]) /\ game[g] \in GameRow
      BY RowType DEF AttemptLedger
    <2>2. /\ game'[g].status = game[g].status
          /\ game'[g].attempt_count = game[g].attempt_count
          /\ game'[g].lease_worker = game[g].lease_worker
      BY <1>10, <2>1 DEF Heartbeat, Renewed, TypeOK, GameRow
    <2> QED BY <2>1, <2>2, SameLedger
  <1>11. ASSUME NEW w \in Worker, NEW h \in Game, NEW n \in Attempts,
                NEW first \in 1 .. MaxSeq, NEW last \in 1 .. MaxSeq,
                Events(w, h, n, first, last)
         PROVE  AttemptLedger'
    <2> SUFFICES ASSUME NEW g \in Game PROVE LedgerOf(game'[g], attempt[g])
      BY <1>11 DEF Events, AttemptLedger
    <2>1. LedgerOf(game[g], attempt[g]) /\ game[g] \in GameRow
      BY RowType DEF AttemptLedger
    <2>2. /\ game'[g].status = game[g].status
          /\ game'[g].attempt_count = game[g].attempt_count
          /\ game'[g].lease_worker = game[g].lease_worker
      BY <1>11, <2>1 DEF Events, Advanced, Renewed, TypeOK, GameRow
    <2> QED BY <2>1, <2>2, SameLedger
  <1>12. ASSUME NEW w \in Worker, NEW g \in Game, NEW n \in Attempts, NEW c \in Conn,
                NEW outcome \in {"completed", "infra_failed"}, NEW k \in 0 .. MaxSeq,
                Result(c, w, g, n, outcome, k)
         PROVE  AttemptLedger'
    BY <1>12 DEF Result, AttemptLedger
  <1>13. CASE UNCHANGED vars
    BY <1>13 DEF vars, AttemptLedger
  <1> QED BY <1>1, <1>2, <1>3, <1>4, <1>5, <1>6, <1>7, <1>8, <1>9, <1>10, <1>11, <1>12,
             <1>13 DEF Next

----------------------------------------------------------------------------
(* Row locks *)

\* A commit writes the games it had locked and no other, and each leaves "leased".
LEMMA CommitEndsLeases ==
    ASSUME TypeOK, TxHoldsLeases, NEW c \in Conn, NEW g \in Game
    PROVE  /\ g \notin tx[c].games => GamesAfter(c)[g] = game[g]
           /\ g \in tx[c].games => GamesAfter(c)[g].status \in {"queued", "failed", "done"}
           /\ GamesAfter(c)[g].attempt_count = game[g].attempt_count
  <1>1. game[g] \in GameRow
    BY RowType
  <1>2. AfterLostAttempt(g).status \in {"queued", "failed"}
    BY <1>1 DEF AfterLostAttempt, GameRow
  <1>3. \A k : AfterCompleted(g, k).status = "done"
    BY <1>1 DEF AfterCompleted, GameRow
  <1>4. /\ AfterLostAttempt(g).attempt_count = game[g].attempt_count
        /\ \A k : AfterCompleted(g, k).attempt_count = game[g].attempt_count
    BY <1>1 DEF AfterLostAttempt, AfterCompleted, GameRow
  <1> QED BY <1>2, <1>3, <1>4 DEF GamesAfter, AfterLease

\* Closing transaction c, whose games are c's alone, keeps the others' locks: the games
\* of every other transaction are still leased.
LEMMA CommitKeepsLocks ==
    ASSUME TypeOK, TxHoldsLeases, NEW c \in Conn, tx' = [tx EXCEPT ![c] = Idle],
           \A g \in Game : game[g].status = "leased" /\ g \notin tx[c].games =>
                               game'[g].status = "leased"
    PROVE  TxHoldsLeases'
  <1>1. tx'[c] = Idle /\ \A d \in Conn \ {c} : tx'[d] = tx[d]
    BY DEF TypeOK
  <1>2. \A d \in Conn : tx[d].games \subseteq Game
    BY RowType DEF Transaction
  <1>3. Idle.kind = "idle" /\ Idle.games = {}
    BY DEF Idle
  <1>4. ASSUME NEW d \in Conn
        PROVE  /\ tx'[d].kind = "idle" => tx'[d].games = {}
               /\ tx'[d].kind = "claim" => tx'[d].outcome = "expired"
               /\ tx'[d].kind = "result" => tx'[d].outcome \in {"completed", "infra_failed"}
               /\ \A g \in tx'[d].games : game'[g].status = "leased"
    BY <1>1, <1>2, <1>3 DEF TxHoldsLeases
  <1>5. ASSUME NEW d \in Conn, NEW e \in Conn, d # e
        PROVE  tx'[d].games \cap tx'[e].games = {}
    BY <1>1, <1>3, <1>5 DEF TxHoldsLeases
  <1> QED BY <1>4, <1>5 DEF TxHoldsLeases

\* Opening a transaction on leased games that no other has locked.
LEMMA OpenKeepsLocks ==
    ASSUME TypeOK, TxHoldsLeases, NEW c \in Conn, tx[c].kind = "idle",
           NEW x \in Transaction, tx' = [tx EXCEPT ![c] = x], game' = game,
           \/ x.kind = "claim" /\ x.outcome = "expired"
           \/ x.kind = "result" /\ x.outcome \in {"completed", "infra_failed"},
           \A g \in x.games : game[g].status = "leased" /\ ~Locked(g)
    PROVE  TxHoldsLeases'
  <1>1. tx'[c] = x /\ \A d \in Conn \ {c} : tx'[d] = tx[d]
    BY DEF TypeOK
  <1>2. ASSUME NEW d \in Conn
        PROVE  /\ tx'[d].kind = "idle" => tx'[d].games = {}
               /\ tx'[d].kind = "claim" => tx'[d].outcome = "expired"
               /\ tx'[d].kind = "result" => tx'[d].outcome \in {"completed", "infra_failed"}
               /\ \A g \in tx'[d].games : game'[g].status = "leased"
    BY <1>1 DEF TxHoldsLeases
  <1>3. ASSUME NEW d \in Conn, NEW e \in Conn, d # e
        PROVE  tx'[d].games \cap tx'[e].games = {}
    BY <1>1, <1>3 DEF TxHoldsLeases, Locked
  <1> QED BY <1>2, <1>3 DEF TxHoldsLeases

\* A step that opens and closes no transaction and ends no locked lease.
LEMMA SameLocks ==
    ASSUME TypeOK, TxHoldsLeases, tx' = tx,
           \A g \in Game : game[g].status = "leased" /\ Locked(g) => game'[g].status = "leased"
    PROVE  TxHoldsLeases'
  <1>1. \A d \in Conn : tx[d].games \subseteq Game
    BY RowType DEF Transaction
  <1> QED BY <1>1 DEF TxHoldsLeases, Locked

LEMMA NextLocks == ASSUME TypeOK, TxHoldsLeases, ScheduledTogether, [Next]_vars
                   PROVE TxHoldsLeases'
  <1> USE RowType
  <1>1. ASSUME NEW t \in Tournament, Start(t) PROVE TxHoldsLeases'
    <2>1. ASSUME NEW g \in Game, game[g].status = "leased" PROVE game'[g].status = "leased"
      BY <1>1, <2>1 DEF Start, ScheduledTogether
    <2> QED BY <1>1, <2>1, SameLocks DEF Start
  <1>2. ASSUME NEW t \in Tournament, Cancel(t) PROVE TxHoldsLeases'
    <2>1. ASSUME NEW g \in Game, game[g].status = "leased", Locked(g)
          PROVE  game'[g].status = "leased"
      BY <1>2, <2>1 DEF Cancel
    <2> QED BY <1>2, <2>1, SameLocks DEF Cancel
  <1>3. ASSUME NEW w \in Worker, NEW s \in {"ready", "busy", "other"},
               NEW g \in Game \cup {None}, ReportResource(w, s, g)
        PROVE  TxHoldsLeases'
    BY <1>3, SameLocks DEF ReportResource
  <1>4. ASSUME NEW h \in Game, Lapse(h) PROVE TxHoldsLeases'
    <2>1. ASSUME NEW g \in Game PROVE game'[g].status = game[g].status
      BY <1>4 DEF Lapse, TypeOK, GameRow
    <2> QED BY <1>4, <2>1, SameLocks DEF Lapse
  <1>5. ASSUME NEW c \in Conn, NEW w \in Worker, RecoverExpired(c, w) PROVE TxHoldsLeases'
    <2>1. \E y \in Transaction :
             /\ tx' = [tx EXCEPT ![c] = y]
             /\ y.kind = "claim" /\ y.outcome = "expired"
             /\ \A g \in y.games : game[g].status = "leased" /\ ~Locked(g)
      <3> DEFINE x == [kind |-> "claim", worker |-> w, games |-> Expired,
                       outcome |-> "expired", action_count |-> 0,
                       tally |-> CountGames(Expired, "expired")]
      <3>1. x \in Transaction
        BY CountType DEF Transaction, Expired
      <3>2. \A g \in x.games : game[g].status = "leased" /\ ~Locked(g)
        BY DEF Expired
      <3>3. x.kind = "claim" /\ x.outcome = "expired"
        OBVIOUS
      <3>4. tx' = [tx EXCEPT ![c] = x]
        BY <1>5 DEF RecoverExpired
      <3> QED BY <3>1, <3>2, <3>3, <3>4
    <2>2. tx[c].kind = "idle" /\ game' = game
      BY <1>5 DEF RecoverExpired
    <2> QED BY <2>1, <2>2, OpenKeepsLocks
  <1>6. ASSUME NEW c \in Conn, NEW w \in Worker, ClaimNothing(c, w) PROVE TxHoldsLeases'
    BY <1>6, CommitEndsLeases, CommitKeepsLocks DEF ClaimNothing
  <1>7. ASSUME NEW c \in Conn, NEW w \in Worker, NEW g \in Game, ClaimGame(c, w, g)
        PROVE  TxHoldsLeases'
    <2>1. ASSUME NEW h \in Game, game[h].status = "leased", h \notin tx[c].games
          PROVE  game'[h].status = "leased"
      <3>1. GamesAfter(c)[h] = game[h]
        BY <2>1, CommitEndsLeases
      <3>2. GamesAfter(c)[g].status = "queued"
        BY <1>7 DEF ClaimGame, Candidates
      <3>3. h # g
        BY <2>1, <3>1, <3>2
      <3> QED BY <1>7, <2>1, <3>1, <3>3, CommitType DEF ClaimGame
    <2> QED BY <1>7, <2>1, CommitKeepsLocks DEF ClaimGame
  <1>8. ASSUME NEW c \in Conn, Rollback(c) PROVE TxHoldsLeases'
    BY <1>8, CommitKeepsLocks DEF Rollback
  <1>9. ASSUME NEW c \in Conn, CommitResult(c) PROVE TxHoldsLeases'
    BY <1>9, CommitEndsLeases, CommitKeepsLocks DEF CommitResult
  <1>10. ASSUME NEW w \in Worker, NEW h \in Game, NEW n \in Attempts, Heartbeat(w, h, n)
         PROVE  TxHoldsLeases'
    <2>1. ASSUME NEW g \in Game PROVE game'[g].status = game[g].status
      BY <1>10 DEF Heartbeat, Renewed, TypeOK, GameRow
    <2> QED BY <1>10, <2>1, SameLocks DEF Heartbeat
  <1>11. ASSUME NEW w \in Worker, NEW h \in Game, NEW n \in Attempts,
                NEW first \in 1 .. MaxSeq, NEW last \in 1 .. MaxSeq,
                Events(w, h, n, first, last)
         PROVE  TxHoldsLeases'
    <2>1. ASSUME NEW g \in Game PROVE game'[g].status = game[g].status
      BY <1>11 DEF Events, Advanced, Renewed, TypeOK, GameRow
    <2> QED BY <1>11, <2>1, SameLocks DEF Events
  <1>12. ASSUME NEW w \in Worker, NEW g \in Game, NEW n \in Attempts, NEW c \in Conn,
                NEW outcome \in {"completed", "infra_failed"}, NEW k \in 0 .. MaxSeq,
                Result(c, w, g, n, outcome, k)
         PROVE  TxHoldsLeases'
    <2> DEFINE x == [kind |-> "result", worker |-> w, games |-> {g}, outcome |-> outcome,
                     action_count |-> k, tally |-> CountGames({g}, outcome)]
    <2>1. x \in Transaction
      BY CountType DEF Transaction
    <2>2. \A h \in x.games : game[h].status = "leased" /\ ~Locked(h)
      BY <1>12 DEF Result, LeaseValid
    <2>3. x.kind = "result" /\ x.outcome \in {"completed", "infra_failed"}
      OBVIOUS
    <2>4. tx[c].kind = "idle" /\ tx' = [tx EXCEPT ![c] = x] /\ game' = game
      BY <1>12 DEF Result
    <2>5. \E y \in Transaction :
             /\ tx' = [tx EXCEPT ![c] = y]
             /\ y.kind = "result" /\ y.outcome \in {"completed", "infra_failed"}
             /\ \A h \in y.games : game[h].status = "leased" /\ ~Locked(h)
      BY <2>1, <2>2, <2>3, <2>4
    <2> QED BY <2>4, <2>5, OpenKeepsLocks
  <1>13. CASE UNCHANGED vars
    BY <1>13, SameLocks DEF vars
  <1> QED BY <1>1, <1>2, <1>3, <1>4, <1>5, <1>6, <1>7, <1>8, <1>9, <1>10, <1>11, <1>12,
             <1>13 DEF Next

----------------------------------------------------------------------------
(* Tournaments and their games *)

\* A step that lets no game leave or enter "unscheduled", gives no game its lease
\* without counting the attempt, and keeps every tournament scheduled.
LEMMA SameSchedule ==
    ASSUME ScheduledTogether, TypeOK,
           \A g \in Game :
               /\ game'[g].status = "unscheduled" <=> game[g].status = "unscheduled"
               /\ \/ game'[g].attempt_count = game[g].attempt_count /\
                     (game'[g].status = "leased" => game[g].status = "leased")
                  \/ game'[g].attempt_count > 0 /\ game'[g].status # "unscheduled"
               /\ game'[g].lapsed => game'[g].status = "leased",
           \A t \in Tournament :
               tournament'[t].status = "unscheduled" <=> tournament[t].status = "unscheduled"
    PROVE  ScheduledTogether'
  <1> TournamentOf \in [Game -> Tournament]
    OBVIOUS
  <1> QED BY DEF ScheduledTogether

\* A commit leaves tournaments scheduled, and its games too.
LEMMA CommitKeepsSchedule ==
    ASSUME TypeOK, TxHoldsLeases, ScheduledTogether, NEW c \in Conn
    PROVE  /\ \A t \in Tournament :
                 TournamentsAfter(c)[t].status = "unscheduled"
                     <=> tournament[t].status = "unscheduled"
           /\ \A g \in Game :
                 /\ GamesAfter(c)[g].status = "unscheduled" <=> game[g].status = "unscheduled"
                 /\ GamesAfter(c)[g].attempt_count = game[g].attempt_count
                 /\ GamesAfter(c)[g].status = "leased" => game[g].status = "leased"
                 /\ GamesAfter(c)[g].lapsed => GamesAfter(c)[g].status = "leased"
  <1>1. ASSUME NEW t \in Tournament
        PROVE  TournamentsAfter(c)[t].status = "unscheduled"
                   <=> tournament[t].status = "unscheduled"
    <2>1. tournament[t] \in TournamentRow
      BY DEF TypeOK
    <2>2. /\ WithReason(c, t) \in TournamentRow
          /\ WithReason(c, t).status = tournament[t].status
      BY <2>1 DEF WithReason, TournamentRow
    <2>3. ASSUME NEW tally
          PROVE  Refreshed(WithReason(c, t), tally).status = "unscheduled"
                     <=> tournament[t].status = "unscheduled"
      BY <2>2 DEF Refreshed, TournamentRow
    <2> QED BY <2>3 DEF TournamentsAfter
  <1>2. ASSUME NEW g \in Game
        PROVE  /\ GamesAfter(c)[g].status = "unscheduled" <=> game[g].status = "unscheduled"
               /\ GamesAfter(c)[g].attempt_count = game[g].attempt_count
               /\ GamesAfter(c)[g].status = "leased" => game[g].status = "leased"
               /\ GamesAfter(c)[g].lapsed => GamesAfter(c)[g].status = "leased"
    <2>1. g \in tx[c].games => ~GamesAfter(c)[g].lapsed
      <3>1. game[g] \in GameRow
        BY RowType
      <3>2. ~AfterLostAttempt(g).lapsed /\ \A k : ~AfterCompleted(g, k).lapsed
        BY <3>1 DEF AfterLostAttempt, AfterCompleted, GameRow
      <3> QED BY <3>2 DEF GamesAfter, AfterLease
    <2> QED BY <2>1, CommitEndsLeases DEF TxHoldsLeases, ScheduledTogether
  <1> QED BY <1>1, <1>2

LEMMA NextScheduled == ASSUME TypeOK, TxHoldsLeases, ScheduledTogether, [Next]_vars
                       PROVE ScheduledTogether'
  <1> USE RowType
  <1>1. ASSUME NEW t \in Tournament, Start(t) PROVE ScheduledTogether'
    <2>1. ASSUME NEW g \in Game
          PROVE  /\ game'[g].attempt_count = game[g].attempt_count
                 /\ game'[g].lapsed = game[g].lapsed
                 /\ game'[g].status =
                       IF TournamentOf[g] = t THEN "queued" ELSE game[g].status
      BY <1>1 DEF Start, GameRow
    <2>2. \A u \in Tournament :
             tournament'[u].status = IF u = t THEN "active" ELSE tournament[u].status
      BY <1>1 DEF Start, TypeOK, TournamentRow
    <2>3. tournament[t].status = "unscheduled"
      BY <1>1 DEF Start
    <2>4. ASSUME NEW g \in Game
          PROVE  /\ game'[g].status = "unscheduled"
                       <=> tournament'[TournamentOf[g]].status = "unscheduled"
                 /\ game'[g].status = "unscheduled" => game'[g].attempt_count = 0
                 /\ game'[g].status = "leased" => game'[g].attempt_count > 0
                 /\ game'[g].lapsed => game'[g].status = "leased"
      <3>1. CASE TournamentOf[g] = t
        BY <2>1, <2>2, <2>3, <3>1 DEF ScheduledTogether
      <3>2. CASE TournamentOf[g] # t
        <4>1. TournamentOf[g] \in Tournament
          OBVIOUS
        <4> QED BY <2>1, <2>2, <3>2, <4>1 DEF ScheduledTogether
      <3> QED BY <3>1, <3>2
    <2> QED BY <2>4 DEF ScheduledTogether
  <1>2. ASSUME NEW t \in Tournament, Cancel(t) PROVE ScheduledTogether'
    <2>1. ASSUME NEW g \in Game
          PROVE  /\ game'[g].status = "unscheduled" <=> game[g].status = "unscheduled"
                 /\ game'[g].attempt_count = game[g].attempt_count
                 /\ game'[g].status = "leased" => game[g].status = "leased"
                 /\ game'[g].lapsed => game'[g].status = "leased"
      BY <1>2 DEF Cancel, GameRow, Outstanding, ScheduledTogether
    <2>2. \A u \in Tournament :
             tournament'[u].status = "unscheduled" <=> tournament[u].status = "unscheduled"
      BY <1>2 DEF Cancel, TypeOK, TournamentRow
    <2> QED BY <2>1, <2>2, SameSchedule
  <1>3. ASSUME NEW w \in Worker, NEW s \in {"ready", "busy", "other"},
               NEW g \in Game \cup {None}, ReportResource(w, s, g)
        PROVE  ScheduledTogether'
    BY <1>3 DEF ReportResource, ScheduledTogether
  <1>4. ASSUME NEW h \in Game, Lapse(h) PROVE ScheduledTogether'
    <2>1. ASSUME NEW g \in Game
          PROVE  /\ game'[g].status = game[g].status
                 /\ game'[g].attempt_count = game[g].attempt_count
                 /\ game'[g].lapsed => game'[g].status = "leased"
      BY <1>4 DEF Lapse, TypeOK, GameRow, ScheduledTogether
    <2> QED BY <1>4, <2>1, SameSchedule DEF Lapse
  <1>5. ASSUME NEW c \in Conn, NEW w \in Worker, RecoverExpired(c, w)
        PROVE  ScheduledTogether'
    BY <1>5 DEF RecoverExpired, ScheduledTogether
  <1>6. ASSUME NEW c \in Conn, NEW w \in Worker, ClaimNothing(c, w)
        PROVE  ScheduledTogether'
    BY <1>6, CommitKeepsSchedule, SameSchedule DEF ClaimNothing
  <1>7. ASSUME NEW c \in Conn, NEW w \in Worker, NEW g \in Game, ClaimGame(c, w, g)
        PROVE  ScheduledTogether'
    <2>1. GamesAfter(c) \in [Game -> GameRow]
      BY CommitType
    <2>2. ASSUME NEW h \in Game, h # g PROVE game'[h] = GamesAfter(c)[h]
      BY <1>7, <2>1, <2>2 DEF ClaimGame
    <2>3. game'[g].status = "leased" /\ game'[g].attempt_count > 0
      BY <1>7, <2>1 DEF ClaimGame, GameRow
    <2>4. game[g].status # "unscheduled"
      BY <1>7, CommitKeepsSchedule DEF ClaimGame, Candidates
    <2>5. tournament' = TournamentsAfter(c)
      BY <1>7 DEF ClaimGame
    <2> QED BY <2>2, <2>3, <2>4, <2>5, CommitKeepsSchedule, SameSchedule
  <1>8. ASSUME NEW c \in Conn, Rollback(c) PROVE ScheduledTogether'
    BY <1>8 DEF Rollback, ScheduledTogether
  <1>9. ASSUME NEW c \in Conn, CommitResult(c) PROVE ScheduledTogether'
    BY <1>9, CommitKeepsSchedule, SameSchedule DEF CommitResult
  <1>10. ASSUME NEW w \in Worker, NEW h \in Game, NEW n \in Attempts, Heartbeat(w, h, n)
         PROVE  ScheduledTogether'
    <2>1. ASSUME NEW g \in Game
          PROVE  /\ game'[g].status = game[g].status
                 /\ game'[g].attempt_count = game[g].attempt_count
                 /\ game'[g].lapsed => game'[g].status = "leased"
      BY <1>10 DEF Heartbeat, Renewed, LeaseValid, TypeOK, GameRow, ScheduledTogether
    <2> QED BY <1>10, <2>1, SameSchedule DEF Heartbeat
  <1>11. ASSUME NEW w \in Worker, NEW h \in Game, NEW n \in Attempts,
                NEW first \in 1 .. MaxSeq, NEW last \in 1 .. MaxSeq,
                Events(w, h, n, first, last)
         PROVE  ScheduledTogether'
    <2>1. ASSUME NEW g \in Game
          PROVE  /\ game'[g].status = game[g].status
                 /\ game'[g].attempt_count = game[g].attempt_count
                 /\ game'[g].lapsed => game'[g].status = "leased"
      BY <1>11 DEF Events, Advanced, Renewed, LeaseValid, TypeOK, GameRow, ScheduledTogether
    <2> QED BY <1>11, <2>1, SameSchedule DEF Events
  <1>12. ASSUME NEW w \in Worker, NEW g \in Game, NEW n \in Attempts, NEW c \in Conn,
                NEW outcome \in {"completed", "infra_failed"}, NEW k \in 0 .. MaxSeq,
                Result(c, w, g, n, outcome, k)
         PROVE  ScheduledTogether'
    BY <1>12 DEF Result, ScheduledTogether
  <1>13. CASE UNCHANGED vars
    BY <1>13 DEF vars, ScheduledTogether
  <1> QED BY <1>1, <1>2, <1>3, <1>4, <1>5, <1>6, <1>7, <1>8, <1>9, <1>10, <1>11, <1>12,
             <1>13 DEF Next

----------------------------------------------------------------------------
(* The ledger *)

LEMMA LedgerInit == Init => LedgerInv
  <1> SUFFICES ASSUME Init PROVE LedgerInv
    OBVIOUS
  <1>1. TypeOK
    BY InitType
  <1>2. TxHoldsLeases
    BY DEF Init, Idle, TxHoldsLeases
  <1>3. ScheduledTogether
    BY DEF Init, ScheduledTogether
  <1>4. AttemptLedger
    BY DEF Init, AttemptLedger, LedgerOf, Attempts
  <1> QED BY <1>1, <1>2, <1>3, <1>4 DEF LedgerInv

LEMMA LedgerStep == LedgerInv /\ [Next]_vars => LedgerInv'
  BY NextType, NextLocks, NextScheduled, NextLedger DEF LedgerInv

LEMMA LedgerAlways == Spec => []LedgerInv
  BY LedgerInit, LedgerStep, PTL DEF Spec

\* For every number of games, workers, connections and attempts, and whatever
\* requests are repeated or late, the attempt rows written by the claim, recovery,
\* result and cancel handlers agree with the game rows.
THEOREM LedgerCorrect == Spec => []AttemptLedger
  <1>1. LedgerInv => AttemptLedger
    BY DEF LedgerInv
  <1> QED BY <1>1, LedgerAlways, PTL

----------------------------------------------------------------------------
(* What a step may not do *)

\* Closing the attempt of a game that holds no lease changes nothing.
LEMMA NothingToClose ==
    ASSUME LedgerInv, NEW g \in Game, game[g].status # "leased", NEW status
    PROVE  CloseAttempt(g, status) = attempt[g]
  <1>1. \A n \in Attempts : ~(n = game[g].attempt_count /\ attempt[g][n].status = "leased")
    BY DEF LedgerInv, AttemptLedger, LedgerOf
  <1>2. attempt[g] \in [Attempts -> AttemptRow]
    BY DEF LedgerInv, TypeOK
  <1> QED BY <1>1, <1>2 DEF CloseAttempt

LEMMA FinishedStep ==
    ASSUME LedgerInv, [Next]_vars, NEW g \in Game, game[g].status \in Final
    PROVE  game'[g] = game[g] /\ attempt'[g] = attempt[g] /\ events'[g] = events[g]
  <1> USE DEF LedgerInv
  <1> DEFINE Kept == game'[g] = game[g] /\ attempt'[g] = attempt[g] /\ events'[g] = events[g]
  <1>a. game[g].status \notin {"unscheduled", "queued", "leased"}
    BY DEF Final
  <1>b. \A c \in Conn : g \notin tx[c].games
    BY <1>a DEF TxHoldsLeases
  <1>c. \A c \in Conn : GamesAfter(c)[g] = game[g] /\ AttemptsAfter(c)[g] = attempt[g]
    BY <1>b DEF GamesAfter, AttemptsAfter
  <1>1. ASSUME NEW t \in Tournament, Start(t) PROVE Kept
    <2>1. TournamentOf[g] # t
      BY <1>1, <1>a DEF Start, ScheduledTogether
    <2> QED BY <1>1, <2>1 DEF Start
  <1>2. ASSUME NEW t \in Tournament, Cancel(t) PROVE Kept
    BY <1>2, <1>a, NothingToClose DEF Cancel, Outstanding
  <1>3. ASSUME NEW w \in Worker, NEW s \in {"ready", "busy", "other"},
               NEW h \in Game \cup {None}, ReportResource(w, s, h)
        PROVE  Kept
    BY <1>3 DEF ReportResource
  <1>4. ASSUME NEW h \in Game, Lapse(h) PROVE Kept
    BY <1>4, <1>a DEF Lapse, TypeOK
  <1>5. ASSUME NEW c \in Conn, NEW w \in Worker, RecoverExpired(c, w) PROVE Kept
    BY <1>5 DEF RecoverExpired
  <1>6. ASSUME NEW c \in Conn, NEW w \in Worker, ClaimNothing(c, w) PROVE Kept
    BY <1>6, <1>c DEF ClaimNothing
  <1>7. ASSUME NEW c \in Conn, NEW w \in Worker, NEW h \in Game, ClaimGame(c, w, h)
        PROVE  Kept
    <2>1. h # g
      BY <1>7, <1>a, <1>c DEF ClaimGame, Candidates
    <2> QED BY <1>7, <1>c, <2>1, CommitType DEF ClaimGame
  <1>8. ASSUME NEW c \in Conn, Rollback(c) PROVE Kept
    BY <1>8 DEF Rollback
  <1>9. ASSUME NEW c \in Conn, CommitResult(c) PROVE Kept
    BY <1>9, <1>c DEF CommitResult
  <1>10. ASSUME NEW w \in Worker, NEW h \in Game, NEW n \in Attempts, Heartbeat(w, h, n)
         PROVE  Kept
    BY <1>10, <1>a DEF Heartbeat, LeaseValid, TypeOK
  <1>11. ASSUME NEW w \in Worker, NEW h \in Game, NEW n \in Attempts,
                NEW first \in 1 .. MaxSeq, NEW last \in 1 .. MaxSeq,
                Events(w, h, n, first, last)
         PROVE  Kept
    BY <1>11, <1>a DEF Events, LeaseValid, TypeOK
  <1>12. ASSUME NEW w \in Worker, NEW h \in Game, NEW n \in Attempts, NEW c \in Conn,
                NEW outcome \in {"completed", "infra_failed"}, NEW k \in 0 .. MaxSeq,
                Result(c, w, h, n, outcome, k)
         PROVE  Kept
    BY <1>12 DEF Result
  <1>13. CASE UNCHANGED vars
    BY <1>13 DEF vars
  <1> QED BY <1>1, <1>2, <1>3, <1>4, <1>5, <1>6, <1>7, <1>8, <1>9, <1>10, <1>11, <1>12,
             <1>13 DEF Next

\* The result, event, recovery and cancel handlers never touch a game that is over.
THEOREM FinishedStays == Spec => FinishedGameKept
  <1>1. LedgerInv /\ [Next]_vars =>
          [\A g \in Game : game[g].status \in Final =>
              /\ game'[g] = game[g]
              /\ attempt'[g] = attempt[g]
              /\ events'[g] = events[g]]_vars
    BY FinishedStep
  <1> QED BY <1>1, LedgerAlways, PTL DEF Spec, FinishedGameKept

\* Only the events handler writes replay events, and only for the attempt that holds
\* the lease, before its deadline and outside any transaction that ends it.
THEOREM ReplayIsFenced == Spec => ReplayFenced
  <1>1. ASSUME LedgerInv, [Next]_vars, NEW g \in Game, NEW n \in Attempts,
               events'[g][n] # events[g][n]
        PROVE  /\ attempt[g][n].status = "leased"
               /\ ~game[g].lapsed
               /\ \A c \in Conn : g \notin tx[c].games
    <2>1. PICK w \in Worker, h \in Game, m \in Attempts, first \in 1 .. MaxSeq,
               last \in 1 .. MaxSeq : Events(w, h, m, first, last)
      <3>1. events' # events
        BY <1>1
      <3>2. /\ \A t : ~Start(t) /\ ~Cancel(t)
            /\ \A w, s, h : ~ReportResource(w, s, h)
            /\ \A h : ~Lapse(h)
        BY <3>1 DEF Start, Cancel, ReportResource, Lapse
      <3>3. \A c, w : /\ ~RecoverExpired(c, w)
                      /\ ~ClaimNothing(c, w)
                      /\ \A h : ~ClaimGame(c, w, h)
        <4>1. \A c, w : ~RecoverExpired(c, w)
          BY <3>1 DEF RecoverExpired
        <4>2. \A c, w : ~ClaimNothing(c, w)
          BY <3>1 DEF ClaimNothing
        <4>3. ASSUME NEW c, NEW w, NEW h PROVE ~ClaimGame(c, w, h)
          <5>1. ClaimGame(c, w, h) => UNCHANGED events
            BY DEF ClaimGame
          <5> QED BY <3>1, <5>1
        <4> QED BY <4>1, <4>2, <4>3
      <3>4. \A c : ~Rollback(c) /\ ~CommitResult(c)
        BY <3>1 DEF Rollback, CommitResult
      <3>5. /\ \A w, h, m : ~Heartbeat(w, h, m)
            /\ \A c, w, h, m, outcome, k : ~Result(c, w, h, m, outcome, k)
        BY <3>1 DEF Heartbeat, Result
      <3>6. Next
        BY <1>1, <3>1 DEF vars
      <3> QED BY <3>2, <3>3, <3>4, <3>5, <3>6 DEF Next
    <2>2. g = h /\ n = m
      BY <1>1, <2>1 DEF Events, LedgerInv, TypeOK
    <2>3. LeaseValid(w, g, n) /\ ~Locked(g)
      BY <2>1, <2>2 DEF Events
    <2> QED BY <1>1, <2>3 DEF LeaseValid, Locked, LedgerInv, AttemptLedger, LedgerOf
  <1>2. LedgerInv /\ [Next]_vars =>
          [\A g \in Game, n \in Attempts : events'[g][n] # events[g][n] =>
              /\ attempt[g][n].status = "leased"
              /\ ~game[g].lapsed
              /\ \A c \in Conn : g \notin tx[c].games]_vars
    BY <1>1
  <1> QED BY <1>2, LedgerAlways, PTL DEF Spec, ReplayFenced

\* Ending the lease of a game leaves its current attempt not leased.
LEMMA ClosedAttempt ==
    ASSUME TypeOK, NEW g \in Game, game[g].attempt_count > 0, NEW status, status # "leased"
    PROVE  CloseAttempt(g, status)[game[g].attempt_count].status # "leased"
  <1>1. game[g] \in GameRow
    BY RowType
  <1>2. game[g].attempt_count \in Attempts
    BY <1>1 DEF GameRow, Attempts
  <1>3. attempt[g][game[g].attempt_count] \in AttemptRow
    BY <1>2, RowType
  <1>4. [attempt[g][game[g].attempt_count] EXCEPT !.status = status].status = status
    BY <1>3 DEF AttemptRow
  <1> QED BY <1>2, <1>4 DEF CloseAttempt

LEMMA LapsedStep ==
    ASSUME LedgerInv, [Next]_vars, NEW g \in Game, game[g].lapsed, game'[g] # game[g]
    PROVE  attempt'[g][game[g].attempt_count].status # "leased"
  <1> USE DEF LedgerInv
  <1> DEFINE n == game[g].attempt_count
             Ended == attempt'[g][n].status # "leased"
  <1>a. game[g].status = "leased" /\ n > 0 /\ game[g] \in GameRow
    BY RowType DEF ScheduledTogether
  <1>b. ASSUME NEW c \in Conn, GamesAfter(c)[g] # game[g]
        PROVE  g \in tx[c].games /\ AttemptsAfter(c)[g][n].status # "leased"
    <2>1. g \in tx[c].games
      BY <1>b DEF GamesAfter
    <2>2. tx[c].outcome # "leased"
      BY RowType DEF Transaction
    <2> QED BY <1>a, <2>1, <2>2, ClosedAttempt DEF AttemptsAfter
  <1>1. ASSUME NEW t \in Tournament, Start(t) PROVE Ended
    BY <1>1, <1>a DEF Start, ScheduledTogether
  <1>2. ASSUME NEW t \in Tournament, Cancel(t) PROVE Ended
    BY <1>2, <1>a, ClosedAttempt DEF Cancel
  <1>3. ASSUME NEW w \in Worker, NEW s \in {"ready", "busy", "other"},
               NEW h \in Game \cup {None}, ReportResource(w, s, h)
        PROVE  Ended
    BY <1>3 DEF ReportResource
  <1>4. ASSUME NEW h \in Game, Lapse(h) PROVE Ended
    BY <1>4 DEF Lapse, TypeOK
  <1>5. ASSUME NEW c \in Conn, NEW w \in Worker, RecoverExpired(c, w) PROVE Ended
    BY <1>5 DEF RecoverExpired
  <1>6. ASSUME NEW c \in Conn, NEW w \in Worker, ClaimNothing(c, w) PROVE Ended
    BY <1>6, <1>b DEF ClaimNothing
  <1>7. ASSUME NEW c \in Conn, NEW w \in Worker, NEW h \in Game, ClaimGame(c, w, h)
        PROVE  Ended
    <2>1. GamesAfter(c)[g] # game[g]
      BY <1>7, <1>a, CommitType DEF ClaimGame, Candidates
    <2>2. AttemptsAfter(c) \in [Game -> [Attempts -> AttemptRow]]
      BY CommitType
    <2>3. attempt' = [AttemptsAfter(c) EXCEPT ![h][game[h].attempt_count + 1] =
                         [status |-> "leased", worker |-> w]]
      BY <1>7 DEF ClaimGame
    <2>4. attempt'[g][n] = AttemptsAfter(c)[g][n]
      <3>1. n \in Int /\ n # n + 1
        BY <1>a DEF GameRow
      <3>2. n \in Attempts
        BY <1>a DEF GameRow, Attempts
      <3>3. CASE h = g
        BY <2>2, <2>3, <3>1, <3>2, <3>3
      <3>4. CASE h # g
        BY <2>2, <2>3, <3>4
      <3> QED BY <3>3, <3>4
    <2> QED BY <1>b, <2>1, <2>4
  <1>8. ASSUME NEW c \in Conn, Rollback(c) PROVE Ended
    BY <1>8 DEF Rollback
  <1>9. ASSUME NEW c \in Conn, CommitResult(c) PROVE Ended
    BY <1>9, <1>b DEF CommitResult
  <1>10. ASSUME NEW w \in Worker, NEW h \in Game, NEW m \in Attempts, Heartbeat(w, h, m)
         PROVE  Ended
    BY <1>10 DEF Heartbeat, LeaseValid, TypeOK
  <1>11. ASSUME NEW w \in Worker, NEW h \in Game, NEW m \in Attempts,
                NEW first \in 1 .. MaxSeq, NEW last \in 1 .. MaxSeq,
                Events(w, h, m, first, last)
         PROVE  Ended
    BY <1>11 DEF Events, LeaseValid, TypeOK
  <1>12. ASSUME NEW w \in Worker, NEW h \in Game, NEW m \in Attempts, NEW c \in Conn,
                NEW outcome \in {"completed", "infra_failed"}, NEW k \in 0 .. MaxSeq,
                Result(c, w, h, m, outcome, k)
         PROVE  Ended
    BY <1>12 DEF Result
  <1>13. CASE UNCHANGED vars
    BY <1>13 DEF vars
  <1> QED BY <1>1, <1>2, <1>3, <1>4, <1>5, <1>6, <1>7, <1>8, <1>9, <1>10, <1>11, <1>12,
             <1>13 DEF Next

\* renew_lease is reached only under a deadline that has not passed, in the heartbeat
\* and in the events handler alike: a lapsed lease is ended and never revived.
THEOREM LapsedIsLost == Spec => LapsedLeaseEnds
  <1>1. LedgerInv /\ [Next]_vars =>
          [\A g \in Game : game[g].lapsed /\ game'[g] # game[g] =>
              attempt'[g][game[g].attempt_count].status # "leased"]_vars
    BY LapsedStep
  <1> QED BY <1>1, LedgerAlways, PTL DEF Spec, LapsedLeaseEnds

----------------------------------------------------------------------------
(* The count of refresh_tournament *)

\* A game locked by an open transaction keeps its status and its attempt count.
LEMMA LockedStep ==
    ASSUME LedgerInv, [Next]_vars, NEW d \in Conn, NEW g \in tx[d].games, tx'[d] = tx[d]
    PROVE  game'[g].status = game[g].status /\ game'[g].attempt_count = game[g].attempt_count
  <1> USE DEF LedgerInv
  <1> DEFINE Kept == /\ game'[g].status = game[g].status
                     /\ game'[g].attempt_count = game[g].attempt_count
  <1>a. g \in Game /\ game[g] \in GameRow /\ game[g].status = "leased" /\ Locked(g)
    BY RowType DEF Transaction, TxHoldsLeases, Locked
  <1>b. ASSUME NEW c \in Conn, tx'[c] = Idle PROVE GamesAfter(c)[g] = game[g]
    <2>1. c # d
      BY <1>b DEF Idle
    <2>2. g \notin tx[c].games
      BY <2>1 DEF TxHoldsLeases
    <2> QED BY <1>a, <2>2 DEF GamesAfter
  <1>c. \A c \in Conn : tx' = [tx EXCEPT ![c] = Idle] => tx'[c] = Idle
    BY DEF TypeOK
  <1>1. ASSUME NEW t \in Tournament, Start(t) PROVE Kept
    BY <1>1, <1>a DEF Start, ScheduledTogether
  <1>2. ASSUME NEW t \in Tournament, Cancel(t) PROVE Kept
    BY <1>2, <1>a DEF Cancel
  <1>3. ASSUME NEW w \in Worker, NEW s \in {"ready", "busy", "other"},
               NEW h \in Game \cup {None}, ReportResource(w, s, h)
        PROVE  Kept
    BY <1>3 DEF ReportResource
  <1>4. ASSUME NEW h \in Game, Lapse(h) PROVE Kept
    BY <1>4, <1>a DEF Lapse, TypeOK, GameRow
  <1>5. ASSUME NEW c \in Conn, NEW w \in Worker, RecoverExpired(c, w) PROVE Kept
    BY <1>5 DEF RecoverExpired
  <1>6. ASSUME NEW c \in Conn, NEW w \in Worker, ClaimNothing(c, w) PROVE Kept
    BY <1>6, <1>b, <1>c DEF ClaimNothing
  <1>7. ASSUME NEW c \in Conn, NEW w \in Worker, NEW h \in Game, ClaimGame(c, w, h)
        PROVE  Kept
    <2>1. GamesAfter(c)[g] = game[g]
      BY <1>7, <1>b, <1>c DEF ClaimGame
    <2>2. h # g
      BY <1>7, <1>a, <2>1 DEF ClaimGame, Candidates
    <2> QED BY <1>7, <1>a, <2>1, <2>2, CommitType DEF ClaimGame
  <1>8. ASSUME NEW c \in Conn, Rollback(c) PROVE Kept
    BY <1>8 DEF Rollback
  <1>9. ASSUME NEW c \in Conn, CommitResult(c) PROVE Kept
    BY <1>9, <1>b, <1>c DEF CommitResult
  <1>10. ASSUME NEW w \in Worker, NEW h \in Game, NEW m \in Attempts, Heartbeat(w, h, m)
         PROVE  Kept
    BY <1>10, <1>a DEF Heartbeat, Renewed, TypeOK, GameRow
  <1>11. ASSUME NEW w \in Worker, NEW h \in Game, NEW m \in Attempts,
                NEW first \in 1 .. MaxSeq, NEW last \in 1 .. MaxSeq,
                Events(w, h, m, first, last)
         PROVE  Kept
    BY <1>11, <1>a DEF Events, Advanced, Renewed, TypeOK, GameRow
  <1>12. ASSUME NEW w \in Worker, NEW h \in Game, NEW m \in Attempts, NEW c \in Conn,
                NEW outcome \in {"completed", "infra_failed"}, NEW k \in 0 .. MaxSeq,
                Result(c, w, h, m, outcome, k)
         PROVE  Kept
    BY <1>12 DEF Result
  <1>13. CASE UNCHANGED vars
    BY <1>13 DEF vars
  <1> QED BY <1>1, <1>2, <1>3, <1>4, <1>5, <1>6, <1>7, <1>8, <1>9, <1>10, <1>11, <1>12,
             <1>13 DEF Next

\* An empty count is an empty set of games.
LEMMA CountZero ==
    ASSUME NEW S, NEW outcome, NEW t \in Tournament
    PROVE  /\ CountGames(S, outcome)[t].outstanding = 0 =>
                 InStatus(S, outcome, t, Outstanding) = {}
           /\ CountGames(S, outcome)[t].failed = 0 =>
                 InStatus(S, outcome, t, {"failed"}) = {}
           /\ CountGames(S, outcome)[t].failed > 0 =>
                 InStatus(S, outcome, t, {"failed"}) # {}
           /\ CountGames(S, outcome)[t].done =
                 Cardinality(InStatus(S, outcome, t, {"done"}))
  <1>1. ASSUME NEW statuses
        PROVE  Cardinality(InStatus(S, outcome, t, statuses)) = 0
                   <=> InStatus(S, outcome, t, statuses) = {}
    <2>1. InStatus(S, outcome, t, statuses) \subseteq Game
      BY DEF InStatus, GamesOf
    <2> QED BY <2>1, FS_Subset, FS_EmptySet
  <1> QED BY <1>1 DEF CountGames

\* Every step leaves a transaction as it is, closes it, or opens it with a count of
\* the rows as they are.
LEMMA TransactionStep ==
    ASSUME TypeOK, [Next]_vars, NEW d \in Conn
    PROVE  \/ tx'[d] = tx[d]
           \/ tx'[d] = Idle
           \/ /\ game' = game
              /\ tx'[d].tally = CountGames(tx'[d].games, tx'[d].outcome)
  <1> DEFINE Kept == \/ tx'[d] = tx[d]
                     \/ tx'[d] = Idle
                     \/ /\ game' = game
                        /\ tx'[d].tally = CountGames(tx'[d].games, tx'[d].outcome)
  <1>1. ASSUME NEW t \in Tournament, Start(t) \/ Cancel(t) PROVE Kept
    BY <1>1 DEF Start, Cancel
  <1>2. ASSUME NEW w \in Worker, NEW s \in {"ready", "busy", "other"},
               NEW h \in Game \cup {None}, ReportResource(w, s, h)
        PROVE  Kept
    BY <1>2 DEF ReportResource
  <1>3. ASSUME NEW h \in Game, Lapse(h) PROVE Kept
    BY <1>3 DEF Lapse
  <1>4. ASSUME NEW c \in Conn, NEW w \in Worker, RecoverExpired(c, w) PROVE Kept
    BY <1>4 DEF RecoverExpired, TypeOK
  <1>5. ASSUME NEW c \in Conn, tx' = [tx EXCEPT ![c] = Idle] PROVE Kept
    BY <1>5 DEF TypeOK
  <1>6. ASSUME NEW w \in Worker, NEW h \in Game, NEW n \in Attempts, Heartbeat(w, h, n)
        PROVE  Kept
    BY <1>6 DEF Heartbeat
  <1>7. ASSUME NEW w \in Worker, NEW h \in Game, NEW n \in Attempts,
               NEW first \in 1 .. MaxSeq, NEW last \in 1 .. MaxSeq,
               Events(w, h, n, first, last)
        PROVE  Kept
    BY <1>7 DEF Events
  <1>8. ASSUME NEW w \in Worker, NEW h \in Game, NEW n \in Attempts, NEW c \in Conn,
               NEW outcome \in {"completed", "infra_failed"}, NEW k \in 0 .. MaxSeq,
               Result(c, w, h, n, outcome, k)
        PROVE  Kept
    BY <1>8 DEF Result, TypeOK
  <1>9. CASE UNCHANGED vars
    BY <1>9 DEF vars
  <1>10. ASSUME NEW c \in Conn, NEW w \in Worker, NEW h \in Game,
                ClaimNothing(c, w) \/ ClaimGame(c, w, h) \/ Rollback(c) \/ CommitResult(c)
         PROVE  Kept
    <2>1. tx' = [tx EXCEPT ![c] = Idle]
      BY <1>10 DEF ClaimNothing, ClaimGame, Rollback, CommitResult
    <2> QED BY <1>5, <2>1
  <1>11. ASSUME NEW c \in Conn, Rollback(c) \/ CommitResult(c) PROVE Kept
    BY <1>5, <1>11 DEF Rollback, CommitResult
  <1>12. ASSUME NEW c \in Conn, NEW w \in Worker, ClaimNothing(c, w) PROVE Kept
    BY <1>5, <1>12 DEF ClaimNothing
  <1> QED BY <1>1, <1>2, <1>3, <1>4, <1>6, <1>7, <1>8, <1>9, <1>10, <1>11, <1>12 DEF Next

\* While a transaction that found nothing to play is open, nothing it counted changes.
LEMMA TallyStays ==
    ASSUME LedgerInv, TallyTrue, [Next]_vars, NEW c \in Conn, NEW g \in tx[c].games,
           tx'[c] = tx[c], tx[c].tally[TournamentOf[g]].outstanding = 0
    PROVE  CountGames(tx[c].games, tx[c].outcome)'[TournamentOf[g]] =
               CountGames(tx[c].games, tx[c].outcome)[TournamentOf[g]]
  <1> USE DEF LedgerInv
  <1> DEFINE t == TournamentOf[g]
  <1>1. g \in Game /\ t \in Tournament /\ game[g].status = "leased"
    BY RowType DEF Transaction, TxHoldsLeases
  <1>2. InStatus(tx[c].games, tx[c].outcome, t, Outstanding) = {}
    BY <1>1, CountZero DEF TallyTrue
  <1>3. tournament[t].status # "unscheduled"
    BY <1>1 DEF ScheduledTogether
  <1>4. ASSUME NEW h \in GamesOf(t)
        PROVE  StatusAfter(tx[c].games, tx[c].outcome, h)' =
                   StatusAfter(tx[c].games, tx[c].outcome, h)
    <2>1. h \in Game /\ TournamentOf[h] = t /\ game[h] \in GameRow
      BY RowType DEF GamesOf
    <2>2. CASE h \in tx[c].games
      <3>1. game'[h].status = game[h].status /\ game'[h].attempt_count = game[h].attempt_count
        BY <2>2, LockedStep
      <3>2. game'[h] \in GameRow
        BY <2>1, NextType DEF TypeOK
      <3>3. AfterLostAttempt(h).status = IF Exhausted(h) THEN "failed" ELSE "queued"
        BY <2>1 DEF AfterLostAttempt, GameRow
      <3>4. AfterLostAttempt(h)'.status = IF Exhausted(h)' THEN "failed" ELSE "queued"
        BY <3>2 DEF AfterLostAttempt, GameRow
      <3>5. Exhausted(h)' = Exhausted(h)
        BY <3>1 DEF Exhausted
      <3>6. AfterCompleted(h, 0).status = "done" /\ AfterCompleted(h, 0)'.status = "done"
        BY <2>1, <3>2 DEF AfterCompleted, GameRow
      <3> QED BY <2>2, <3>3, <3>4, <3>5, <3>6 DEF StatusAfter, AfterLease
    <2>3. CASE h \notin tx[c].games
      <3>1. game[h].status \notin Outstanding
        BY <1>2, <2>3 DEF InStatus, StatusAfter
      <3>2. game[h].status # "unscheduled"
        BY <1>3, <2>1 DEF ScheduledTogether
      <3>3. game[h].status \in Final
        BY <2>1, <3>1, <3>2 DEF GameRow
      <3>4. game'[h] = game[h]
        BY <2>1, <3>3, FinishedStep
      <3> QED BY <2>3, <3>4 DEF StatusAfter
    <2> QED BY <2>2, <2>3
  <1>5. ASSUME NEW statuses
        PROVE  InStatus(tx[c].games, tx[c].outcome, t, statuses)' =
                   InStatus(tx[c].games, tx[c].outcome, t, statuses)
    BY <1>4 DEF InStatus, GamesOf
  <1> QED BY <1>1, <1>5 DEF CountGames

LEMMA NextTally == ASSUME LedgerInv, TallyTrue, [Next]_vars PROVE TallyTrue'
  <1> SUFFICES ASSUME NEW c \in Conn, NEW g \in tx'[c].games,
                      tx'[c].tally[TournamentOf[g]].outstanding = 0
               PROVE  tx'[c].tally[TournamentOf[g]] =
                          CountGames(tx[c].games, tx[c].outcome)'[TournamentOf[g]]
    BY DEF TallyTrue
  <1>1. CASE tx'[c] = tx[c]
    BY <1>1, TallyStays DEF TallyTrue
  <1>2. CASE tx'[c] = Idle
    BY <1>2 DEF Idle
  <1>3. CASE game' = game /\ tx'[c].tally = CountGames(tx'[c].games, tx'[c].outcome)
    BY <1>3 DEF CountGames, InStatus, StatusAfter, AfterLease, AfterCompleted,
                AfterLostAttempt, Exhausted
  <1> QED BY <1>1, <1>2, <1>3, TransactionStep DEF LedgerInv

----------------------------------------------------------------------------
(* The verdict on a tournament *)

\* The four invariants about finished and unfinished tournaments, of the row of
\* tournament t and the rows of its games.
VerdictOf(t, row, G) ==
    /\ \A g \in GamesOf(t) : G[g].status \in Outstanding => row.status = "active"
    /\ \A g \in GamesOf(t) : G[g].status = "cancelled" => row.status = "cancelled"
    /\ row.partial_reason =>
          row.status = "cancelled" \/ \E g \in GamesOf(t) : G[g].status = "failed"
    /\ row.status = "completed" => \A g \in GamesOf(t) : G[g].status = "done"
    /\ row.status = "partial" => \E g \in GamesOf(t) : G[g].status = "failed"
    /\ row.status \in {"completed", "partial"} =>
          row.completed_games = Cardinality({g \in GamesOf(t) : G[g].status = "done"})

Verdicts == \A t \in Tournament : VerdictOf(t, tournament[t], game)

LEMMA VerdictsAre ==
    Verdicts <=> NoGameLeftBehind /\ VerdictTrue /\ ReasonTrue /\ CancelledTogether
  <1>1. \A g \in Game : TournamentOf[g] \in Tournament /\ g \in GamesOf(TournamentOf[g])
    BY DEF GamesOf
  <1>2. \A t \in Tournament : \A g \in GamesOf(t) : g \in Game /\ TournamentOf[g] = t
    BY DEF GamesOf
  <1>3. NoGameLeftBehind <=>
          \A t \in Tournament : \A g \in GamesOf(t) :
              game[g].status \in Outstanding => tournament[t].status = "active"
    BY <1>1, <1>2 DEF NoGameLeftBehind
  <1>4. CancelledTogether <=>
          \A t \in Tournament : \A g \in GamesOf(t) :
              game[g].status = "cancelled" => tournament[t].status = "cancelled"
    BY <1>1, <1>2 DEF CancelledTogether
  <1>5. VerdictTrue <=>
          \A t \in Tournament :
             /\ tournament[t].status = "completed" => \A g \in GamesOf(t) : game[g].status = "done"
             /\ tournament[t].status = "partial" => \E g \in GamesOf(t) : game[g].status = "failed"
             /\ tournament[t].status \in {"completed", "partial"} =>
                   tournament[t].completed_games =
                       Cardinality({g \in GamesOf(t) : game[g].status = "done"})
    <2>1. ASSUME NEW t \in Tournament
          PROVE  {g \in GamesOf(t) : game[g].status = "done"} = GamesOf(t)
                     <=> \A g \in GamesOf(t) : game[g].status = "done"
      OBVIOUS
    <2>2. ASSUME NEW t \in Tournament
          PROVE  {g \in GamesOf(t) : game[g].status = "failed"} # {}
                     <=> \E g \in GamesOf(t) : game[g].status = "failed"
      OBVIOUS
    <2> QED BY <2>1, <2>2 DEF VerdictTrue
  <1> QED BY <1>3, <1>4, <1>5 DEF Verdicts, VerdictOf, ReasonTrue

\* A verdict looks at the status of the games only.
LEMMA SameVerdict ==
    ASSUME NEW t, NEW row, NEW G, NEW H, VerdictOf(t, row, H),
           \A g \in GamesOf(t) : G[g].status = H[g].status
    PROVE  VerdictOf(t, row, G)
  <1>1. {g \in GamesOf(t) : G[g].status = "done"} = {g \in GamesOf(t) : H[g].status = "done"}
    OBVIOUS
  <1> QED BY <1>1 DEF VerdictOf

\* What the commit of transaction c writes about the tournament t of its games.
LEMMA CommitVerdict ==
    ASSUME VerdictInv, NEW c \in Conn, NEW g \in tx[c].games, NEW t, t = TournamentOf[g]
    PROVE  VerdictOf(t, TournamentsAfter(c)[t], GamesAfter(c))
  <1> USE DEF VerdictInv, LedgerInv
  <1> DEFINE T == TournamentsAfter(c)
             G == GamesAfter(c)
             S == tx[c].games
             o == tx[c].outcome
             tally == tx[c].tally[t]
  <1>1. /\ tx[c] \in Transaction /\ S \subseteq Game /\ g \in Game /\ t \in Tournament
        /\ tournament[t] \in TournamentRow
    BY RowType DEF Transaction
  <1>2. tournament[t].status = "active"
    BY <1>1 DEF TxHoldsLeases, NoGameLeftBehind, Outstanding
  <1>3. T[t] = Refreshed(WithReason(c, t), tally)
    BY <1>1 DEF TournamentsAfter
  <1>4. WithReason(c, t) \in TournamentRow /\ WithReason(c, t).status = "active"
    BY <1>1, <1>2 DEF WithReason, TournamentRow
  <1>5. ASSUME NEW h \in GamesOf(t)
        PROVE  /\ h \in Game /\ game[h] \in GameRow /\ G[h] \in GameRow
               /\ G[h].status = StatusAfter(S, o, h)
               /\ G[h].status \notin {"unscheduled", "cancelled"}
    <2>1. h \in Game /\ TournamentOf[h] = t /\ game[h] \in GameRow /\ G[h] \in GameRow
      BY RowType, CommitType DEF GamesOf
    <2>2. \A k : AfterCompleted(h, k).status = "done"
      BY <2>1 DEF AfterCompleted, GameRow
    <2>3. G[h].status = StatusAfter(S, o, h)
      BY <2>1, <2>2 DEF GamesAfter, StatusAfter, AfterLease
    <2>4. G[h].status \notin {"unscheduled", "cancelled"}
      <3>1. CASE h \in S
        BY <2>1, <3>1, CommitEndsLeases
      <3>2. CASE h \notin S
        BY <1>2, <2>1, <3>2, CommitEndsLeases DEF ScheduledTogether, CancelledTogether
      <3> QED BY <3>1, <3>2
    <2> QED BY <2>1, <2>3, <2>4
  <1>6. T[t].partial_reason => \E h \in GamesOf(t) : G[h].status = "failed"
    <2> SUFFICES ASSUME T[t].partial_reason PROVE \E h \in GamesOf(t) : G[h].status = "failed"
      OBVIOUS
    <2>1. WithReason(c, t).partial_reason
      BY <1>3, <1>4 DEF Refreshed, TournamentRow
    <2>2. CASE t \in LockedTournaments(c)
      <3>1. PICK h \in S : TournamentOf[h] = t /\ Exhausted(h) /\ o \in {"expired", "infra_failed"}
        BY <2>2 DEF LockedTournaments
      <3>2. h \in GamesOf(t)
        BY <1>1, <3>1 DEF GamesOf
      <3>3. G[h].status = "failed"
        <4>1. G[h] = AfterLostAttempt(h)
          BY <1>5, <3>1, <3>2 DEF GamesAfter, AfterLease
        <4>2. game[h] \in GameRow
          BY <1>5, <3>2
        <4> QED BY <3>1, <4>1, <4>2 DEF AfterLostAttempt, GameRow
      <3> QED BY <3>2, <3>3
    <2>3. CASE t \notin LockedTournaments(c)
      <3>1. tournament[t].partial_reason
        BY <2>1, <2>3 DEF WithReason
      <3>2. PICK h \in GamesOf(t) : game[h].status = "failed"
        BY <1>1, <1>2, <3>1 DEF ReasonTrue
      <3>3. h \notin S
        BY <3>2 DEF TxHoldsLeases
      <3>4. G[h].status = "failed"
        BY <1>5, <3>2, <3>3, CommitEndsLeases
      <3> QED BY <3>4
    <2> QED BY <2>2, <2>3
  <1>7. CASE tally.outstanding # 0
    <2>1. T[t].status = "active"
      BY <1>3, <1>4, <1>7 DEF Refreshed, TournamentRow
    <2> QED BY <1>5, <1>6, <2>1 DEF VerdictOf
  <1>8. CASE tally.outstanding = 0
    <2>1. tally = CountGames(S, o)[t]
      BY <1>8 DEF TallyTrue
    <2>2. \A h \in GamesOf(t) : G[h].status \notin Outstanding
      <3>1. InStatus(S, o, t, Outstanding) = {}
        BY <1>1, <1>8, <2>1, CountZero
      <3> QED BY <1>5, <3>1 DEF InStatus
    <2>3. \A h \in GamesOf(t) : G[h].status \in {"done", "failed"}
      BY <1>5, <2>2 DEF GameRow, Outstanding, Final
    <2>4. tally.failed > 0 <=> \E h \in GamesOf(t) : G[h].status = "failed"
      <3>1. tally.failed = 0 \/ tally.failed > 0
        BY <1>1 DEF Transaction, Tally
      <3>2. tally.failed = 0 => ~(tally.failed > 0)
        OBVIOUS
      <3>3. InStatus(S, o, t, {"failed"}) = {h \in GamesOf(t) : G[h].status = "failed"}
        BY <1>5 DEF InStatus
      <3> QED BY <1>1, <2>1, <3>1, <3>2, <3>3, CountZero
    <2>5. tally.done = Cardinality({h \in GamesOf(t) : G[h].status = "done"})
      <3>1. InStatus(S, o, t, {"done"}) = {h \in GamesOf(t) : G[h].status = "done"}
        BY <1>5 DEF InStatus
      <3>2. CountGames(S, o)[t].done = Cardinality(InStatus(S, o, t, {"done"}))
        BY <1>1, CountZero
      <3> QED BY <2>1, <3>1, <3>2
    <2>6. T[t].completed_games = tally.done
      BY <1>3, <1>4 DEF Refreshed, TournamentRow
    <2>7. /\ T[t].status = "completed" => ~(tally.failed > 0)
          /\ T[t].status = "partial" => tally.failed > 0 \/ T[t].partial_reason
      BY <1>3, <1>4, <1>8 DEF Refreshed, TournamentRow
    <2> QED BY <1>5, <1>6, <2>2, <2>3, <2>4, <2>5, <2>6, <2>7 DEF VerdictOf
  <1> QED BY <1>7, <1>8

LEMMA CommitVerdicts ==
    ASSUME VerdictInv, NEW c \in Conn, NEW t \in Tournament
    PROVE  VerdictOf(t, TournamentsAfter(c)[t], GamesAfter(c))
  <1>1. CASE \E g \in tx[c].games : t = TournamentOf[g]
    BY <1>1, CommitVerdict
  <1>2. CASE ~\E g \in tx[c].games : t = TournamentOf[g]
    <2>1. TournamentsAfter(c)[t] = tournament[t]
      BY <1>2 DEF TournamentsAfter
    <2>2. \A g \in GamesOf(t) : GamesAfter(c)[g] = game[g]
      BY <1>2 DEF GamesAfter, GamesOf
    <2>3. VerdictOf(t, tournament[t], game)
      BY VerdictsAre DEF VerdictInv, Verdicts
    <2> QED BY <2>1, <2>2, <2>3, SameVerdict
  <1> QED BY <1>1, <1>2

LEMMA NextVerdicts == ASSUME VerdictInv, [Next]_vars PROVE Verdicts'
  <1> USE DEF VerdictInv, LedgerInv
  <1> USE RowType
  <1>a. \A t \in Tournament : VerdictOf(t, tournament[t], game)
    BY VerdictsAre DEF Verdicts
  <1>b. ASSUME tournament' = tournament,
               \A g \in Game : game'[g].status = game[g].status
        PROVE  Verdicts'
    <2>1. \A t \in Tournament : \A g \in GamesOf(t) : game'[g].status = game[g].status
      BY <1>b DEF GamesOf
    <2>2. \A t \in Tournament : VerdictOf(t, tournament[t], game')
      BY <1>a, <2>1, SameVerdict
    <2> QED BY <1>b, <2>2 DEF Verdicts, VerdictOf, GamesOf
  <1>c. ASSUME \A t \in Tournament : VerdictOf(t, tournament'[t], game') PROVE Verdicts'
    BY <1>c DEF Verdicts, VerdictOf, GamesOf
  <1>1. ASSUME NEW t \in Tournament, Start(t) PROVE Verdicts'
    <2> SUFFICES ASSUME NEW u \in Tournament PROVE VerdictOf(u, tournament'[u], game')
      BY <1>c
    <2>1. CASE u = t
      <3>1. tournament'[u] = [tournament[u] EXCEPT !.status = "active"]
        BY <1>1, <2>1 DEF Start, TypeOK
      <3>2. ASSUME NEW g \in GamesOf(u)
            PROVE  game'[g].status = "queued" /\ game[g].status = "unscheduled"
        <4>1. g \in Game /\ TournamentOf[g] = t
          BY <2>1 DEF GamesOf
        <4> QED BY <1>1, <4>1 DEF Start, GameRow, ScheduledTogether
      <3>3. tournament[u].status = "unscheduled" /\ ~tournament[u].partial_reason
        BY <1>1, <2>1, <3>2 DEF Start, ReasonTrue
      <3>4. tournament'[u].status = "active" /\ ~tournament'[u].partial_reason
        BY <3>1, <3>3 DEF TournamentRow
      <3> QED BY <3>2, <3>4 DEF VerdictOf
    <2>2. CASE u # t
      <3>1. tournament'[u] = tournament[u]
        BY <1>1, <2>2 DEF Start, TypeOK
      <3>2. \A g \in GamesOf(u) : game'[g] = game[g]
        BY <1>1, <2>2 DEF Start, GamesOf
      <3> QED BY <1>a, <3>1, <3>2, SameVerdict
    <2> QED BY <2>1, <2>2
  <1>2. ASSUME NEW t \in Tournament, Cancel(t) PROVE Verdicts'
    <2> SUFFICES ASSUME NEW u \in Tournament PROVE VerdictOf(u, tournament'[u], game')
      BY <1>c
    <2>1. CASE u = t /\ tournament[u].status = "active"
      <3>1. tournament'[u].status = "cancelled"
        BY <1>2, <2>1 DEF Cancel, TypeOK, TournamentRow
      <3>2. ASSUME NEW g \in GamesOf(u) PROVE game'[g].status \notin Outstanding
        <4>1. g \in Game /\ g \in GamesOf(t) /\ game[g] \in GameRow
          BY <2>1 DEF GamesOf
        <4> QED BY <1>2, <4>1 DEF Cancel, GameRow, Outstanding
      <3> QED BY <3>1, <3>2 DEF VerdictOf
    <2>2. CASE ~(u = t /\ tournament[u].status = "active")
      <3>1. tournament'[u] = tournament[u]
        BY <1>2, <2>2 DEF Cancel, TypeOK
      <3>2. ASSUME NEW g \in GamesOf(u) PROVE game'[g] = game[g]
        <4>1. g \in Game /\ TournamentOf[g] = u
          BY DEF GamesOf
        <4>2. g \in GamesOf(t) => game[g].status \notin Outstanding
          BY <2>2, <4>1 DEF NoGameLeftBehind, GamesOf
        <4> QED BY <1>2, <4>1, <4>2 DEF Cancel
      <3> QED BY <1>a, <3>1, <3>2, SameVerdict
    <2> QED BY <2>1, <2>2
  <1>3. ASSUME NEW w \in Worker, NEW s \in {"ready", "busy", "other"},
               NEW g \in Game \cup {None}, ReportResource(w, s, g)
        PROVE  Verdicts'
    BY <1>b, <1>3 DEF ReportResource
  <1>4. ASSUME NEW h \in Game, Lapse(h) PROVE Verdicts'
    BY <1>b, <1>4 DEF Lapse, TypeOK, GameRow
  <1>5. ASSUME NEW c \in Conn, NEW w \in Worker, RecoverExpired(c, w) PROVE Verdicts'
    BY <1>b, <1>5 DEF RecoverExpired
  <1>6. ASSUME NEW c \in Conn, NEW w \in Worker, ClaimNothing(c, w) PROVE Verdicts'
    BY <1>c, <1>6, CommitVerdicts DEF ClaimNothing
  <1>7. ASSUME NEW c \in Conn, NEW w \in Worker, NEW g \in Game, ClaimGame(c, w, g)
        PROVE  Verdicts'
    <2> SUFFICES ASSUME NEW u \in Tournament PROVE VerdictOf(u, tournament'[u], game')
      BY <1>c
    <2>1. tournament' = TournamentsAfter(c) /\ VerdictOf(u, tournament'[u], GamesAfter(c))
      BY <1>7, CommitVerdicts DEF ClaimGame
    <2>2. GamesAfter(c) \in [Game -> GameRow]
      BY CommitType
    <2>3. ASSUME NEW h \in Game, h # g PROVE game'[h] = GamesAfter(c)[h]
      BY <1>7, <2>2, <2>3 DEF ClaimGame
    <2>4. game'[g].status = "leased" /\ tournament'[TournamentOf[g]].status = "active"
      BY <1>7, <2>2 DEF ClaimGame, GameRow, Candidates
    <2>5. CASE u # TournamentOf[g]
      <3>1. \A h \in GamesOf(u) : game'[h] = GamesAfter(c)[h]
        BY <2>3, <2>5 DEF GamesOf
      <3> QED BY <2>1, <3>1, SameVerdict
    <2>6. CASE u = TournamentOf[g]
      <3>1. tournament'[u].partial_reason =>
              \E h \in GamesOf(u) : GamesAfter(c)[h].status = "failed"
        BY <2>1, <2>4, <2>6 DEF VerdictOf
      <3>2. GamesAfter(c)[g].status = "queued"
        BY <1>7 DEF ClaimGame, Candidates
      <3>3. \A h \in GamesOf(u) : GamesAfter(c)[h].status \in {"failed", "cancelled"} =>
               game'[h] = GamesAfter(c)[h]
        BY <2>3, <3>2 DEF GamesOf
      <3>4. \A h \in GamesOf(u) : game'[h].status # "cancelled"
        BY <2>1, <2>3, <2>4, <2>6 DEF VerdictOf, GamesOf
      <3> QED BY <2>4, <2>6, <3>1, <3>3, <3>4 DEF VerdictOf
    <2> QED BY <2>5, <2>6
  <1>8. ASSUME NEW c \in Conn, Rollback(c) PROVE Verdicts'
    BY <1>b, <1>8 DEF Rollback
  <1>9. ASSUME NEW c \in Conn, CommitResult(c) PROVE Verdicts'
    BY <1>c, <1>9, CommitVerdicts DEF CommitResult
  <1>10. ASSUME NEW w \in Worker, NEW h \in Game, NEW n \in Attempts, Heartbeat(w, h, n)
         PROVE  Verdicts'
    <2>1. ASSUME NEW g \in Game PROVE game'[g].status = game[g].status
      BY <1>10 DEF Heartbeat, Renewed, TypeOK, GameRow
    <2> QED BY <1>b, <1>10, <2>1 DEF Heartbeat
  <1>11. ASSUME NEW w \in Worker, NEW h \in Game, NEW n \in Attempts,
                NEW first \in 1 .. MaxSeq, NEW last \in 1 .. MaxSeq,
                Events(w, h, n, first, last)
         PROVE  Verdicts'
    <2>1. ASSUME NEW g \in Game PROVE game'[g].status = game[g].status
      BY <1>11 DEF Events, Advanced, Renewed, TypeOK, GameRow
    <2> QED BY <1>b, <1>11, <2>1 DEF Events
  <1>12. ASSUME NEW w \in Worker, NEW h \in Game, NEW n \in Attempts, NEW c \in Conn,
                NEW outcome \in {"completed", "infra_failed"}, NEW k \in 0 .. MaxSeq,
                Result(c, w, h, n, outcome, k)
         PROVE  Verdicts'
    BY <1>b, <1>12 DEF Result
  <1>13. CASE UNCHANGED vars
    BY <1>b, <1>13 DEF vars
  <1> QED BY <1>1, <1>2, <1>3, <1>4, <1>5, <1>6, <1>7, <1>8, <1>9, <1>10, <1>11, <1>12,
             <1>13 DEF Next

LEMMA VerdictInit == Init => VerdictInv
  <1> SUFFICES ASSUME Init PROVE VerdictInv
    OBVIOUS
  <1>1. LedgerInv
    BY LedgerInit
  <1>2. TallyTrue
    BY DEF Init, Idle, TallyTrue
  <1>3. \A g \in Game : game[g].status = "unscheduled"
    BY DEF Init
  <1>4. \A t \in Tournament : tournament[t].status = "unscheduled" /\ ~tournament[t].partial_reason
    BY DEF Init
  <1>5. Verdicts
    BY <1>3, <1>4 DEF Verdicts, VerdictOf, GamesOf, Outstanding
  <1> QED BY <1>1, <1>2, <1>5, VerdictsAre DEF VerdictInv

LEMMA VerdictStep == VerdictInv /\ [Next]_vars => VerdictInv'
  <1> SUFFICES ASSUME VerdictInv, [Next]_vars PROVE VerdictInv'
    OBVIOUS
  <1>1. LedgerInv' /\ TallyTrue'
    BY LedgerStep, NextTally DEF VerdictInv
  <1>2. Verdicts'
    BY NextVerdicts
  <1>3. (NoGameLeftBehind /\ VerdictTrue /\ ReasonTrue /\ CancelledTogether)'
    BY <1>2, VerdictsAre, PTL
  <1> QED BY <1>1, <1>3 DEF VerdictInv

LEMMA VerdictAlways == Spec => []VerdictInv
  BY VerdictInit, VerdictStep, PTL DEF Spec

\* refresh_tournament closes a tournament on a count it did not lock, and the verdict
\* it writes is true all the same, for any number of concurrent claims and results.
THEOREM VerdictCorrect == Spec => []VerdictTrue
  <1>1. VerdictInv => VerdictTrue
    BY DEF VerdictInv
  <1> QED BY <1>1, VerdictAlways, PTL

\* No order of results, recoveries, claims and cancels closes a tournament that still
\* has a game to play.
THEOREM NoneLeftBehind == Spec => []NoGameLeftBehind
  <1>1. VerdictInv => NoGameLeftBehind
    BY DEF VerdictInv
  <1> QED BY <1>1, VerdictAlways, PTL

----------------------------------------------------------------------------
(* The replay *)

\* What ReplayWhole and CursorAtEnd say of one game.
ReplayOf(g, row, stored) ==
    /\ \A n \in Attempts : \E k \in 0 .. MaxSeq : stored[n] = 1 .. k
    /\ row.status \in {"leased", "done"} => stored[row.attempt_count] = 1 .. row.action_count
    /\ \A n \in Attempts : n > row.attempt_count => stored[n] = {}
    /\ row.status \in {"unscheduled", "queued"} =>
          row.last_event_seq = 0 /\ row.action_count = 0
    /\ row.status = "leased" => row.action_count = row.last_event_seq

\* A result being written for g holds the cursor of g.
CursorHeld(g) ==
    \A c \in Conn : g \in tx[c].games /\ tx[c].outcome = "completed" =>
        tx[c].action_count = game[g].last_event_seq

LEMMA ReplayAre ==
    ReplayWhole /\ CursorAtEnd
        <=> \A g \in Game : ReplayOf(g, game[g], events[g]) /\ CursorHeld(g)
  BY DEF ReplayWhole, CursorAtEnd, ReplayOf, CursorHeld

\* The end of a lease neither loses nor invents an event.
LEMMA CommitReplay ==
    ASSUME ReplayInv, NEW c \in Conn, NEW g \in Game
    PROVE  ReplayOf(g, GamesAfter(c)[g], events[g])
  <1> USE DEF ReplayInv, LedgerInv
  <1>1. ReplayOf(g, game[g], events[g]) /\ CursorHeld(g) /\ game[g] \in GameRow
    BY ReplayAre, RowType
  <1>2. CASE g \notin tx[c].games
    BY <1>1, <1>2 DEF GamesAfter
  <1>3. CASE g \in tx[c].games /\ tx[c].outcome = "completed"
    <2>1. GamesAfter(c)[g] = AfterCompleted(g, tx[c].action_count)
      BY <1>3 DEF GamesAfter, AfterLease
    <2>2. game[g].status = "leased" /\ tx[c].action_count = game[g].action_count
      BY <1>1, <1>3 DEF TxHoldsLeases, CursorHeld, ReplayOf
    <2>3. /\ AfterCompleted(g, tx[c].action_count).status = "done"
          /\ AfterCompleted(g, tx[c].action_count).attempt_count = game[g].attempt_count
          /\ AfterCompleted(g, tx[c].action_count).action_count = tx[c].action_count
      BY <1>1 DEF AfterCompleted, GameRow
    <2> QED BY <1>1, <2>1, <2>2, <2>3 DEF ReplayOf
  <1>4. CASE g \in tx[c].games /\ tx[c].outcome # "completed"
    <2>1. GamesAfter(c)[g] = AfterLostAttempt(g)
      BY <1>4 DEF GamesAfter, AfterLease
    <2>2. /\ AfterLostAttempt(g).attempt_count = game[g].attempt_count
          /\ \/ AfterLostAttempt(g).status = "failed"
             \/ /\ AfterLostAttempt(g).status = "queued"
                /\ AfterLostAttempt(g).last_event_seq = 0
                /\ AfterLostAttempt(g).action_count = 0
      BY <1>1 DEF AfterLostAttempt, GameRow
    <2> QED BY <1>1, <2>1, <2>2 DEF ReplayOf
  <1> QED BY <1>2, <1>3, <1>4

\* A step that closes no result for g and leaves its cursor alone, or closes the
\* transaction that holds g.
LEMMA CursorStep ==
    ASSUME LedgerInv, NEW g \in Game, CursorHeld(g),
           \A c \in Conn : tx'[c] = tx[c] \/ tx'[c] = Idle,
           \A c \in Conn : g \in tx[c].games /\ tx'[c] = tx[c] =>
               game'[g].last_event_seq = game[g].last_event_seq
    PROVE  CursorHeld(g)'
  BY DEF CursorHeld, Idle

LEMMA NextReplay == ASSUME ReplayInv, [Next]_vars PROVE (ReplayWhole /\ CursorAtEnd)'
  <1> USE DEF ReplayInv, LedgerInv
  <1> USE RowType
  <1>a. \A g \in Game : ReplayOf(g, game[g], events[g]) /\ CursorHeld(g)
    BY ReplayAre
  <1>b. ASSUME \A g \in Game : ReplayOf(g, game'[g], events'[g]) /\ CursorHeld(g)'
        PROVE  (ReplayWhole /\ CursorAtEnd)'
    BY <1>b DEF ReplayWhole, CursorAtEnd, ReplayOf, CursorHeld
  <1> SUFFICES ASSUME NEW g \in Game
               PROVE  ReplayOf(g, game'[g], events'[g]) /\ CursorHeld(g)'
    BY <1>b
  <1> DEFINE Kept == ReplayOf(g, game'[g], events'[g]) /\ CursorHeld(g)'
  <1>c. game[g] \in GameRow /\ ReplayOf(g, game[g], events[g]) /\ CursorHeld(g)
    BY <1>a
  <1>d. ASSUME events' = events, tx' = tx, game'[g].attempt_count = game[g].attempt_count,
               game'[g].last_event_seq = game[g].last_event_seq,
               game'[g].action_count = game[g].action_count,
               \/ game'[g].status = game[g].status
               \/ game'[g].status = "cancelled"
               \/ game'[g].status = "queued" /\ game[g].status = "unscheduled"
        PROVE  Kept
    <2>1. CursorHeld(g)'
      BY <1>c, <1>d, CursorStep
    <2>2. ReplayOf(g, game'[g], events'[g])
      BY <1>c, <1>d DEF ReplayOf
    <2> QED BY <2>1, <2>2
  <1>e. ASSUME NEW c \in Conn, tx' = [tx EXCEPT ![c] = Idle],
               g \notin tx[c].games => game'[g].last_event_seq = game[g].last_event_seq
                                       \/ game[g].status # "leased"
        PROVE  CursorHeld(g)'
    <2>1. \A d \in Conn : tx'[d] = tx[d] \/ tx'[d] = Idle
      BY <1>e DEF TypeOK
    <2>2. ASSUME NEW d \in Conn, g \in tx[d].games, tx'[d] = tx[d]
          PROVE  game'[g].last_event_seq = game[g].last_event_seq
      <3>1. d # c
        BY <1>e, <2>2 DEF TypeOK, Idle
      <3>2. g \notin tx[c].games /\ game[g].status = "leased"
        BY <2>2, <3>1 DEF TxHoldsLeases
      <3> QED BY <1>e, <3>2
    <2> QED BY <1>c, <2>1, <2>2, CursorStep
  <1>f. \A c \in Conn : g \notin tx[c].games => GamesAfter(c)[g] = game[g]
    BY DEF GamesAfter
  <1>1. ASSUME NEW t \in Tournament, Start(t) PROVE Kept
    <2>1. TournamentOf[g] = t => game[g].status = "unscheduled"
      BY <1>1 DEF Start, ScheduledTogether
    <2> QED BY <1>1, <1>c, <1>d, <2>1 DEF Start, GameRow
  <1>2. ASSUME NEW t \in Tournament, Cancel(t) PROVE Kept
    BY <1>2, <1>c, <1>d DEF Cancel, GameRow
  <1>3. ASSUME NEW w \in Worker, NEW s \in {"ready", "busy", "other"},
               NEW h \in Game \cup {None}, ReportResource(w, s, h)
        PROVE  Kept
    BY <1>3, <1>d DEF ReportResource
  <1>4. ASSUME NEW h \in Game, Lapse(h) PROVE Kept
    BY <1>4, <1>c, <1>d DEF Lapse, TypeOK, GameRow
  <1>5. ASSUME NEW c \in Conn, NEW w \in Worker, RecoverExpired(c, w) PROVE Kept
    <2>1. \A d \in Conn : tx'[d] = tx[d] \/ tx'[d].outcome = "expired"
      BY <1>5 DEF RecoverExpired, TypeOK
    <2>2. CursorHeld(g)'
      BY <1>5, <1>c, <2>1 DEF RecoverExpired, CursorHeld
    <2> QED BY <1>5, <1>c, <2>2 DEF RecoverExpired
  <1>6. ASSUME NEW c \in Conn, NEW w \in Worker, ClaimNothing(c, w) PROVE Kept
    BY <1>6, <1>e, <1>f, CommitReplay DEF ClaimNothing
  <1>7. ASSUME NEW c \in Conn, NEW w \in Worker, NEW h \in Game, ClaimGame(c, w, h)
        PROVE  Kept
    <2>1. GamesAfter(c) \in [Game -> GameRow] /\ ReplayOf(g, GamesAfter(c)[g], events[g])
      BY CommitType, CommitReplay
    <2>2. CASE g # h
      <3>1. game'[g] = GamesAfter(c)[g]
        BY <1>7, <2>1, <2>2 DEF ClaimGame
      <3> QED BY <1>7, <1>e, <1>f, <2>1, <3>1 DEF ClaimGame
    <2>3. CASE g = h
      <3>1. /\ GamesAfter(c)[g].status = "queued"
            /\ GamesAfter(c)[g].attempt_count = game[g].attempt_count
            /\ game[g].attempt_count < MaxAttempts
        BY <1>7, <2>3, CommitEndsLeases DEF ClaimGame, Candidates
      <3>2. /\ game'[g].status = "leased"
            /\ game'[g].attempt_count = game[g].attempt_count + 1
            /\ game'[g].last_event_seq = GamesAfter(c)[g].last_event_seq
            /\ game'[g].action_count = GamesAfter(c)[g].action_count
        BY <1>7, <2>1, <2>3 DEF ClaimGame, GameRow
      <3>3. game[g].attempt_count + 1 \in Attempts
        BY <1>c, <3>1 DEF GameRow, Attempts
      <3>4. events[g][game[g].attempt_count + 1] = 1 .. 0
        <4>1. game[g].attempt_count \in Int
          BY <1>c DEF GameRow
        <4>2. game[g].attempt_count + 1 > game[g].attempt_count
          BY <4>1
        <4>3. events[g][game[g].attempt_count + 1] = {}
          BY <1>c, <3>3, <4>2 DEF ReplayOf
        <4>4. 1 .. 0 = {}
          OBVIOUS
        <4> QED BY <4>3, <4>4
      <3>5. ReplayOf(g, game'[g], events[g])
        <4>1. game'[g].last_event_seq = 0 /\ game'[g].action_count = 0
          BY <2>1, <3>1, <3>2 DEF ReplayOf
        <4>2. \A n \in Attempts : n > game[g].attempt_count + 1 => n > game[g].attempt_count
          BY <1>c DEF GameRow, Attempts
        <4>3. \A n \in Attempts : n > game[g].attempt_count + 1 => events[g][n] = {}
          BY <1>c, <4>2 DEF ReplayOf
        <4> QED BY <1>c, <3>2, <3>4, <4>1, <4>3 DEF ReplayOf
      <3>6. g \notin tx[c].games => game[g].status # "leased"
        BY <1>f, <3>1
      <3> QED BY <1>7, <1>e, <3>5, <3>6 DEF ClaimGame
    <2> QED BY <2>2, <2>3
  <1>8. ASSUME NEW c \in Conn, Rollback(c) PROVE Kept
    BY <1>8, <1>c, <1>e DEF Rollback
  <1>9. ASSUME NEW c \in Conn, CommitResult(c) PROVE Kept
    BY <1>9, <1>e, <1>f, CommitReplay DEF CommitResult
  <1>10. ASSUME NEW w \in Worker, NEW h \in Game, NEW n \in Attempts, Heartbeat(w, h, n)
         PROVE  Kept
    BY <1>10, <1>c, <1>d DEF Heartbeat, Renewed, TypeOK, GameRow
  <1>11. ASSUME NEW w \in Worker, NEW h \in Game, NEW n \in Attempts,
                NEW first \in 1 .. MaxSeq, NEW last \in 1 .. MaxSeq,
                first <= last, Events(w, h, n, first, last)
         PROVE  Kept
    <2>1. CASE g # h
      <3>1. game'[g] = game[g] /\ events'[g] = events[g] /\ tx' = tx
        BY <1>11, <2>1 DEF Events, TypeOK
      <3>2. CursorHeld(g)'
        BY <1>c, <3>1, CursorStep
      <3> QED BY <1>c, <3>1, <3>2
    <2>2. CASE g = h
      <3>1. /\ game[g].status = "leased" /\ game[g].attempt_count = n
            /\ \A c \in Conn : g \notin tx[c].games
            /\ tx' = tx
            /\ first <= game[g].last_event_seq + 1
        BY <1>11, <2>2 DEF Events, LeaseValid, Locked, FollowsCursor
      <3>2. CursorHeld(g)'
        BY <3>1 DEF CursorHeld
      <3> DEFINE a == game[g].last_event_seq
                 b == IF a >= last THEN a ELSE last
      <3>3. a \in 0 .. MaxSeq /\ game[g].action_count = a /\ b \in 0 .. MaxSeq
        BY <1>c, <3>1 DEF ReplayOf, GameRow
      <3>4. /\ game'[g].status = "leased" /\ game'[g].attempt_count = n
            /\ game'[g].last_event_seq = b /\ game'[g].action_count = b
        <4>1. game'[g] = Advanced(game[g], last)
          BY <1>11, <2>2 DEF Events, TypeOK
        <4> QED BY <1>c, <3>1, <3>3, <4>1 DEF Advanced, Renewed, Greatest, GameRow
      <3>5. events'[g][n] = events[g][n] \cup (first .. last)
        BY <1>11, <2>2 DEF Events, TypeOK
      <3>6. \A m \in Attempts : m # n => events'[g][m] = events[g][m]
        BY <1>11, <2>2 DEF Events, TypeOK
      <3>7. events[g][n] = 1 .. a
        BY <1>c, <3>1, <3>3 DEF ReplayOf
      <3>8. (1 .. a) \cup (first .. last) = 1 .. b
        BY <1>11, <3>1, <3>3
      <3>9. events'[g][n] = 1 .. b
        BY <3>5, <3>7, <3>8
      <3>10. \A m \in Attempts : \E k \in 0 .. MaxSeq : events'[g][m] = 1 .. k
        BY <1>c, <3>3, <3>6, <3>9 DEF ReplayOf
      <3>11. \A m \in Attempts : m > n => events'[g][m] = {}
        BY <1>c, <3>1, <3>6 DEF ReplayOf, Attempts
      <3> HIDE DEF a, b
      <3>12. ReplayOf(g, game'[g], events'[g])
        BY <3>4, <3>9, <3>10, <3>11 DEF ReplayOf
      <3> QED BY <3>2, <3>12
    <2> QED BY <2>1, <2>2
  <1>12. ASSUME NEW w \in Worker, NEW h \in Game, NEW n \in Attempts, NEW c \in Conn,
                NEW outcome \in {"completed", "infra_failed"}, NEW k \in 0 .. MaxSeq,
                Result(c, w, h, n, outcome, k)
         PROVE  Kept
    <2>1. \A d \in Conn : d # c => tx'[d] = tx[d]
      BY <1>12 DEF Result, TypeOK
    <2>2. /\ tx'[c].games = {h} /\ tx'[c].outcome = outcome /\ tx'[c].action_count = k
          /\ game' = game
      BY <1>12 DEF Result, TypeOK
    <2>3. outcome = "completed" => k = game[h].last_event_seq
      BY <1>12 DEF Result, ResultMatches
    <2>4. CursorHeld(g)'
      BY <1>c, <2>1, <2>2, <2>3 DEF CursorHeld
    <2> QED BY <1>12, <1>c, <2>2, <2>4 DEF Result
  <1>13. CASE UNCHANGED vars
    BY <1>13, <1>c, <1>d DEF vars
  <1> QED BY <1>1, <1>2, <1>3, <1>4, <1>5, <1>6, <1>7, <1>8, <1>9, <1>10, <1>11, <1>12,
             <1>13 DEF Next

LEMMA ReplayAlways == Spec => []ReplayInv
  <1>1. Init => ReplayInv
    <2> SUFFICES ASSUME Init PROVE ReplayInv
      OBVIOUS
    <2>1. ASSUME NEW g \in Game PROVE ReplayOf(g, game[g], events[g]) /\ CursorHeld(g)
      <3>1. \A n \in Attempts : events[g][n] = 1 .. 0
        BY DEF Init
      <3>2. 0 \in 0 .. MaxSeq
        OBVIOUS
      <3> QED BY <3>1, <3>2 DEF Init, Idle, ReplayOf, CursorHeld
    <2> QED BY <2>1, LedgerInit, ReplayAre DEF ReplayInv
  <1>2. ReplayInv /\ [Next]_vars => ReplayInv'
    BY LedgerStep, NextReplay DEF ReplayInv
  <1> QED BY <1>1, <1>2, PTL DEF Spec

\* Whatever batches are repeated, delayed or sent by earlier attempts, the events
\* handler stores a replay without a gap, and a completed result finds it whole.
THEOREM ReplayCorrect == Spec => []ReplayWhole
  <1>1. ReplayInv => ReplayWhole
    BY DEF ReplayInv
  <1> QED BY <1>1, ReplayAlways, PTL

----------------------------------------------------------------------------
(* The tournament queue is a queue of leased jobs *)

\* A step of the job of one game.
JobMoves(a, b) == b = a \/ Jobs!Step(a, b)

LEMMA SameJob ==
    ASSUME NEW a \in GameRow, NEW b, b.status = a.status, b.attempt_count = a.attempt_count
    PROVE  JobMoves(JobOf(a), JobOf(b))
  BY DEF JobMoves, JobOf

\* The end of a lease releases the job or finishes it.
LEMMA LeaseEndJob ==
    ASSUME TypeOK, NEW g \in Game, game[g].status = "leased", NEW outcome, NEW k
    PROVE  LET row == AfterLease(g, outcome, k) IN
           /\ JobMoves(JobOf(game[g]), JobOf(row))
           /\ row.attempt_count = game[g].attempt_count
           /\ row.status \in {"queued", "failed", "done"}
           /\ row.status = "queued" => game[g].attempt_count < MaxAttempts
  <1> SUFFICES ASSUME NEW row, row = AfterLease(g, outcome, k)
               PROVE  /\ JobMoves(JobOf(game[g]), JobOf(row))
                      /\ row.attempt_count = game[g].attempt_count
                      /\ row.status \in {"queued", "failed", "done"}
                      /\ row.status = "queued" => game[g].attempt_count < MaxAttempts
    OBVIOUS
  <1>1. game[g] \in GameRow /\ game[g].attempt_count \in 0 .. MaxAttempts
    BY DEF TypeOK, GameRow
  <1>2. /\ row.attempt_count = game[g].attempt_count
        /\ \/ row.status = "done"
           \/ row.status = "failed"
           \/ row.status = "queued" /\ game[g].attempt_count < MaxAttempts
    BY <1>1 DEF AfterLease, AfterCompleted, AfterLostAttempt, Exhausted, GameRow
  <1>3. CASE row.status \in {"done", "failed"}
    <2>1. Jobs!Finish(JobOf(game[g]), JobOf(row))
      BY <1>2, <1>3 DEF JobOf, Jobs!Finish, Jobs!EndedBy
    <2> QED BY <1>2, <1>3, <2>1 DEF JobMoves, Jobs!Step
  <1>4. CASE row.status = "queued" /\ game[g].attempt_count < MaxAttempts
    <2>1. Jobs!Release(JobOf(game[g]), JobOf(row))
      BY <1>2, <1>4 DEF JobOf, Jobs!Release, Jobs!Waiting
    <2> QED BY <1>2, <1>4, <2>1 DEF JobMoves, Jobs!Step
  <1> QED BY <1>2, <1>3, <1>4

\* What a transaction commits moves each job by a step at most.
LEMMA CommitJob ==
    ASSUME LedgerInv, NEW c \in Conn, NEW g \in Game
    PROVE  JobMoves(JobOf(game[g]), JobOf(GamesAfter(c)[g]))
  <1>1. CASE g \in tx[c].games
    <2>1. game[g].status = "leased"
      BY <1>1 DEF LedgerInv, TxHoldsLeases
    <2> QED BY <1>1, <2>1, LeaseEndJob DEF LedgerInv, GamesAfter
  <1>2. CASE g \notin tx[c].games
    BY <1>2 DEF GamesAfter, JobMoves
  <1> QED BY <1>1, <1>2

\* A claim hands out a game that waits, or one that its recovery has just released.
LEMMA ClaimJob ==
    ASSUME LedgerInv, NEW c \in Conn, NEW w \in Worker, NEW h \in Game, ClaimGame(c, w, h)
    PROVE  JobMoves(JobOf(game[h]), JobOf(game'[h]))
  <1> USE DEF LedgerInv
  <1>1. GamesAfter(c)[h].status = "queued" /\ GamesAfter(c)[h].attempt_count < MaxAttempts
    BY DEF ClaimGame, Candidates
  <1>2. /\ game'[h].status = "leased"
        /\ game'[h].attempt_count = game[h].attempt_count + 1
    BY CommitType DEF ClaimGame, GameRow
  <1>3. game[h].status \in {"queued", "leased"} /\ game[h].attempt_count < MaxAttempts
    <2>1. CASE h \in tx[c].games
      <3>1. game[h].status = "leased"
        BY <2>1 DEF TxHoldsLeases
      <3>2. GamesAfter(c)[h] = AfterLease(h, tx[c].outcome, tx[c].action_count)
        BY <2>1 DEF GamesAfter
      <3> QED BY <1>1, <3>1, <3>2, LeaseEndJob
    <2>2. CASE h \notin tx[c].games
      BY <1>1, <2>2 DEF GamesAfter
    <2> QED BY <2>1, <2>2
  <1>4. Jobs!Take(JobOf(game[h]), JobOf(game'[h]))
    BY <1>2, <1>3 DEF JobOf, Jobs!Take, Jobs!Held
  <1> QED BY <1>4 DEF JobMoves, Jobs!Step

LEMMA GameJob ==
    ASSUME LedgerInv, [Next]_vars, NEW g \in Game
    PROVE  JobMoves(JobOf(game[g]), JobOf(game'[g]))
  <1> USE DEF LedgerInv
  <1> DEFINE Moves == JobMoves(JobOf(game[g]), JobOf(game'[g]))
  <1>a. game[g] \in GameRow /\ game \in [Game -> GameRow]
    BY DEF TypeOK
  <1>b. game'[g] = game[g] => Moves
    BY DEF JobMoves
  <1>1. ASSUME NEW t \in Tournament, Start(t) PROVE Moves
    <2>1. CASE TournamentOf[g] = t
      <3>1. game[g].status = "unscheduled" /\ game[g].attempt_count = 0
        BY <1>1, <2>1 DEF Start, ScheduledTogether
      <3>2. game'[g].status = "queued" /\ game'[g].attempt_count = 0
        BY <1>1, <1>a, <2>1, <3>1 DEF Start, GameRow
      <3>3. Jobs!Enter(JobOf(game[g]), JobOf(game'[g]))
        BY <3>1, <3>2 DEF JobOf, Jobs!Enter, Jobs!NewJob, Jobs!Waiting
      <3> QED BY <3>3 DEF JobMoves, Jobs!Step
    <2>2. CASE TournamentOf[g] # t
      BY <1>1, <1>b, <2>2 DEF Start
    <2> QED BY <2>1, <2>2
  <1>2. ASSUME NEW t \in Tournament, Cancel(t) PROVE Moves
    <2>1. CASE g \in GamesOf(t) /\ game[g].status \in Outstanding
      <3>1. /\ game'[g].status = "cancelled"
            /\ game'[g].attempt_count = game[g].attempt_count
        BY <1>2, <1>a, <2>1 DEF Cancel, GameRow
      <3>2. Jobs!Finish(JobOf(game[g]), JobOf(game'[g]))
        BY <2>1, <3>1 DEF JobOf, Jobs!Finish, Jobs!EndedBy, Outstanding
      <3> QED BY <3>2 DEF JobMoves, Jobs!Step
    <2>2. CASE ~(g \in GamesOf(t) /\ game[g].status \in Outstanding)
      BY <1>2, <1>b, <2>2 DEF Cancel
    <2> QED BY <2>1, <2>2
  <1>3. ASSUME NEW w \in Worker, NEW s \in {"ready", "busy", "other"},
               NEW h \in Game \cup {None}, ReportResource(w, s, h)
        PROVE  Moves
    BY <1>3, <1>b DEF ReportResource
  <1>4. ASSUME NEW h \in Game, Lapse(h) PROVE Moves
    <2>1. game'[g].status = game[g].status /\ game'[g].attempt_count = game[g].attempt_count
      BY <1>4, <1>a DEF Lapse, GameRow
    <2> QED BY <1>a, <2>1, SameJob
  <1>5. ASSUME NEW c \in Conn, NEW w \in Worker, RecoverExpired(c, w) PROVE Moves
    BY <1>5, <1>b DEF RecoverExpired
  <1>6. ASSUME NEW c \in Conn, NEW w \in Worker, ClaimNothing(c, w) PROVE Moves
    BY <1>6, CommitJob DEF ClaimNothing
  <1>7. ASSUME NEW c \in Conn, NEW w \in Worker, NEW h \in Game, ClaimGame(c, w, h)
        PROVE  Moves
    <2>1. CASE h = g
      BY <1>7, <2>1, ClaimJob
    <2>2. CASE h # g
      <3>1. game'[g] = GamesAfter(c)[g]
        BY <1>7, <2>2, CommitType DEF ClaimGame
      <3> QED BY <3>1, CommitJob
    <2> QED BY <2>1, <2>2
  <1>8. ASSUME NEW c \in Conn, Rollback(c) PROVE Moves
    BY <1>8, <1>b DEF Rollback
  <1>9. ASSUME NEW c \in Conn, CommitResult(c) PROVE Moves
    BY <1>9, CommitJob DEF CommitResult
  <1>10. ASSUME NEW w \in Worker, NEW h \in Game, NEW n \in Attempts, Heartbeat(w, h, n)
         PROVE  Moves
    <2>1. game'[g].status = game[g].status /\ game'[g].attempt_count = game[g].attempt_count
      BY <1>10, <1>a DEF Heartbeat, Renewed, GameRow
    <2> QED BY <1>a, <2>1, SameJob
  <1>11. ASSUME NEW w \in Worker, NEW h \in Game, NEW n \in Attempts,
                NEW first \in 1 .. MaxSeq, NEW last \in 1 .. MaxSeq,
                Events(w, h, n, first, last)
         PROVE  Moves
    <2>1. game'[g].status = game[g].status /\ game'[g].attempt_count = game[g].attempt_count
      BY <1>11, <1>a DEF Events, Advanced, Renewed, GameRow
    <2> QED BY <1>a, <2>1, SameJob
  <1>12. ASSUME NEW w \in Worker, NEW h \in Game, NEW n \in Attempts, NEW c \in Conn,
                NEW outcome \in {"completed", "infra_failed"}, NEW k \in 0 .. MaxSeq,
                Result(c, w, h, n, outcome, k)
         PROVE  Moves
    BY <1>12, <1>b DEF Result
  <1>13. CASE UNCHANGED vars
    BY <1>13, <1>b DEF vars
  <1> QED BY <1>1, <1>2, <1>3, <1>4, <1>5, <1>6, <1>7, <1>8, <1>9, <1>10, <1>11, <1>12,
             <1>13 DEF Next

\* Every behaviour of the tournament queue is one of the abstract queue of leased jobs.
THEOREM RefinesLeasedJob == Spec => IsLeasedJob
  <1>1. Init => Jobs!Init
    <2> SUFFICES ASSUME Init PROVE jobs \in [Game -> {Jobs!NewJob, Jobs!Waiting(0)}]
      BY DEF Jobs!Init
    <2>1. ASSUME NEW g \in Game PROVE JobOf(game[g]) = Jobs!NewJob
      BY DEF Init, JobOf, Jobs!NewJob
    <2> QED BY <2>1 DEF jobs
  <1>2. LedgerInv /\ [Next]_vars => [Jobs!Next]_jobs
    <2> SUFFICES ASSUME LedgerInv, [Next]_vars PROVE Jobs!Next
      OBVIOUS
    <2>1. \A g \in Game : jobs[g] = JobOf(game[g]) /\ jobs'[g] = JobOf(game'[g])
      BY DEF jobs, JobOf
    <2> QED BY <2>1, GameJob DEF Jobs!Next, JobMoves
  <1> QED BY <1>1, <1>2, LedgerAlways, PTL DEF Spec, IsLeasedJob, Jobs!Spec

----------------------------------------------------------------------------
(* Each attempt at a game is a leased attempt *)

\* A step of one attempt.
AttemptMoves(a, b) == b = a \/ Attempting!Step(a, b)

\* The close of an attempt ends it if it is live, with the events it has.
LEMMA CloseMoves ==
    ASSUME TypeOK, NEW g \in Game, NEW n \in Attempts, NEW stored,
           NEW status \in {"expired", "infra_failed", "completed", "cancelled"}
    PROVE  AttemptMoves(AttemptOf(attempt[g][n], stored),
                        AttemptOf(CloseAttempt(g, status)[n], stored))
  <1>1. attempt[g][n] \in AttemptRow
    BY RowType
  <1>2. CASE CloseAttempt(g, status)[n] = attempt[g][n]
    BY <1>2 DEF AttemptMoves
  <1>3. CASE CloseAttempt(g, status)[n] # attempt[g][n]
    <2>1. /\ attempt[g][n].status = "leased"
          /\ CloseAttempt(g, status)[n] = [attempt[g][n] EXCEPT !.status = status]
      BY <1>3 DEF CloseAttempt
    <2>2. CloseAttempt(g, status)[n].status = status
      BY <1>1, <2>1 DEF AttemptRow
    <2>3. Attempting!Finish(AttemptOf(attempt[g][n], stored),
                            AttemptOf(CloseAttempt(g, status)[n], stored))
      BY <2>1, <2>2 DEF AttemptOf, Attempting!Finish, Attempting!Completed, Attempting!Lost
    <2> QED BY <2>3 DEF AttemptMoves, Attempting!Step
  <1> QED BY <1>2, <1>3

\* What a transaction commits ends the attempts whose leases it holds.
LEMMA CommitMoves ==
    ASSUME LedgerInv, NEW c \in Conn, NEW g \in Game, NEW n \in Attempts, NEW stored
    PROVE  AttemptMoves(AttemptOf(attempt[g][n], stored),
                        AttemptOf(AttemptsAfter(c)[g][n], stored))
  <1> USE DEF LedgerInv
  <1>1. CASE g \in tx[c].games
    <2>1. tx[c].outcome \in {"expired", "infra_failed", "completed"}
      <3>1. tx[c].kind \in {"idle", "claim", "result"}
        BY RowType DEF Transaction
      <3> QED BY <1>1, <3>1 DEF TxHoldsLeases
    <2> QED BY <1>1, <2>1, CloseMoves DEF AttemptsAfter
  <1>2. CASE g \notin tx[c].games
    BY <1>2 DEF AttemptsAfter, AttemptMoves
  <1> QED BY <1>1, <1>2

\* A claim opens an attempt that never was, without events.
LEMMA ClaimMoves ==
    ASSUME ReplayInv, NEW c \in Conn, NEW w \in Worker, NEW h \in Game, ClaimGame(c, w, h),
           NEW g \in Game, NEW n \in Attempts
    PROVE  AttemptMoves(AttemptOf(attempt[g][n], events[g][n]),
                        AttemptOf(attempt'[g][n], events'[g][n]))
  <1> USE DEF ReplayInv, LedgerInv
  <1>1. /\ attempt' = [AttemptsAfter(c) EXCEPT ![h][game[h].attempt_count + 1] =
                           [status |-> "leased", worker |-> w]]
        /\ events' = events
    BY DEF ClaimGame
  <1>2. AttemptsAfter(c) \in [Game -> [Attempts -> AttemptRow]]
    BY CommitType
  <1>3. CASE g = h /\ n = game[h].attempt_count + 1
    <2>1. game[h].attempt_count \in Int /\ n > game[h].attempt_count
      BY <1>3, RowType DEF GameRow
    <2>2. attempt[g][n].status = "none" /\ events[g][n] = {}
      BY <1>3, <2>1 DEF AttemptLedger, LedgerOf, CursorAtEnd
    <2>3. attempt'[g][n].status = "leased"
      BY <1>1, <1>2, <1>3
    <2>4. Cardinality({}) = 0
      BY FS_EmptySet
    <2>5. Attempting!Open(AttemptOf(attempt[g][n], events[g][n]),
                          AttemptOf(attempt'[g][n], events'[g][n]))
      BY <1>1, <2>2, <2>3, <2>4 DEF AttemptOf, Attempting!Open, Attempting!NotYet, Attempting!Live
    <2> QED BY <2>5 DEF AttemptMoves, Attempting!Step
  <1>4. CASE ~(g = h /\ n = game[h].attempt_count + 1)
    <2>1. attempt'[g][n] = AttemptsAfter(c)[g][n]
      BY <1>1, <1>2, <1>4
    <2> QED BY <1>1, <2>1, CommitMoves
  <1> QED BY <1>3, <1>4

\* A batch of events adds to the attempt under its lease, or repeats what it has.
LEMMA EventsMoves ==
    ASSUME ReplayInv, (ReplayWhole)', NEW w \in Worker, NEW h \in Game, NEW m \in Attempts,
           NEW first \in 1 .. MaxSeq, NEW last \in 1 .. MaxSeq, Events(w, h, m, first, last),
           NEW g \in Game, NEW n \in Attempts
    PROVE  AttemptMoves(AttemptOf(attempt[g][n], events[g][n]),
                        AttemptOf(attempt'[g][n], events'[g][n]))
  <1> USE DEF ReplayInv, LedgerInv
  <1>1. attempt' = attempt /\ events' = [events EXCEPT ![h][m] = @ \cup (first .. last)]
    BY DEF Events
  <1>2. CASE ~(g = h /\ n = m)
    <2>1. events'[g][n] = events[g][n]
      BY <1>1, <1>2 DEF TypeOK
    <2> QED BY <1>1, <2>1 DEF AttemptMoves
  <1>3. CASE g = h /\ n = m
    <2>1. attempt[g][n].status = "leased"
      BY <1>3 DEF Events, LeaseValid, AttemptLedger, LedgerOf
    <2>2. PICK k \in 0 .. MaxSeq : events[g][n] = 1 .. k
      BY DEF ReplayWhole
    <2>3. PICK j \in 0 .. MaxSeq : events'[g][n] = 1 .. j
      BY DEF ReplayWhole
    <2>4. (1 .. k) \subseteq (1 .. j)
      BY <1>1, <1>3, <2>2, <2>3 DEF TypeOK
    <2>5. k <= j
      BY <2>4
    <2>6. \A i \in 0 .. MaxSeq : Cardinality(1 .. i) = i
      <3> SUFFICES ASSUME NEW i \in 0 .. MaxSeq PROVE Cardinality(1 .. i) = i
        OBVIOUS
      <3>1. i \in Nat /\ 1 \in Int /\ i \in Int
        OBVIOUS
      <3>2. Cardinality(1 .. i) = IF 1 > i THEN 0 ELSE i - 1 + 1
        BY <3>1, FS_Interval
      <3> QED BY <3>1, <3>2
    <2>7. /\ AttemptOf(attempt[g][n], events[g][n]) = Attempting!Live(k)
          /\ AttemptOf(attempt'[g][n], events'[g][n]) = Attempting!Live(j)
      BY <1>1, <2>1, <2>2, <2>3, <2>6 DEF AttemptOf, Attempting!Live
    <2>8. CASE k = j
      BY <2>7, <2>8 DEF AttemptMoves
    <2>9. CASE k < j
      <3>1. Attempting!Store(Attempting!Live(k), Attempting!Live(j))
        BY <2>9 DEF Attempting!Store, Attempting!Live
      <3> QED BY <2>7, <3>1 DEF AttemptMoves, Attempting!Step
    <2> QED BY <2>5, <2>8, <2>9
  <1> QED BY <1>2, <1>3

LEMMA NextMoves ==
    ASSUME ReplayInv, [Next]_vars, NEW g \in Game, NEW n \in Attempts
    PROVE  AttemptMoves(AttemptOf(attempt[g][n], events[g][n]),
                        AttemptOf(attempt'[g][n], events'[g][n]))
  <1> USE DEF ReplayInv, LedgerInv
  <1> DEFINE Moves == AttemptMoves(AttemptOf(attempt[g][n], events[g][n]),
                                   AttemptOf(attempt'[g][n], events'[g][n]))
  <1>a. attempt' = attempt /\ events' = events => Moves
    BY DEF AttemptMoves
  <1>1. ASSUME NEW t \in Tournament, Start(t) PROVE Moves
    BY <1>1, <1>a DEF Start
  <1>2. ASSUME NEW t \in Tournament, Cancel(t) PROVE Moves
    <2>1. events' = events
      BY <1>2 DEF Cancel
    <2>2. attempt'[g] = CloseAttempt(g, "cancelled") \/ attempt'[g] = attempt[g]
      BY <1>2 DEF Cancel
    <2>3. CASE attempt'[g] = CloseAttempt(g, "cancelled")
      BY <2>1, <2>3, CloseMoves
    <2>4. CASE attempt'[g] = attempt[g]
      BY <2>1, <2>4 DEF AttemptMoves
    <2> QED BY <2>2, <2>3, <2>4
  <1>3. ASSUME NEW w \in Worker, NEW s \in {"ready", "busy", "other"},
               NEW h \in Game \cup {None}, ReportResource(w, s, h)
        PROVE  Moves
    BY <1>3, <1>a DEF ReportResource
  <1>4. ASSUME NEW h \in Game, Lapse(h) PROVE Moves
    BY <1>4, <1>a DEF Lapse
  <1>5. ASSUME NEW c \in Conn, NEW w \in Worker, RecoverExpired(c, w) PROVE Moves
    BY <1>5, <1>a DEF RecoverExpired
  <1>6. ASSUME NEW c \in Conn, NEW w \in Worker, ClaimNothing(c, w) PROVE Moves
    BY <1>6, CommitMoves DEF ClaimNothing
  <1>7. ASSUME NEW c \in Conn, NEW w \in Worker, NEW h \in Game, ClaimGame(c, w, h)
        PROVE  Moves
    BY <1>7, ClaimMoves
  <1>8. ASSUME NEW c \in Conn, Rollback(c) PROVE Moves
    BY <1>8, <1>a DEF Rollback
  <1>9. ASSUME NEW c \in Conn, CommitResult(c) PROVE Moves
    BY <1>9, CommitMoves DEF CommitResult
  <1>10. ASSUME NEW w \in Worker, NEW h \in Game, NEW m \in Attempts, Heartbeat(w, h, m)
         PROVE  Moves
    BY <1>10, <1>a DEF Heartbeat
  <1>11. ASSUME NEW w \in Worker, NEW h \in Game, NEW m \in Attempts,
                NEW first \in 1 .. MaxSeq, NEW last \in 1 .. MaxSeq,
                Events(w, h, m, first, last)
         PROVE  Moves
    <2>1. (ReplayWhole)'
      BY NextReplay
    <2> QED BY <1>11, <2>1, EventsMoves
  <1>12. ASSUME NEW w \in Worker, NEW h \in Game, NEW m \in Attempts, NEW c \in Conn,
                NEW outcome \in {"completed", "infra_failed"}, NEW k \in 0 .. MaxSeq,
                Result(c, w, h, m, outcome, k)
         PROVE  Moves
    BY <1>12, <1>a DEF Result
  <1>13. CASE UNCHANGED vars
    BY <1>13, <1>a DEF vars
  <1> QED BY <1>1, <1>2, <1>3, <1>4, <1>5, <1>6, <1>7, <1>8, <1>9, <1>10, <1>11, <1>12,
             <1>13 DEF Next

\* Whatever claims, event batches, results, recoveries and cancels overlap, each attempt
\* is opened once and empty, only gains events, under its lease, and ends once.
THEOREM RefinesLeasedAttempt == Spec => IsLeasedAttempt
  <1>0. \A i \in Game \X Attempts :
            /\ attempts[i] = AttemptOf(attempt[i[1]][i[2]], events[i[1]][i[2]])
            /\ attempts'[i] = AttemptOf(attempt'[i[1]][i[2]], events'[i[1]][i[2]])
    BY DEF attempts, AttemptOf
  <1>1. Init => Attempting!Init
    <2> SUFFICES ASSUME Init
                 PROVE  attempts \in [Game \X Attempts -> {Attempting!NotYet, Attempting!Live(0)}]
      BY DEF Attempting!Init
    <2>1. Cardinality({}) = 0
      BY FS_EmptySet
    <2>2. ASSUME NEW i \in Game \X Attempts PROVE attempts[i] = Attempting!NotYet
      <3>1. attempt[i[1]][i[2]].status = "none" /\ events[i[1]][i[2]] = {}
        BY DEF Init
      <3> QED BY <1>0, <2>1, <3>1 DEF AttemptOf, Attempting!NotYet
    <2> QED BY <2>2 DEF attempts
  <1>2. ReplayInv /\ [Next]_vars => [Attempting!Next]_attempts
    <2> SUFFICES ASSUME ReplayInv, [Next]_vars, NEW i \in Game \X Attempts
                 PROVE  attempts'[i] = attempts[i] \/ Attempting!Step(attempts[i], attempts'[i])
      BY DEF Attempting!Next
    <2> QED BY <1>0, NextMoves DEF AttemptMoves
  <1> QED BY <1>1, <1>2, ReplayAlways, PTL DEF Spec, IsLeasedAttempt, Attempting!Spec
=============================================================================
