------------------------ MODULE HarnessQueue_proofs -------------------------
(* Theorems about HarnessQueue, for any runs, teams, claim requests, lease   *)
(* times, grace periods, deadlines and numbers of attempts.                  *)
EXTENDS HarnessQueue, TLAPS

USE HarnessAssumption DEF HarnessAssumption

Phases == {"none", "checkout", "playing", "refused"}

\* The invariant of one run: its row and the phases of its attempts.  Every action
\* changes the rows one by one, so the invariant is kept row by row.
RowInv(row, phases) ==
    /\ row \in Row
    /\ phases \in [Attempts -> Phases]
    /\ row.reporter # 0 => row.reporter = row.attempts
    /\ row.scores # {} => row.commit = row.reporter
    /\ row.held # 0 /\ row.lease >= 0 => row.lease <= row.deadline + Grace
    /\ row.stage \in Active <=> row.held # 0
    /\ row.held # 0 => row.held = row.attempts
    /\ row.held = 0 => row.lease = -1
    /\ row.stage \notin Terminal => row.reporter = 0 /\ row.scores = {}
    /\ row.stage \in {"unsubmitted", "queued"} => row.attempts = 0
    /\ row.stage \in Active => row.attempts > 0
    /\ \A n \in Attempts :
          /\ n > row.attempts => phases[n] = "none"
          /\ phases[n] = "playing" /\ n = row.attempts => row.commit = n

RunsInv ==
    /\ run \in [Run -> Row]
    /\ attempt \in [Run -> [Attempts -> Phases]]
    /\ \A r \in Run : RowInv(run[r], attempt[r])

RestInv ==
    /\ frames \in [Run -> [Seqs -> 0 .. MaxAttempts]]
    /\ claim \in [Poller -> {"idle", "swept_deadlines", "swept_leases"}]

LEMMA ByRow == HarnessInv <=> RunsInv /\ RestInv
  <1>1. HarnessInv => RunsInv /\ RestInv
    BY DEF HarnessInv, TypeOK, ScoresOfCommit, LeaseWithinGrace, HeldWhileActive,
           OutcomeAtEnd, AttemptsKnown, RunsInv, RowInv, RestInv, Phases
  <1>2. RunsInv /\ RestInv => HarnessInv
    BY DEF HarnessInv, TypeOK, ScoresOfCommit, LeaseWithinGrace, HeldWhileActive,
           OutcomeAtEnd, AttemptsKnown, RunsInv, RowInv, RestInv, Phases
  <1> QED BY <1>1, <1>2

----------------------------------------------------------------------------
(* Rows *)

\* The bounds of the fields, as arithmetic facts.
LEMMA Bounds ==
    /\ 0 \in 0 .. MaxAttempts
    /\ -1 \in -1 .. LeaseTime
    /\ DeadlineTime \in -(Grace + 1) .. DeadlineTime
    /\ \A n \in Attempts : n \in 0 .. MaxAttempts /\ n # 0
    /\ \A l \in -1 .. LeaseTime : l >= 0 => l - 1 \in -1 .. LeaseTime
    /\ \A d \in -(Grace + 1) .. DeadlineTime :
           d > -(Grace + 1) => d - 1 \in -(Grace + 1) .. DeadlineTime
  BY DEF Attempts

Stages == {"unsubmitted", "queued"} \cup Active \cup Terminal

LEMMA StageFacts ==
    /\ \A s \in Terminal : s \in Stages /\ s \notin Active /\ s \notin {"unsubmitted", "queued"}
    /\ \A s \in Active : s \in Stages /\ s \notin Terminal /\ s \notin {"unsubmitted", "queued"}
    /\ \A s \in {"unsubmitted", "queued"} : s \in Stages /\ s \notin Terminal /\ s \notin Active
    /\ "preparing" \in Active /\ "running" \in Active
  BY DEF Stages, Active, Terminal

LEMMA NewRowInv ==
    ASSUME NEW stage \in {"unsubmitted", "queued"}, NEW kind \in Kinds,
           NEW phases, phases = [n \in Attempts |-> "none"]
    PROVE  RowInv(NewRow(stage, kind), phases)
  <1>1. NewRow(stage, kind) \in Row
    BY Bounds DEF NewRow, Row
  <1>2. phases \in [Attempts -> Phases] /\ \A n \in Attempts : phases[n] = "none"
    BY DEF Phases
  <1> QED BY <1>1, <1>2, StageFacts DEF NewRow, RowInv

LEMMA OlderInv ==
    ASSUME NEW row, NEW phases, RowInv(row, phases)
    PROVE  RowInv(Older(row), phases)
  <1> SUFFICES ASSUME NEW next, next = Older(row) PROVE RowInv(next, phases)
    OBVIOUS
  <1> DEFINE lease == IF row.lease >= 0 THEN row.lease - 1 ELSE row.lease
             deadline == IF row.attempts > 0 /\ row.deadline > -(Grace + 1)
                         THEN row.deadline - 1 ELSE row.deadline
  <1>1. row \in Row
    BY DEF RowInv
  <1>2. row.lease \in -1 .. LeaseTime /\ row.deadline \in -(Grace + 1) .. DeadlineTime
    BY <1>1 DEF Row
  <1>3. next = [row EXCEPT !.lease = lease, !.deadline = deadline]
    BY <1>1 DEF Older, Row
  <1>4. lease \in -1 .. LeaseTime /\ deadline \in -(Grace + 1) .. DeadlineTime
    BY <1>2, Bounds
  <1>5. row.held # 0 => row.attempts > 0
    BY DEF RowInv
  <1>6. row.held # 0 /\ lease >= 0 => lease <= deadline + Grace
    BY <1>2, <1>5 DEF RowInv
  <1>9. row.held = 0 => lease = -1
    BY DEF RowInv
  <1> HIDE DEF lease, deadline
  <1>7. next \in Row
    BY <1>1, <1>3, <1>4 DEF Row
  <1>8. /\ next.lease = lease
        /\ next.deadline = deadline
        /\ next.stage = row.stage
        /\ next.attempts = row.attempts
        /\ next.held = row.held
        /\ next.commit = row.commit
        /\ next.reporter = row.reporter
        /\ next.scores = row.scores
    BY <1>1, <1>3 DEF Row
  <1> QED BY <1>6, <1>7, <1>8, <1>9 DEF RowInv

LEMMA EndedInv ==
    ASSUME NEW row, NEW phases, RowInv(row, phases), row.stage \notin Terminal,
           NEW stage \in Terminal
    PROVE  RowInv(Ended(row, stage), phases)
  <1> SUFFICES ASSUME NEW next, next = Ended(row, stage) PROVE RowInv(next, phases)
    OBVIOUS
  <1>1. row \in Row
    BY DEF RowInv
  <1>2. next \in Row
    BY <1>1, Bounds, StageFacts DEF Ended, Row, Stages
  <1>3. /\ next.stage = stage
        /\ next.held = 0
        /\ next.lease = -1
        /\ next.attempts = row.attempts
        /\ next.commit = row.commit
        /\ next.reporter = 0
        /\ next.scores = {}
    BY <1>1 DEF Ended, Row, RowInv
  <1> QED BY <1>2, <1>3, StageFacts DEF RowInv

LEMMA FreshLeaseBound ==
    ASSUME NEW row \in Row
    PROVE  /\ FreshLease(row) \in -1 .. LeaseTime
           /\ FreshLease(row) <= row.deadline + Grace
  <1>1. row.deadline \in -(Grace + 1) .. DeadlineTime
    BY DEF Row
  <1> QED BY <1>1 DEF FreshLease, Least

LEMMA ClaimedInv ==
    ASSUME NEW row, NEW phases, RowInv(row, phases), NEW kind, Claimable(row, kind)
    PROVE  /\ row.attempts + 1 \in Attempts
           /\ RowInv(Claimed(row), [phases EXCEPT ![row.attempts + 1] = "checkout"])
  <1>1. row \in Row /\ row.attempts \in 0 .. MaxAttempts
    BY DEF RowInv, Row
  <1>2. row.attempts < MaxAttempts
    BY DEF Claimable, RowInv
  <1>3. row.attempts + 1 \in Attempts
    BY <1>1, <1>2 DEF Attempts
  <1> SUFFICES ASSUME NEW n \in Attempts, n = row.attempts + 1,
                      NEW next, next = Claimed(row),
                      NEW later, later = [phases EXCEPT ![n] = "checkout"]
               PROVE  RowInv(next, later)
    BY <1>3
  <1>4. FreshLease(row) \in -1 .. LeaseTime /\ FreshLease(row) <= row.deadline + Grace
    BY <1>1, FreshLeaseBound
  <1>5. next = [row EXCEPT !.stage = "preparing", !.attempts = n, !.held = n,
                           !.lease = FreshLease(row)]
    BY <1>1 DEF Claimed, Row
  <1>6. next \in Row
    BY <1>1, <1>4, <1>5, Bounds, StageFacts DEF Row, Stages
  <1>7. /\ next.stage = "preparing"
        /\ next.attempts = n
        /\ next.held = n
        /\ next.lease = FreshLease(row)
        /\ next.deadline = row.deadline
        /\ next.commit = row.commit
        /\ next.reporter = row.reporter
        /\ next.scores = row.scores
    BY <1>1, <1>5 DEF Row
  <1>8. row.stage \notin Terminal
    BY DEF Claimable, LeaseExpired, Active, Terminal
  <1>9. /\ later \in [Attempts -> Phases]
        /\ \A m \in Attempts : later[m] = IF m = n THEN "checkout" ELSE phases[m]
    BY DEF RowInv, Phases
  <1>10. ASSUME NEW m \in Attempts, m > n PROVE later[m] = "none"
    BY <1>1, <1>9, <1>10 DEF RowInv, Attempts
  <1>11. ASSUME NEW m \in Attempts, later[m] = "playing" PROVE m # n
    BY <1>9, <1>11
  <1>12. n > 0
    BY DEF Attempts
  <1> QED BY <1>4, <1>6, <1>7, <1>8, <1>9, <1>10, <1>11, <1>12, StageFacts DEF RowInv

LEMMA HeartbeatInv ==
    ASSUME NEW row, NEW phases, RowInv(row, phases), row.stage \in Active
    PROVE  RowInv([row EXCEPT !.lease = FreshLease(row)], phases)
  <1> SUFFICES ASSUME NEW next, next = [row EXCEPT !.lease = FreshLease(row)]
               PROVE  RowInv(next, phases)
    OBVIOUS
  <1>1. row \in Row
    BY DEF RowInv
  <1>2. FreshLease(row) \in -1 .. LeaseTime /\ FreshLease(row) <= row.deadline + Grace
    BY <1>1, FreshLeaseBound
  <1>3. next \in Row
    BY <1>1, <1>2 DEF Row
  <1>4. /\ next.lease = FreshLease(row)
        /\ next.deadline = row.deadline
        /\ next.stage = row.stage
        /\ next.attempts = row.attempts
        /\ next.held = row.held
        /\ next.commit = row.commit
        /\ next.reporter = row.reporter
        /\ next.scores = row.scores
    BY <1>1 DEF Row
  <1> QED BY <1>2, <1>3, <1>4 DEF RowInv

LEMMA StageInv ==
    ASSUME NEW row, NEW phases, RowInv(row, phases), row.stage = "preparing",
           NEW n \in Attempts, row.held = n
    PROVE  RowInv([row EXCEPT !.stage = "running", !.commit = n],
                  [phases EXCEPT ![n] = "playing"])
  <1> SUFFICES ASSUME NEW next, next = [row EXCEPT !.stage = "running", !.commit = n],
                      NEW later, later = [phases EXCEPT ![n] = "playing"]
               PROVE  RowInv(next, later)
    OBVIOUS
  <1>1. row \in Row
    BY DEF RowInv
  <1>2. next \in Row
    BY <1>1, Bounds, StageFacts DEF Row, Stages
  <1>3. /\ next.stage = "running"
        /\ next.commit = n
        /\ next.lease = row.lease
        /\ next.deadline = row.deadline
        /\ next.attempts = row.attempts
        /\ next.held = row.held
        /\ next.reporter = row.reporter
        /\ next.scores = row.scores
    BY <1>1 DEF Row
  <1>4. /\ later \in [Attempts -> Phases]
        /\ \A m \in Attempts : later[m] = IF m = n THEN "playing" ELSE phases[m]
    BY DEF RowInv, Phases
  <1>5. n # 0
    BY Bounds
  <1>6. n = row.attempts /\ row.scores = {} /\ row.reporter = 0
    BY <1>5, StageFacts DEF RowInv
  <1>7. \A m \in Attempts : m > n => m # n
    BY DEF Attempts
  <1> QED BY <1>2, <1>3, <1>4, <1>5, <1>6, <1>7, StageFacts DEF RowInv

LEMMA ReportedInv ==
    ASSUME NEW row, NEW phases, RowInv(row, phases), row.stage \in Active,
           NEW n \in Attempts, row.held = n,
           NEW status \in Terminal, NEW S \in SUBSET Benchmarks,
           S # {} => phases[n] = "playing"
    PROVE  RowInv(Reported(row, n, status, S), phases)
  <1> SUFFICES ASSUME NEW next, next = Reported(row, n, status, S) PROVE RowInv(next, phases)
    OBVIOUS
  <1>1. row \in Row
    BY DEF RowInv
  <1>2. next = [row EXCEPT !.stage = status, !.held = 0, !.lease = -1,
                           !.reporter = n, !.scores = S]
    BY <1>1 DEF Reported, Ended, Row
  <1>3. next \in Row
    <2>1. status \in Stages /\ 0 \in 0 .. MaxAttempts /\ -1 \in -1 .. LeaseTime
      BY Bounds, StageFacts
    <2>2. n \in 0 .. MaxAttempts /\ S \in SUBSET Benchmarks
      BY Bounds
    <2> QED BY <1>1, <1>2, <2>1, <2>2 DEF Row, Stages
  <1>4. /\ next.stage = status
        /\ next.held = 0
        /\ next.lease = -1
        /\ next.reporter = n
        /\ next.scores = S
        /\ next.attempts = row.attempts
        /\ next.commit = row.commit
    BY <1>1, <1>2 DEF Row
  <1>5. n # 0
    BY Bounds
  <1>6. n = row.attempts
    BY <1>5 DEF RowInv
  <1> QED BY <1>3, <1>4, <1>5, <1>6, StageFacts DEF RowInv

\* A controller that gives up only forgets that it was playing.
LEMMA RefusedInv ==
    ASSUME NEW row, NEW phases, RowInv(row, phases), NEW n \in Attempts,
           phases[n] \in {"checkout", "playing"}
    PROVE  RowInv(row, [phases EXCEPT ![n] = "refused"])
  <1> SUFFICES ASSUME NEW later, later = [phases EXCEPT ![n] = "refused"]
               PROVE  RowInv(row, later)
    OBVIOUS
  <1>1. /\ later \in [Attempts -> Phases]
        /\ \A m \in Attempts : later[m] = IF m = n THEN "refused" ELSE phases[m]
    BY DEF RowInv, Phases
  <1> QED BY <1>1 DEF RowInv

----------------------------------------------------------------------------
(* The invariant *)

LEMMA InitInv == Init => HarnessInv
  <1> SUFFICES ASSUME Init PROVE RunsInv /\ RestInv
    BY ByRow
  <1>1. ASSUME NEW r \in Run PROVE RowInv(run[r], attempt[r])
    BY NewRowInv DEF Init, Kinds
  <1>2. RunsInv
    BY <1>1 DEF RunsInv, RowInv, Init
  <1>3. RestInv
    BY Bounds DEF RestInv, Init
  <1> QED BY <1>2, <1>3

\* A step that replaces the row and the phases of one run by good ones.
LEMMA OneRun ==
    ASSUME RunsInv, NEW r \in Run, NEW row, NEW phases, RowInv(row, phases),
           run' = [run EXCEPT ![r] = row], attempt' = [attempt EXCEPT ![r] = phases]
    PROVE  RunsInv'
  <1>1. row \in Row /\ phases \in [Attempts -> Phases]
    BY DEF RowInv
  <1>2. ASSUME NEW q \in Run
        PROVE  /\ run'[q] = IF q = r THEN row ELSE run[q]
               /\ attempt'[q] = IF q = r THEN phases ELSE attempt[q]
    BY DEF RunsInv
  <1>3. \A q \in Run : RowInv(run'[q], attempt'[q])
    BY <1>2 DEF RunsInv
  <1> QED BY <1>1, <1>3 DEF RunsInv, RowInv

LEMMA OneRow ==
    ASSUME RunsInv, NEW r \in Run, NEW row, RowInv(row, attempt[r]),
           run' = [run EXCEPT ![r] = row], attempt' = attempt
    PROVE  RunsInv'
  <1>1. attempt' = [attempt EXCEPT ![r] = attempt[r]]
    BY DEF RunsInv
  <1> QED BY <1>1, OneRun

\* A step that replaces rows by good ones.
LEMMA AllRows ==
    ASSUME RunsInv, NEW next, \A r \in Run : RowInv(next[r], attempt[r]),
           next = [r \in Run |-> next[r]], run' = next, attempt' = attempt
    PROVE  RunsInv'
  <1>1. \A r \in Run : RowInv(run'[r], attempt'[r])
    OBVIOUS
  <1>2. run' = [r \in Run |-> run'[r]]
    OBVIOUS
  <1> QED BY <1>1, <1>2 DEF RunsInv, RowInv

LEMMA NextInv == ASSUME HarnessInv, [Next]_vars PROVE HarnessInv'
  <1>a. RunsInv' /\ RestInv' => HarnessInv'
    BY DEF HarnessInv, TypeOK, ScoresOfCommit, LeaseWithinGrace, HeldWhileActive,
           OutcomeAtEnd, AttemptsKnown, RunsInv, RowInv, RestInv, Phases
  <1> SUFFICES ASSUME RunsInv, RestInv PROVE RunsInv' /\ RestInv'
    BY ByRow, <1>a
  <1>0. \A r \in Run : RowInv(run[r], attempt[r])
    BY DEF RunsInv
  <1>1. CASE Tick
    <2> DEFINE next == [r \in Run |-> Older(run[r])]
    <2>2. \A r \in Run : RowInv(next[r], attempt[r])
      BY <1>0, OlderInv
    <2>3. run' = next /\ attempt' = attempt /\ next = [r \in Run |-> next[r]]
      BY <1>1 DEF Tick
    <2> HIDE DEF next
    <2>1. RunsInv'
      BY <2>2, <2>3, AllRows
    <2> QED BY <1>1, <2>1 DEF Tick, RestInv
  <1>2. ASSUME NEW r \in Run, NEW kind \in {"arc", "frontier"}, Submit(r, kind)
        PROVE  RunsInv' /\ RestInv'
    <2>1. attempt[r] = [n \in Attempts |-> "none"]
      <3>1. run[r].attempts = 0
        BY <1>0, <1>2 DEF Submit, RowInv
      <3>2. \A n \in Attempts : n > 0
        BY DEF Attempts
      <3> QED BY <1>0, <3>1, <3>2 DEF RowInv
    <2>2. RowInv(NewRow("queued", kind), attempt[r])
      BY <2>1, NewRowInv DEF Kinds
    <2>3. RunsInv'
      BY <1>2, <2>2, OneRow DEF Submit
    <2> QED BY <1>2, <2>3 DEF Submit, RestInv
  <1>3. ASSUME NEW r \in Run, NEW stage \in {"cancelled", "failed"}, StopWith(r, stage)
        PROVE  RunsInv' /\ RestInv'
    <2>1. run[r].stage \notin Terminal /\ stage \in Terminal
      BY <1>3 DEF StopWith, Active, Terminal
    <2>2. RowInv(Ended(run[r], stage), attempt[r])
      BY <1>0, <2>1, EndedInv
    <2>3. run' = [run EXCEPT ![r] = Ended(run[r], stage)] /\ attempt' = attempt
      BY <1>3 DEF StopWith
    <2>4. RunsInv'
      BY <2>2, <2>3, OneRow
    <2> QED BY <1>3, <2>4 DEF StopWith, RestInv
  <1>4. ASSUME NEW r \in Run, NEW next, next = Ended(run[r], "infra_failed"),
               run[r].stage \in Active
        PROVE  RowInv(next, attempt[r])
    BY <1>0, <1>4, EndedInv, StageFacts DEF Terminal
  <1>5. ASSUME NEW p \in Poller, SweepDeadlines(p) PROVE RunsInv' /\ RestInv'
    <2> DEFINE next == [r \in Run |-> IF MissedDeadline(run[r])
                                      THEN Ended(run[r], "infra_failed") ELSE run[r]]
    <2>1. \A r \in Run : RowInv(next[r], attempt[r])
      BY <1>0, <1>4 DEF MissedDeadline
    <2>2. run' = next /\ attempt' = attempt /\ next = [r \in Run |-> next[r]]
      BY <1>5 DEF SweepDeadlines
    <2> HIDE DEF next
    <2>5. RunsInv'
      BY <2>1, <2>2, AllRows
    <2> QED BY <1>5, <2>5 DEF SweepDeadlines, RestInv
  <1>6. ASSUME NEW p \in Poller, SweepLeases(p) PROVE RunsInv' /\ RestInv'
    <2> DEFINE next == [r \in Run |->
                           IF LeaseExpired(run[r]) /\ run[r].attempts >= MaxAttempts
                           THEN Ended(run[r], "infra_failed") ELSE run[r]]
    <2>1. \A r \in Run : RowInv(next[r], attempt[r])
      BY <1>0, <1>4 DEF LeaseExpired
    <2>2. run' = next /\ attempt' = attempt /\ next = [r \in Run |-> next[r]]
      BY <1>6 DEF SweepLeases
    <2> HIDE DEF next
    <2>5. RunsInv'
      BY <2>1, <2>2, AllRows
    <2> QED BY <1>6, <2>5 DEF SweepLeases, RestInv
  <1>7. ASSUME NEW p \in Poller, ClaimNothing(p) \/ ClaimLost(p) PROVE RunsInv' /\ RestInv'
    BY <1>7 DEF ClaimNothing, ClaimLost, RunsInv, RestInv
  <1>8. ASSUME NEW p \in Poller, NEW r \in Run, ClaimRun(p, r) PROVE RunsInv' /\ RestInv'
    <2> DEFINE n == run[r].attempts + 1
    <2>1. RowInv(Claimed(run[r]), [attempt[r] EXCEPT ![n] = "checkout"])
      BY <1>0, <1>8, ClaimedInv DEF ClaimRun
    <2>2. /\ run' = [run EXCEPT ![r] = Claimed(run[r])]
          /\ attempt' = [attempt EXCEPT ![r] = [attempt[r] EXCEPT ![n] = "checkout"]]
      BY <1>8 DEF ClaimRun
    <2> HIDE DEF n
    <2>3. RunsInv'
      BY <2>1, <2>2, OneRun
    <2> QED BY <1>8, <2>3 DEF ClaimRun, RestInv
  <1>9. ASSUME NEW r \in Run, NEW n \in Attempts, Heartbeat(r, n) PROVE RunsInv' /\ RestInv'
    <2>1. RowInv([run[r] EXCEPT !.lease = FreshLease(run[r])], attempt[r])
      BY <1>0, <1>9, HeartbeatInv DEF Heartbeat
    <2>2. run' = [run EXCEPT ![r] = [run[r] EXCEPT !.lease = FreshLease(run[r])]]
          /\ attempt' = attempt
      BY <1>9 DEF Heartbeat
    <2>3. RunsInv'
      BY <2>1, <2>2, OneRow
    <2> QED BY <1>9, <2>3 DEF Heartbeat, RestInv
  <1>10. ASSUME NEW r \in Run, NEW n \in Attempts, ReportStage(r, n)
         PROVE  RunsInv' /\ RestInv'
    <2>1. RowInv([run[r] EXCEPT !.stage = "running", !.commit = n],
                 [attempt[r] EXCEPT ![n] = "playing"])
      BY <1>0, <1>10, StageInv DEF ReportStage, Live, Holds
    <2>2. /\ run' = [run EXCEPT ![r] = [run[r] EXCEPT !.stage = "running", !.commit = n]]
          /\ attempt' = [attempt EXCEPT ![r] = [attempt[r] EXCEPT ![n] = "playing"]]
      BY <1>10 DEF ReportStage, RunsInv
    <2>3. RunsInv'
      BY <2>1, <2>2, OneRun
    <2> QED BY <1>10, <2>3 DEF ReportStage, RestInv
  <1>11. ASSUME NEW r \in Run, NEW n \in Attempts, NEW first \in Seqs, NEW last \in Seqs,
                PostFrames(r, n, first, last)
         PROVE  RunsInv' /\ RestInv'
    <2>1. frames' \in [Run -> [Seqs -> 0 .. MaxAttempts]]
      BY <1>11, Bounds DEF PostFrames, RestInv
    <2> QED BY <1>11, <2>1 DEF PostFrames, RunsInv, RestInv
  <1>12. ASSUME NEW r \in Run, NEW n \in Attempts, NEW S \in SUBSET Benchmarks,
                NEW infra \in BOOLEAN, Result(r, n, S, infra)
         PROVE  RunsInv' /\ RestInv'
    <2> DEFINE status == TerminalStatus(run[r].kind, S, infra)
    <2>1. status \in Terminal
      BY DEF TerminalStatus, Terminal
    <2>2. run[r].stage \in Active /\ run[r].held = n /\ (S # {} => attempt[r][n] = "playing")
      BY <1>12 DEF Result, Holds, Finishes
    <2>3. run' = [run EXCEPT ![r] = Reported(run[r], n, status, S)] /\ attempt' = attempt
      BY <1>12 DEF Result
    <2> HIDE DEF status
    <2>4. RowInv(Reported(run[r], n, status, S), attempt[r])
      BY <1>0, <2>1, <2>2, ReportedInv
    <2>5. RunsInv'
      BY <2>3, <2>4, OneRow
    <2> QED BY <1>12, <2>5 DEF Result, RestInv
  <1>13. ASSUME NEW r \in Run, NEW n \in Attempts, NEW S \in SUBSET Benchmarks,
                NEW infra \in BOOLEAN, ResultRefused(r, n, S, infra)
         PROVE  RunsInv' /\ RestInv'
    <2>1. RowInv(run[r], [attempt[r] EXCEPT ![n] = "refused"])
      BY <1>0, <1>13, RefusedInv DEF ResultRefused, Finishes
    <2>2. /\ run' = [run EXCEPT ![r] = run[r]]
          /\ attempt' = [attempt EXCEPT ![r] = [attempt[r] EXCEPT ![n] = "refused"]]
      BY <1>13 DEF ResultRefused, RunsInv
    <2>3. RunsInv'
      BY <2>1, <2>2, OneRun
    <2> QED BY <1>13, <2>3 DEF ResultRefused, RestInv
  <1>14. CASE UNCHANGED vars
    BY <1>14 DEF vars, RunsInv, RestInv
  <1> QED
    BY <1>1, <1>2, <1>3, <1>5, <1>6, <1>7, <1>8, <1>9, <1>10, <1>11, <1>12, <1>13, <1>14
    DEF Next, Stop, Fail

LEMMA InvAlways == Spec => []HarnessInv
  BY InitInv, NextInv, PTL DEF Spec

\* Every reachable row has the types and check constraints of the schema.
THEOREM HarnessTypes == Spec => []TypeOK
  <1>1. HarnessInv => TypeOK
    BY DEF HarnessInv
  <1> QED BY <1>1, InvAlways, PTL

\* A run is reported by the last attempt that was handed it, and its scores go with the
\* commit that attempt checked out.
THEOREM ScoresCorrect == Spec => []ScoresOfCommit
  <1>1. HarnessInv => ScoresOfCommit
    BY DEF HarnessInv
  <1> QED BY <1>1, InvAlways, PTL

\* No lease outlives the grace period of the result.
THEOREM LeaseBounded == Spec => []LeaseWithinGrace
  <1>1. HarnessInv => LeaseWithinGrace
    BY DEF HarnessInv
  <1> QED BY <1>1, InvAlways, PTL

\* An active run is held by its latest attempt, and no other run is held.
THEOREM HolderCorrect == Spec => []HeldWhileActive
  <1>1. HarnessInv => HeldWhileActive
    BY DEF HarnessInv
  <1> QED BY <1>1, InvAlways, PTL

----------------------------------------------------------------------------
(* What a step does to one run *)

\* The ways in which the row of a run changes.
StoppedBy(row, next, stage) == row.stage \in Active \cup {"queued"} /\ next = Ended(row, stage)

SweptAway(row, next) ==
    /\ MissedDeadline(row) \/ (LeaseExpired(row) /\ row.attempts >= MaxAttempts)
    /\ next = Ended(row, "infra_failed")

Staged(row, next, n) ==
    /\ row.stage = "preparing"
    /\ row.held = n /\ row.lease > 0 /\ row.deadline > 0
    /\ next = [row EXCEPT !.stage = "running", !.commit = n]

ReportedBy(row, next, n) ==
    /\ row.stage \in Active
    /\ row.held = n /\ row.lease > 0
    /\ \E status \in Terminal, S \in SUBSET Benchmarks : next = Reported(row, n, status, S)

RowStep(row, next) ==
    \/ next = row
    \/ next = Older(row)
    \/ row.stage = "unsubmitted" /\ \E kind \in Kinds : next = NewRow("queued", kind)
    \/ \E stage \in {"cancelled", "failed"} : StoppedBy(row, next, stage)
    \/ SweptAway(row, next)
    \/ \E kind \in Kinds : Claimable(row, kind) /\ next = Claimed(row)
    \/ row.stage \in Active /\ next = [row EXCEPT !.lease = FreshLease(row)]
    \/ \E n \in Attempts : Staged(row, next, n)
    \/ \E n \in Attempts : ReportedBy(row, next, n)

LEMMA RowSteps ==
    ASSUME HarnessInv, [Next]_vars, NEW r \in Run
    PROVE  RowStep(run[r], run'[r])
  <1>0. run \in [Run -> Row]
    BY DEF HarnessInv, TypeOK
  <1>1. CASE Tick
    BY <1>1 DEF Tick, RowStep
  <1>2. ASSUME NEW q \in Run, NEW kind \in {"arc", "frontier"}, Submit(q, kind)
        PROVE  RowStep(run[r], run'[r])
    BY <1>0, <1>2 DEF Submit, RowStep, Kinds
  <1>3. ASSUME NEW q \in Run, NEW stage \in {"cancelled", "failed"}, StopWith(q, stage)
        PROVE  RowStep(run[r], run'[r])
    BY <1>0, <1>3 DEF StopWith, RowStep, StoppedBy
  <1>4. ASSUME NEW p \in Poller, SweepDeadlines(p) PROVE RowStep(run[r], run'[r])
    BY <1>4 DEF SweepDeadlines, RowStep, SweptAway
  <1>5. ASSUME NEW p \in Poller, SweepLeases(p) PROVE RowStep(run[r], run'[r])
    BY <1>5 DEF SweepLeases, RowStep, SweptAway
  <1>6. ASSUME NEW p \in Poller, ClaimNothing(p) \/ ClaimLost(p) PROVE RowStep(run[r], run'[r])
    BY <1>6 DEF ClaimNothing, ClaimLost, RowStep
  <1>7. ASSUME NEW p \in Poller, NEW q \in Run, ClaimRun(p, q) PROVE RowStep(run[r], run'[r])
    BY <1>0, <1>7 DEF ClaimRun, RowStep
  <1>8. ASSUME NEW q \in Run, NEW n \in Attempts, Heartbeat(q, n)
        PROVE  RowStep(run[r], run'[r])
    BY <1>0, <1>8 DEF Heartbeat, RowStep
  <1>9. ASSUME NEW q \in Run, NEW n \in Attempts, ReportStage(q, n)
        PROVE  RowStep(run[r], run'[r])
    BY <1>0, <1>9 DEF ReportStage, RowStep, Staged, Live, Holds
  <1>10. ASSUME NEW q \in Run, NEW n \in Attempts, NEW first \in Seqs, NEW last \in Seqs,
                PostFrames(q, n, first, last)
         PROVE  RowStep(run[r], run'[r])
    BY <1>10 DEF PostFrames, RowStep
  <1>11. ASSUME NEW q \in Run, NEW n \in Attempts, NEW S \in SUBSET Benchmarks,
                NEW infra \in BOOLEAN, Result(q, n, S, infra)
         PROVE  RowStep(run[r], run'[r])
    <2> DEFINE status == TerminalStatus(run[q].kind, S, infra)
    <2>1. status \in Terminal
      BY DEF TerminalStatus, Terminal
    <2>2. /\ run[q].stage \in Active /\ run[q].held = n /\ run[q].lease > 0
          /\ run' = [run EXCEPT ![q] = Reported(run[q], n, status, S)]
      BY <1>11 DEF Result, Holds
    <2> HIDE DEF status
    <2>3. CASE q = r
      BY <1>0, <2>1, <2>2, <2>3 DEF RowStep, ReportedBy
    <2>4. CASE q # r
      BY <1>0, <2>2, <2>4 DEF RowStep
    <2> QED BY <2>3, <2>4
  <1>12. ASSUME NEW q \in Run, NEW n \in Attempts, NEW S \in SUBSET Benchmarks,
                NEW infra \in BOOLEAN, ResultRefused(q, n, S, infra)
         PROVE  RowStep(run[r], run'[r])
    BY <1>12 DEF ResultRefused, RowStep
  <1>13. CASE UNCHANGED vars
    BY <1>13 DEF vars, RowStep
  <1> QED
    BY <1>1, <1>2, <1>3, <1>4, <1>5, <1>6, <1>7, <1>8, <1>9, <1>10, <1>11, <1>12, <1>13
    DEF Next, Stop, Fail

\* Frames are inserted by the holder of a live lease, and only into a running run.
LEMMA FrameSteps ==
    ASSUME HarnessInv, [Next]_vars, NEW r \in Run
    PROVE  \/ frames'[r] = frames[r]
           \/ /\ run[r].stage = "running"
              /\ \E n \in Attempts :
                    /\ Live(r, n)
                    /\ \A s \in Seqs : frames'[r][s] \in {frames[r][s], n}
  <1> DEFINE Goal == \/ frames'[r] = frames[r]
                     \/ /\ run[r].stage = "running"
                        /\ \E n \in Attempts :
                              /\ Live(r, n)
                              /\ \A s \in Seqs : frames'[r][s] \in {frames[r][s], n}
  <1> SUFFICES Goal
    OBVIOUS
  <1>1. ASSUME NEW q \in Run, NEW n \in Attempts, NEW first \in Seqs, NEW last \in Seqs,
               PostFrames(q, n, first, last)
        PROVE  Goal
    <2>0. frames \in [Run -> [Seqs -> 0 .. MaxAttempts]]
      BY DEF HarnessInv, TypeOK
    <2>1. CASE q = r
      <3>1. run[r].stage = "running" /\ Live(r, n)
        BY <1>1, <2>1 DEF PostFrames
      <3>2. \A s \in Seqs : frames'[r][s] \in {frames[r][s], n}
        BY <1>1, <2>0, <2>1 DEF PostFrames
      <3> QED BY <3>1, <3>2
    <2>2. CASE q # r
      BY <1>1, <2>0, <2>2 DEF PostFrames
    <2> QED BY <2>1, <2>2
  <1>2. CASE frames' = frames
    BY <1>2
  <1>3. CASE Tick
    BY <1>3 DEF Tick
  <1>4. ASSUME NEW q, \/ \E kind : Submit(q, kind)
                      \/ \E stage : StopWith(q, stage)
        PROVE  frames' = frames
    BY <1>4 DEF Submit, StopWith
  <1>5. ASSUME NEW p, \/ SweepDeadlines(p) \/ SweepLeases(p) \/ ClaimNothing(p)
                      \/ ClaimLost(p) \/ \E q \in Run : ClaimRun(p, q)
        PROVE  frames' = frames
    <2>1. ASSUME NEW q \in Run, ClaimRun(p, q) PROVE frames' = frames
      BY <2>1 DEF ClaimRun
    <2> QED BY <1>5, <2>1 DEF SweepDeadlines, SweepLeases, ClaimNothing, ClaimLost
  <1>6. ASSUME NEW q \in Run, NEW n \in Attempts, Heartbeat(q, n) \/ ReportStage(q, n)
        PROVE  frames' = frames
    BY <1>6 DEF Heartbeat, ReportStage
  <1>7. ASSUME NEW q \in Run, NEW n \in Attempts, NEW S, NEW infra,
               Result(q, n, S, infra) \/ ResultRefused(q, n, S, infra)
        PROVE  frames' = frames
    BY <1>7 DEF Result, ResultRefused
  <1>8. CASE UNCHANGED vars
    BY <1>8 DEF vars
  <1> HIDE DEF Goal
  <1>9. ASSUME NEW q \in Run, NEW n \in Attempts,
               \/ Heartbeat(q, n) \/ ReportStage(q, n)
               \/ \E first, last \in Seqs : first <= last /\ PostFrames(q, n, first, last)
               \/ \E S \in SUBSET Benchmarks, infra \in BOOLEAN :
                     Result(q, n, S, infra) \/ ResultRefused(q, n, S, infra)
        PROVE  Goal
    BY <1>1, <1>2, <1>6, <1>7, <1>9
  <1>10. ASSUME NEW q \in Run, \/ \E kind \in {"arc", "frontier"} : Submit(q, kind)
                               \/ Stop(q) \/ Fail(q)
         PROVE  Goal
    BY <1>2, <1>4, <1>10 DEF Stop, Fail
  <1>11. ASSUME NEW p \in Poller, \/ SweepDeadlines(p) \/ SweepLeases(p)
                                  \/ ClaimNothing(p) \/ ClaimLost(p)
                                  \/ \E q \in Run : ClaimRun(p, q)
         PROVE  Goal
    BY <1>2, <1>5, <1>11
  <1> QED BY <1>2, <1>3, <1>8, <1>9, <1>10, <1>11 DEF Next

----------------------------------------------------------------------------
(* What a step may never do *)

LEMMA OlderRow ==
    ASSUME NEW row \in Row
    PROVE  /\ Older(row).stage = row.stage
           /\ Older(row).held = row.held
           /\ Older(row).attempts = row.attempts
           /\ Older(row).commit = row.commit
           /\ Older(row).reporter = row.reporter
           /\ Older(row).deadline <= row.deadline
  BY DEF Older, Row

\* Time changes nothing but the deadline of a row without a lease.
LEMMA OlderLeaseless ==
    ASSUME NEW row \in Row, row.lease = -1
    PROVE  [Older(row) EXCEPT !.deadline = 0] = [row EXCEPT !.deadline = 0]
  <1> DEFINE d == IF row.attempts > 0 /\ row.deadline > -(Grace + 1)
                  THEN row.deadline - 1 ELSE row.deadline
  <1>1. Older(row) = [row EXCEPT !.lease = -1, !.deadline = d]
    BY DEF Older, Row
  <1> HIDE DEF d
  <1>2. [row EXCEPT !.lease = -1, !.deadline = d] = [row EXCEPT !.deadline = d]
    BY DEF Row
  <1>3. [[row EXCEPT !.deadline = d] EXCEPT !.deadline = 0] = [row EXCEPT !.deadline = 0]
    BY DEF Row
  <1> QED BY <1>1, <1>2, <1>3

\* The fields that matter of a row that ends, and of one that is reported.
LEMMA EndedRow ==
    ASSUME NEW row \in Row, NEW stage \in Terminal
    PROVE  /\ Ended(row, stage).stage = stage
           /\ Ended(row, stage).held = 0
           /\ Ended(row, stage).attempts = row.attempts
           /\ Ended(row, stage).commit = row.commit
           /\ Ended(row, stage).reporter = row.reporter
           /\ Ended(row, stage).deadline = row.deadline
  BY DEF Ended, Row

LEMMA ReportedRow ==
    ASSUME NEW row \in Row, NEW n \in Attempts, NEW status \in Terminal,
           NEW S \in SUBSET Benchmarks
    PROVE  /\ Reported(row, n, status, S).stage = status
           /\ Reported(row, n, status, S).held = 0
           /\ Reported(row, n, status, S).attempts = row.attempts
           /\ Reported(row, n, status, S).commit = row.commit
           /\ Reported(row, n, status, S).reporter = n
           /\ Reported(row, n, status, S).deadline = row.deadline
  BY DEF Reported, Ended, Row

LEMMA ClaimedRow ==
    ASSUME NEW row \in Row
    PROVE  /\ Claimed(row).stage = "preparing"
           /\ Claimed(row).attempts = row.attempts + 1
           /\ Claimed(row).held = row.attempts + 1
           /\ Claimed(row).commit = row.commit
           /\ Claimed(row).reporter = row.reporter
           /\ Claimed(row).deadline = row.deadline
  BY DEF Claimed, Row

LEMMA NewRowFields ==
    ASSUME NEW kind
    PROVE  /\ NewRow("queued", kind).stage = "queued"
           /\ NewRow("queued", kind).attempts = 0
           /\ NewRow("queued", kind).commit = 0
           /\ NewRow("queued", kind).reporter = 0
           /\ NewRow("queued", kind).deadline = DeadlineTime
  BY DEF NewRow

LEMMA LeaseOnly ==
    ASSUME NEW row \in Row, NEW lease
    PROVE  LET next == [row EXCEPT !.lease = lease] IN
           /\ next.stage = row.stage
           /\ next.held = row.held
           /\ next.attempts = row.attempts
           /\ next.commit = row.commit
           /\ next.reporter = row.reporter
           /\ next.deadline = row.deadline
  BY DEF Row

LEMMA StagedRow ==
    ASSUME NEW row \in Row, NEW n
    PROVE  LET next == [row EXCEPT !.stage = "running", !.commit = n] IN
           /\ next.stage = "running"
           /\ next.held = row.held
           /\ next.attempts = row.attempts
           /\ next.commit = n
           /\ next.reporter = row.reporter
           /\ next.deadline = row.deadline
  BY DEF Row

\* The cases of a step, with the fields that the properties look at.
LEMMA Cases ==
    ASSUME NEW row, NEW phases, RowInv(row, phases), NEW next, RowStep(row, next)
    PROVE
      \/ next = row
      \/ next = Older(row)
      \/ /\ row.stage = "unsubmitted" /\ next.stage = "queued"
         /\ next.attempts = 0 /\ next.commit = 0 /\ next.reporter = 0
      \/ /\ row.stage \in Active \cup {"queued"} /\ next.stage \in Terminal
         /\ next.attempts = row.attempts /\ next.commit = row.commit
         /\ next.deadline = row.deadline /\ next.reporter = 0
         /\ row.held # 0 /\ row.lease > 0 => next.stage \in {"cancelled", "failed"}
      \/ /\ row.stage \in Active \cup {"queued"} /\ next.stage \in Active
         /\ row.attempts < MaxAttempts /\ next.attempts = row.attempts + 1
         /\ next.commit = row.commit
         /\ next.deadline = row.deadline /\ next.reporter = 0
         /\ ~(row.held # 0 /\ row.lease > 0)
      \/ /\ row.stage \in Active /\ next.stage \in Active
         /\ next.attempts = row.attempts /\ next.held = row.held
         /\ next.deadline = row.deadline /\ next.reporter = 0
         /\ \/ next.commit = row.commit
            \/ next.commit = row.attempts /\ row.lease > 0 /\ row.deadline > 0
      \/ /\ row.stage \in Active /\ next.stage \in Terminal
         /\ next.attempts = row.attempts /\ next.commit = row.commit
         /\ next.deadline = row.deadline
         /\ next.reporter = row.attempts /\ next.reporter = row.held
  <1>0. row \in Row
    BY DEF RowInv
  <1>1. CASE next = row \/ next = Older(row)
    BY <1>1
  <1>2. ASSUME NEW kind, row.stage = "unsubmitted", next = NewRow("queued", kind)
        PROVE  /\ next.stage = "queued" /\ next.attempts = 0
               /\ next.commit = 0 /\ next.reporter = 0
    BY <1>2, NewRowFields
  <1>3. ASSUME NEW stage \in {"cancelled", "failed"}, StoppedBy(row, next, stage)
        PROVE  /\ row.stage \in Active \cup {"queued"} /\ next.stage \in Terminal
               /\ next.attempts = row.attempts /\ next.commit = row.commit
               /\ next.deadline = row.deadline /\ next.reporter = 0
               /\ next.stage \in {"cancelled", "failed"}
    <2>1. stage \in Terminal
      BY DEF Terminal
    <2>2. row.stage \in Active \cup {"queued"} /\ next = Ended(row, stage)
      BY <1>3 DEF StoppedBy
    <2>3. row.reporter = 0
      BY <2>2, StageFacts DEF RowInv
    <2> QED BY <1>0, <2>1, <2>2, <2>3, EndedRow
  <1>4. ASSUME SweptAway(row, next)
        PROVE  /\ row.stage \in Active /\ next.stage \in Terminal
               /\ next.attempts = row.attempts /\ next.commit = row.commit
               /\ next.deadline = row.deadline /\ next.reporter = 0
               /\ ~(row.held # 0 /\ row.lease > 0)
    <2>1. "infra_failed" \in Terminal
      BY DEF Terminal
    <2>2. row.stage \in Active /\ next = Ended(row, "infra_failed")
      BY <1>4 DEF SweptAway, MissedDeadline, LeaseExpired
    <2>3. row.reporter = 0
      BY <2>2, StageFacts DEF RowInv
    <2>4. row.lease \in -1 .. LeaseTime /\ row.deadline \in -(Grace + 1) .. DeadlineTime
      BY <1>0 DEF Row
    <2>5. row.lease < 0 \/ row.deadline < -Grace
      BY <1>4 DEF SweptAway, MissedDeadline, LeaseExpired
    <2>6. ~(row.held # 0 /\ row.lease > 0)
      BY <2>4, <2>5 DEF RowInv
    <2> QED BY <1>0, <2>1, <2>2, <2>3, <2>6, EndedRow
  <1>5. ASSUME NEW kind, Claimable(row, kind), next = Claimed(row)
        PROVE  /\ row.stage \in Active \cup {"queued"} /\ next.stage \in Active
               /\ row.attempts < MaxAttempts /\ next.attempts = row.attempts + 1
               /\ next.commit = row.commit
               /\ next.deadline = row.deadline /\ next.reporter = 0
               /\ ~(row.held # 0 /\ row.lease > 0)
    <2>1. row.stage \in Active \cup {"queued"}
      BY <1>5 DEF Claimable, LeaseExpired
    <2>2. row.reporter = 0
      BY <2>1, StageFacts DEF RowInv
    <2>3. row.attempts < MaxAttempts
      BY <1>5 DEF Claimable, RowInv
    <2>4. row.lease \in -1 .. LeaseTime
      BY <1>0 DEF Row
    <2>5. ~(row.held # 0 /\ row.lease > 0)
      BY <1>5, <2>4, StageFacts DEF Claimable, LeaseExpired, RowInv
    <2> QED BY <1>0, <1>5, <2>1, <2>2, <2>3, <2>5, ClaimedRow, StageFacts
  <1>6. ASSUME row.stage \in Active, next = [row EXCEPT !.lease = FreshLease(row)]
        PROVE  /\ next.stage \in Active
               /\ next.attempts = row.attempts /\ next.held = row.held
               /\ next.deadline = row.deadline /\ next.reporter = 0
               /\ next.commit = row.commit
    <2>1. row.reporter = 0
      BY <1>6, StageFacts DEF RowInv
    <2> QED BY <1>0, <1>6, <2>1, LeaseOnly
  <1>7. ASSUME NEW n \in Attempts, Staged(row, next, n)
        PROVE  /\ row.stage \in Active /\ next.stage \in Active
               /\ next.attempts = row.attempts /\ next.held = row.held
               /\ next.deadline = row.deadline /\ next.reporter = 0
               /\ next.commit = row.attempts /\ row.lease > 0 /\ row.deadline > 0
    <2>1. row.stage \in Active /\ n = row.attempts
      BY <1>7, StageFacts DEF Staged, RowInv
    <2>2. row.reporter = 0
      BY <2>1, StageFacts DEF RowInv
    <2> QED BY <1>0, <1>7, <2>1, <2>2, StagedRow, StageFacts DEF Staged
  <1>8. ASSUME NEW n \in Attempts, ReportedBy(row, next, n)
        PROVE  /\ row.stage \in Active /\ next.stage \in Terminal
               /\ next.attempts = row.attempts /\ next.commit = row.commit
               /\ next.deadline = row.deadline
               /\ next.reporter = row.attempts /\ next.reporter = row.held
    <2>1. PICK status \in Terminal, S \in SUBSET Benchmarks : next = Reported(row, n, status, S)
      BY <1>8 DEF ReportedBy
    <2>2. row.stage \in Active /\ n = row.held /\ n = row.attempts
      BY <1>8 DEF ReportedBy, RowInv
    <2> QED BY <1>0, <2>1, <2>2, ReportedRow
  <1> QED
    BY <1>1, <1>2, <1>3, <1>4, <1>5, <1>6, <1>7, <1>8 DEF RowStep

LEMMA EachRow ==
    ASSUME HarnessInv, [Next]_vars, NEW r \in Run
    PROVE  /\ run[r] \in Row
           /\ RowInv(run[r], attempt[r])
           /\ RowStep(run[r], run'[r])
  BY ByRow, RowSteps DEF RunsInv

\* An ended run is never changed: no sweep, late claim, result or stop touches it.
THEOREM EndedStays == Spec => EndedRunKept
  <1>1. ASSUME HarnessInv, [Next]_vars, NEW r \in Run, run[r].stage \in Terminal
        PROVE  /\ [run'[r] EXCEPT !.deadline = 0] = [run[r] EXCEPT !.deadline = 0]
               /\ frames'[r] = frames[r]
    <2>1. run'[r] = run[r] \/ run'[r] = Older(run[r])
      BY <1>1, EachRow, Cases, StageFacts DEF Active, Terminal
    <2>2. run[r].lease = -1
      BY <1>1, EachRow, StageFacts DEF RowInv
    <2>3. [Older(run[r]) EXCEPT !.deadline = 0] = [run[r] EXCEPT !.deadline = 0]
      BY <1>1, <2>2, EachRow, OlderLeaseless
    <2>4. frames'[r] = frames[r]
      BY <1>1, FrameSteps DEF Terminal
    <2> QED BY <2>1, <2>3, <2>4
  <1>2. HarnessInv /\ [Next]_vars =>
          [\A r \in Run : run[r].stage \in Terminal =>
              /\ [run'[r] EXCEPT !.deadline = 0] = [run[r] EXCEPT !.deadline = 0]
              /\ frames'[r] = frames[r]]_vars
    BY <1>1
  <1> QED BY <1>2, InvAlways, PTL DEF Spec, EndedRunKept

\* The sweeps and the claims take no run from the holder of a live lease.
THEOREM LeaseHonoured == Spec => LiveLeaseHonoured
  <1>1. ASSUME HarnessInv, [Next]_vars, NEW r \in Run,
               run[r].held # 0, run[r].lease > 0, run'[r].held # run[r].held
        PROVE  run'[r].reporter = run[r].held \/ run'[r].stage \in {"cancelled", "failed"}
    <2>1. run[r].stage \in Active
      BY <1>1, EachRow DEF RowInv
    <2>2. Older(run[r]).held = run[r].held
      BY <1>1, EachRow, OlderRow
    <2> QED BY <1>1, <2>1, <2>2, EachRow, Cases, StageFacts
  <1>2. HarnessInv /\ [Next]_vars =>
          [\A r \in Run : run[r].held # 0 /\ run[r].lease > 0 /\ run'[r].held # run[r].held =>
              \/ run'[r].reporter = run[r].held
              \/ run'[r].stage \in {"cancelled", "failed"}]_vars
    BY <1>1
  <1> QED BY <1>2, InvAlways, PTL DEF Spec, LiveLeaseHonoured

\* All attempts of a run share the deadline set by its first claim.
THEOREM DeadlineOnlyNears == Spec => DeadlineShared
  <1>1. ASSUME HarnessInv, [Next]_vars, NEW r \in Run, run[r].attempts > 0
        PROVE  run'[r].deadline <= run[r].deadline
    <2>1. run[r].deadline <= run[r].deadline
      BY <1>1, EachRow DEF Row
    <2>2. Older(run[r]).deadline <= run[r].deadline
      BY <1>1, EachRow, OlderRow
    <2>3. run[r].stage # "unsubmitted"
      BY <1>1, EachRow DEF RowInv
    <2> QED BY <1>1, <2>1, <2>2, <2>3, EachRow, Cases
  <1>2. HarnessInv /\ [Next]_vars =>
          [\A r \in Run : run[r].attempts > 0 => run'[r].deadline <= run[r].deadline]_vars
    BY <1>1
  <1> QED BY <1>2, InvAlways, PTL DEF Spec, DeadlineShared

\* Only the latest attempt writes frames and the commit, under a live lease and before
\* the deadline.
THEOREM WritesAreFenced == Spec => WritesFenced
  <1>1. ASSUME HarnessInv, [Next]_vars, NEW r \in Run, NEW n \in Attempts,
               NEW s \in Seqs, frames[r][s] # n, frames'[r][s] = n
        PROVE  n = run[r].attempts /\ run[r].lease > 0 /\ run[r].deadline > 0
    <2>1. PICK m \in Attempts : Live(r, m) /\ frames'[r][s] \in {frames[r][s], m}
      BY <1>1, FrameSteps
    <2>2. n = m /\ m # 0
      BY <1>1, <2>1, Bounds
    <2> QED BY <1>1, <2>1, <2>2, EachRow DEF Live, Holds, RowInv
  <1>2. ASSUME HarnessInv, [Next]_vars, NEW r \in Run, NEW n \in Attempts,
               run[r].commit # n, run'[r].commit = n
        PROVE  n = run[r].attempts /\ run[r].lease > 0 /\ run[r].deadline > 0
    <2>1. Older(run[r]).commit = run[r].commit
      BY <1>2, EachRow, OlderRow
    <2>2. n # 0
      BY Bounds
    <2> QED BY <1>2, <2>1, <2>2, EachRow, Cases
  <1>3. HarnessInv /\ [Next]_vars =>
          [\A r \in Run, n \in Attempts :
              \/ \E s \in Seqs : frames[r][s] # n /\ frames'[r][s] = n
              \/ run[r].commit # n /\ run'[r].commit = n
              => n = run[r].attempts /\ run[r].lease > 0 /\ run[r].deadline > 0]_vars
    BY <1>1, <1>2
  <1> QED BY <1>3, InvAlways, PTL DEF Spec, WritesFenced

----------------------------------------------------------------------------
(* The run queue is a queue of leased jobs *)

LEMMA JobStep ==
    ASSUME NEW row, NEW phases, RowInv(row, phases), NEW next, RowStep(row, next)
    PROVE  JobOf(next) = JobOf(row) \/ Jobs!Step(JobOf(row), JobOf(next))
  <1> USE StageFacts DEF Active, Terminal
  <1>0. row \in Row
    BY DEF RowInv
  <1>1. CASE next = row
    BY <1>1
  <1>2. CASE next = Older(row)
    BY <1>0, <1>2, OlderRow DEF JobOf
  <1>3. CASE /\ row.stage = "unsubmitted" /\ next.stage = "queued"
             /\ next.attempts = 0 /\ next.commit = 0 /\ next.reporter = 0
    <2>1. row.attempts = 0 /\ row.reporter = 0
      BY <1>3 DEF RowInv
    <2>2. Jobs!Enter(JobOf(row), JobOf(next))
      BY <1>3, <2>1 DEF JobOf, Jobs!Enter, Jobs!NewJob, Jobs!Waiting
    <2> QED BY <2>2 DEF Jobs!Step
  <1>4. CASE /\ row.stage \in Active \cup {"queued"} /\ next.stage \in Terminal
             /\ next.attempts = row.attempts /\ next.reporter = 0
    <2>1. Jobs!Finish(JobOf(row), JobOf(next))
      BY <1>4 DEF JobOf, Jobs!Finish, Jobs!EndedBy
    <2> QED BY <2>1 DEF Jobs!Step
  <1>5. CASE /\ row.stage \in Active \cup {"queued"} /\ next.stage \in Active
             /\ row.attempts < MaxAttempts /\ next.attempts = row.attempts + 1
             /\ next.reporter = 0
    <2>1. Jobs!Take(JobOf(row), JobOf(next))
      BY <1>5 DEF JobOf, Jobs!Take, Jobs!Held
    <2> QED BY <2>1 DEF Jobs!Step
  <1>6. CASE /\ row.stage \in Active /\ next.stage \in Active
             /\ next.attempts = row.attempts /\ next.reporter = 0
    BY <1>6 DEF JobOf, RowInv
  <1>7. CASE /\ row.stage \in Active /\ next.stage \in Terminal
             /\ next.attempts = row.attempts /\ next.reporter = row.attempts
    <2>1. Jobs!Finish(JobOf(row), JobOf(next))
      BY <1>7 DEF JobOf, Jobs!Finish, Jobs!EndedBy
    <2> QED BY <2>1 DEF Jobs!Step
  <1> QED BY <1>1, <1>2, <1>3, <1>4, <1>5, <1>6, <1>7, Cases

\* Every behaviour of the run queue is one of the abstract queue of leased jobs, whose
\* holder is the latest attempt and whose end is credited to the attempt that reported.
THEOREM RefinesLeasedJob == Spec => IsLeasedJob
  <1>1. Init => Jobs!Init
    <2> SUFFICES ASSUME Init PROVE jobs \in [Run -> {Jobs!NewJob, Jobs!Waiting(0)}]
      BY DEF Jobs!Init
    <2>1. ASSUME NEW r \in Run PROVE JobOf(run[r]) \in {Jobs!NewJob, Jobs!Waiting(0)}
      BY DEF Init, NewRow, JobOf, Jobs!NewJob, Jobs!Waiting
    <2> QED BY <2>1 DEF jobs
  <1>2. ASSUME HarnessInv, [Next]_vars, NEW r \in Run
        PROVE  JobOf(run'[r]) = JobOf(run[r]) \/ Jobs!Step(JobOf(run[r]), JobOf(run'[r]))
    BY <1>2, EachRow, JobStep
  <1>3. HarnessInv /\ [Next]_vars => [Jobs!Next]_jobs
    <2> SUFFICES ASSUME HarnessInv, [Next]_vars PROVE Jobs!Next
      OBVIOUS
    <2>1. \A r \in Run : jobs[r] = JobOf(run[r]) /\ jobs'[r] = JobOf(run'[r])
      BY DEF jobs, JobOf
    <2> QED BY <1>2, <2>1 DEF Jobs!Next
  <1> QED BY <1>1, <1>3, InvAlways, PTL DEF Spec, IsLeasedJob, Jobs!Spec
=============================================================================
