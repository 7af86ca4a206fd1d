---------------------------- MODULE HarnessQueue ----------------------------
(***************************************************************************)
(* The benchmark run queue of the Agentic Harness                          *)
(* (services/academy/src/harness.rs): students submit a run, controllers   *)
(* claim it under a lease, report its stage, frames and result, and lose   *)
(* it when they are silent.  Each statement commits by itself: a claim is  *)
(* three of them, and may be cut off after any.                            *)
(*                                                                         *)
(* A lease token is a fresh UUID issued with each increment of             *)
(* claim_attempts, so the attempt number stands for it, and 0 for null.    *)
(* A request made for an attempt may arrive at any later time and any      *)
(* number of times.                                                        *)
(*                                                                         *)
(* Time is kept as what remains until lease_expires_at and deadline_at, in *)
(* units of the grace period: > 0 is before, 0 is at and < 0 is after it.  *)
(***************************************************************************)
EXTENDS Integers, FiniteSets

CONSTANTS
    Run,            \* rows of harness_runs
    TeamOf,         \* the team that submits a run
    Poller,         \* claim requests that may be open at a time
    Serves,         \* the benchmark kind a claim request asks for
    MaxAttempts,    \* 3 in the code
    LeaseTime,      \* 90 seconds
    Grace,          \* 30 seconds
    DeadlineTime,   \* RUN_DEADLINE_SECONDS, 9 hours
    MaxSeq          \* bound: highest frame number of a game

Kinds == {"arc", "frontier", "bundled"}
Benchmarks == {"arc", "frontier", "ram"}

ASSUME HarnessAssumption ==
    /\ Serves \in [Poller -> Kinds]
    /\ MaxAttempts \in Nat \ {0}
    /\ LeaseTime \in Nat \ {0}
    /\ Grace \in Nat
    /\ DeadlineTime \in Nat \ {0}
    /\ MaxSeq \in Nat

VARIABLES
    run,            \* harness_runs rows
    frames,         \* harness_arc_frames: the attempt that inserted each seq, 0 for none
    claim,          \* how far each claim request has come
    attempt         \* how far the controller of each attempt has come

vars == <<run, frames, claim, attempt>>

----------------------------------------------------------------------------
Attempts == 1 .. MaxAttempts
Seqs == 0 .. MaxSeq

Active == {"preparing", "running"}
Terminal == {"done", "partial", "failed", "infra_failed", "cancelled"}

Row ==
    [stage : {"unsubmitted", "queued"} \cup Active \cup Terminal,
     kind : Kinds,
     attempts : 0 .. MaxAttempts,           \* claim_attempts
     held : 0 .. MaxAttempts,               \* lease_token
     lease : -1 .. LeaseTime,               \* until lease_expires_at; -1 also when null
     deadline : -(Grace + 1) .. DeadlineTime,  \* until deadline_at; all of it when null
     commit : 0 .. MaxAttempts,             \* the attempt that recorded commit_sha
     reporter : 0 .. MaxAttempts,           \* result_lease_token
     scores : SUBSET Benchmarks]            \* score columns that are not null

TypeOK ==
    /\ run \in [Run -> Row]
    /\ frames \in [Run -> [Seqs -> 0 .. MaxAttempts]]
    /\ claim \in [Poller -> {"idle", "swept_deadlines", "swept_leases"}]
    /\ attempt \in [Run -> [Attempts -> {"none", "checkout", "playing", "refused"}]]

NewRow(stage, kind) ==
    [stage |-> stage, kind |-> kind, attempts |-> 0, held |-> 0, lease |-> -1,
     deadline |-> DeadlineTime, commit |-> 0, reporter |-> 0, scores |-> {}]

\* Bundled runs are no longer submitted; some may be left in the queue.
Init ==
    /\ run \in [Run -> {NewRow("unsubmitted", "arc"), NewRow("queued", "bundled")}]
    /\ frames = [r \in Run |-> [s \in Seqs |-> 0]]
    /\ claim = [p \in Poller |-> "idle"]
    /\ attempt = [r \in Run |-> [n \in Attempts |-> "none"]]

----------------------------------------------------------------------------
(* Time *)

Least(a, b) == IF a <= b THEN a ELSE b

\* mutant: the lease is not cut at the end of the grace period
FreshLease_Whole(row) == LeaseTime

\* least(deadline_at + 30 s, now + 90 s)
FreshLease(row) == Least(row.deadline + Grace, LeaseTime)

Older(row) ==
    [row EXCEPT !.lease = IF @ >= 0 THEN @ - 1 ELSE @,
                !.deadline = IF row.attempts > 0 /\ @ > -(Grace + 1) THEN @ - 1 ELSE @]

Tick ==
    /\ \E r \in Run : Older(run[r]) # run[r]
    /\ run' = [r \in Run |-> Older(run[r])]
    /\ UNCHANGED <<frames, claim, attempt>>

----------------------------------------------------------------------------
(* Students and administrators *)

\* mutant: the token is not cleared
Ended_KeepsToken(row, stage) == [row EXCEPT !.stage = stage, !.lease = -1]

Ended(row, stage) == [row EXCEPT !.stage = stage, !.held = 0, !.lease = -1]

\* harness_submit: the check, and the unique index on active rows behind it.
Submit(r, kind) ==
    /\ run[r].stage = "unsubmitted"
    /\ \A q \in Run : TeamOf[q] = TeamOf[r] /\ run[q].kind \in {kind, "bundled"} =>
           run[q].stage \in Terminal \cup {"unsubmitted"}
    /\ run' = [run EXCEPT ![r] = NewRow("queued", kind)]
    /\ UNCHANGED <<frames, claim, attempt>>

\* harness_stop by a member of the team, admin_harness_run_fail by an administrator.
StopWith(r, stage) ==
    /\ run[r].stage \in Active \cup {"queued"}
    /\ run' = [run EXCEPT ![r] = Ended(@, stage)]
    /\ UNCHANGED <<frames, claim, attempt>>

Stop(r) == StopWith(r, "cancelled")
Fail(r) == StopWith(r, "failed")

----------------------------------------------------------------------------
(* Claiming: worker_harness_claim *)

\* mutant: the grace period of the result is forgotten
MissedDeadline_NoGrace(row) == row.stage \in Active /\ row.deadline < 0

\* mutant: the sweep does not look at the stage
MissedDeadline_AnyStage(row) == row.attempts > 0 /\ row.deadline < -Grace

\* mutant: a run that never got to its stage report is passed over
MissedDeadline_RunningOnly(row) == row.stage = "running" /\ row.deadline < -Grace

\* deadline_at < now() - 30 s
MissedDeadline(row) == row.stage \in Active /\ row.deadline < -Grace

LeaseExpired(row) == row.stage \in Active /\ row.lease < 0 /\ row.deadline > 0

\* Both sweeps look at the runs of every kind.
SweepDeadlines(p) ==
    /\ claim[p] = "idle"
    /\ run' = [r \in Run |-> IF MissedDeadline(run[r]) THEN Ended(run[r], "infra_failed")
                             ELSE run[r]]
    /\ claim' = [claim EXCEPT ![p] = "swept_deadlines"]
    /\ UNCHANGED <<frames, attempt>>

SweepLeases(p) ==
    /\ claim[p] = "swept_deadlines"
    /\ run' = [r \in Run |-> IF LeaseExpired(run[r]) /\ run[r].attempts >= MaxAttempts
                             THEN Ended(run[r], "infra_failed") ELSE run[r]]
    /\ claim' = [claim EXCEPT ![p] = "swept_leases"]
    /\ UNCHANGED <<frames, attempt>>

\* mutant: the attempts are not counted
Claimable_NoLimit(row, kind) ==
    /\ row.kind = kind
    /\ row.stage = "queued" \/ LeaseExpired(row)

Claimable(row, kind) ==
    /\ row.kind = kind
    /\ row.stage = "queued" \/ (LeaseExpired(row) /\ row.attempts < MaxAttempts)

Claimed(row) ==
    [row EXCEPT !.stage = "preparing", !.attempts = @ + 1, !.held = row.attempts + 1,
                !.lease = FreshLease(row)]

\* Rows locked by another claim are skipped, so the order of created_at is no promise.
ClaimRun(p, r) ==
    /\ claim[p] = "swept_leases"
    /\ Claimable(run[r], Serves[p])
    /\ run' = [run EXCEPT ![r] = Claimed(@)]
    /\ attempt' = [attempt EXCEPT ![r][run[r].attempts + 1] = "checkout"]
    /\ claim' = [claim EXCEPT ![p] = "idle"]
    /\ UNCHANGED frames

ClaimNothing(p) ==
    /\ claim[p] = "swept_leases"
    /\ \A r \in Run : ~Claimable(run[r], Serves[p])
    /\ claim' = [claim EXCEPT ![p] = "idle"]
    /\ UNCHANGED <<run, frames, attempt>>

\* A statement fails (503) or the request is cut off.
ClaimLost(p) ==
    /\ claim[p] # "idle"
    /\ claim' = [claim EXCEPT ![p] = "idle"]
    /\ UNCHANGED <<run, frames, attempt>>

----------------------------------------------------------------------------
(* Requests under a lease *)

\* mutant: any attempt of the run passes for the holder
Holds_AnyAttempt(r, n) == n <= run[r].attempts /\ run[r].held > 0 /\ run[r].lease > 0

\* mutant: the token is compared but not its expiry
Holds_Expired(r, n) == run[r].held = n

Holds(r, n) == run[r].held = n /\ run[r].lease > 0

Live(r, n) == Holds(r, n) /\ run[r].deadline > 0

\* worker_harness_heartbeat
Heartbeat(r, n) ==
    /\ Live(r, n)
    /\ run[r].stage \in Active
    /\ run' = [run EXCEPT ![r].lease = FreshLease(run[r])]
    /\ UNCHANGED <<frames, claim, attempt>>

\* worker_harness_stage: the checkout is done and its commit recorded.
ReportStage(r, n) ==
    /\ attempt[r][n] = "checkout"
    /\ Live(r, n)
    /\ run[r].stage = "preparing"
    /\ run' = [run EXCEPT ![r].stage = "running", ![r].commit = n]
    /\ attempt' = [attempt EXCEPT ![r][n] = "playing"]
    /\ UNCHANGED <<frames, claim>>

\* worker_harness_arc_frames: "on conflict do nothing".  The adapter of every
\* attempt counts its frames from 0 and may drop any.
PostFrames(r, n, first, last) ==
    /\ Live(r, n)
    /\ run[r].stage = "running"
    /\ frames' = [frames EXCEPT ![r] =
           [s \in Seqs |-> IF @[s] = 0 /\ s \in first .. last THEN n ELSE @[s]]]
    /\ UNCHANGED <<run, claim, attempt>>

\* The benchmarks a run of a kind is made of, and the adapter's terminal_status
\* once those in S are done and the others failed.
BenchmarksOf(kind) ==
    {"ram"} \cup (IF kind = "frontier" THEN {} ELSE {"arc"})
            \cup (IF kind = "arc" THEN {} ELSE {"frontier"})

TerminalStatus(kind, S, infra) ==
    IF S = BenchmarksOf(kind) THEN "done"
    ELSE IF S # {} THEN "partial"
    ELSE IF infra THEN "infra_failed" ELSE "failed"

\* worker_harness_result, the checks that answer 400.
ValidResult(status, S) ==
    /\ status = "done" => S = Benchmarks
    /\ status = "partial" => S # {}

\* The attempt n ends with the benchmarks in S done.  The columns are scored only
\* after the checkout was reported.
Finishes(r, n, S) ==
    /\ attempt[r][n] \in {"checkout", "playing"}
    /\ S \subseteq BenchmarksOf(run[r].kind)
    /\ S # {} => attempt[r][n] = "playing"

Reported(row, n, status, S) ==
    [Ended(row, status) EXCEPT !.reporter = n, !.scores = S]

Result(r, n, S, infra) ==
    LET status == TerminalStatus(run[r].kind, S, infra) IN
    /\ Finishes(r, n, S)
    /\ ValidResult(status, S)
    /\ Holds(r, n)
    /\ run[r].deadline > -Grace
    /\ run[r].stage \in Active
    /\ run' = [run EXCEPT ![r] = Reported(@, n, status, S)]
    /\ UNCHANGED <<frames, claim, attempt>>

\* post_run_result gives up on a 400: the controller goes on to other work.
ResultRefused(r, n, S, infra) ==
    /\ Finishes(r, n, S)
    /\ ~ValidResult(TerminalStatus(run[r].kind, S, infra), S)
    /\ attempt' = [attempt EXCEPT ![r][n] = "refused"]
    /\ UNCHANGED <<run, frames, claim>>

----------------------------------------------------------------------------
Next ==
    \/ Tick
    \/ \E r \in Run : \/ \E kind \in {"arc", "frontier"} : Submit(r, kind)
                      \/ Stop(r) \/ Fail(r)
    \/ \E p \in Poller : \/ SweepDeadlines(p) \/ SweepLeases(p)
                         \/ ClaimNothing(p) \/ ClaimLost(p)
                         \/ \E r \in Run : ClaimRun(p, r)
    \/ \E r \in Run, n \in Attempts :
           \/ Heartbeat(r, n) \/ ReportStage(r, n)
           \/ \E first, last \in Seqs : first <= last /\ PostFrames(r, n, first, last)
           \/ \E S \in SUBSET Benchmarks, infra \in BOOLEAN :
                  Result(r, n, S, infra) \/ ResultRefused(r, n, S, infra)

Spec == Init /\ [][Next]_vars

\* Time passes; a controller polls for each kind every two seconds, and of the claims
\* it makes some get through to their next statement.
Fairness ==
    /\ WF_vars(Tick)
    /\ \A p \in Poller :
          /\ WF_vars(SweepDeadlines(p))
          /\ SF_vars(SweepLeases(p))
          /\ SF_vars(ClaimNothing(p) \/ \E r \in Run : ClaimRun(p, r))

FairSpec == Spec /\ Fairness

----------------------------------------------------------------------------
(* Safety *)

\* Whoever reported a run is the last that was handed it, and the scores go with the
\* commit that same attempt checked out: the official export submits commit_sha of a
\* scored run, and an attempt that was replaced may have tested another commit.
ScoresOfCommit ==
    \A r \in Run :
        /\ run[r].reporter # 0 => run[r].reporter = run[r].attempts
        /\ run[r].scores # {} => run[r].commit = run[r].reporter

\* No lease outlives the result-only grace period, whatever claims and heartbeats
\* set it: so the deadline sweep, which looks at the deadline alone, never takes a run
\* from a controller whose result would still be accepted.
LeaseWithinGrace ==
    \A r \in Run : run[r].held # 0 /\ run[r].lease >= 0 => run[r].lease <= run[r].deadline + Grace

\* An active run has a holder, the latest attempt; no other run has a holder or a lease.
HeldWhileActive ==
    \A r \in Run :
        /\ run[r].stage \in Active <=> run[r].held # 0
        /\ run[r].held # 0 => run[r].held = run[r].attempts
        /\ run[r].held = 0 => run[r].lease = -1

----------------------------------------------------------------------------
(* What makes the invariants inductive *)

\* Only a run that ended has an outcome, and one that was not claimed has no history.
OutcomeAtEnd ==
    \A r \in Run :
        /\ run[r].stage \notin Terminal => run[r].reporter = 0 /\ run[r].scores = {}
        /\ run[r].stage \in {"unsubmitted", "queued"} => run[r].attempts = 0
        /\ run[r].stage \in Active => run[r].attempts > 0

\* Controllers exist for the attempts handed out; past its checkout, the latest one has
\* recorded the commit.
AttemptsKnown ==
    \A r \in Run, n \in Attempts :
        /\ n > run[r].attempts => attempt[r][n] = "none"
        /\ attempt[r][n] = "playing" /\ n = run[r].attempts => run[r].commit = n

HarnessInv ==
    /\ TypeOK
    /\ ScoresOfCommit
    /\ LeaseWithinGrace
    /\ HeldWhileActive
    /\ OutcomeAtEnd
    /\ AttemptsKnown

----------------------------------------------------------------------------
(* Action properties *)

\* A run that ended keeps its outcome, and so a repeated result is still recognised
\* by its token: no sweep, late claim, result or stop touches it (worker_harness_result).
EndedRunKept ==
    [][\A r \in Run : run[r].stage \in Terminal =>
          /\ [run'[r] EXCEPT !.deadline = 0] = [run[r] EXCEPT !.deadline = 0]
          /\ frames'[r] = frames[r]]_vars

\* A lease that has not run out is ended by its holder's result or by a person, never by
\* the sweeps or by another claim.
LiveLeaseHonoured ==
    [][\A r \in Run : run[r].held # 0 /\ run[r].lease > 0 /\ run'[r].held # run[r].held =>
          \/ run'[r].reporter = run[r].held
          \/ run'[r].stage \in {"cancelled", "failed"}]_vars

\* The deadline of a run is set by its first claim and only comes nearer: attempts
\* share the nine hours.
DeadlineShared ==
    [][\A r \in Run : run[r].attempts > 0 => run'[r].deadline <= run[r].deadline]_vars

\* Frames, the stage and its commit come from the latest attempt, while its lease is
\* live and before the hard deadline: a controller that lost its run cannot write.
WritesFenced ==
    [][\A r \in Run, n \in Attempts :
          \/ \E s \in Seqs : frames[r][s] # n /\ frames'[r][s] = n
          \/ run[r].commit # n /\ run'[r].commit = n
          => n = run[r].attempts /\ run[r].lease > 0 /\ run[r].deadline > 0]_vars

----------------------------------------------------------------------------
(* Refinement and liveness *)

\* The job that a row stands for.
JobOf(row) ==
    [phase |-> IF row.stage = "unsubmitted" THEN "new"
               ELSE IF row.stage = "queued" THEN "waiting"
               ELSE IF row.stage \in Active THEN "held" ELSE "ended",
     tries |-> row.attempts,
     by |-> row.reporter]

jobs == [r \in Run |-> JobOf(run[r])]

Jobs == INSTANCE LeasedJob WITH Job <- Run, MaxTries <- MaxAttempts, job <- jobs

\* The run queue is a queue of leased jobs: an ended run is credited to the attempt that
\* reported it, which is then the latest.
IsLeasedJob == Jobs!Spec

\* Every submitted run that some controller polls for ends, though controllers die and
\* claims are cut off: the team may submit again.
RunEnds ==
    \A r \in Run, p \in Poller :
        run[r].stage = "queued" /\ run[r].kind = Serves[p] ~> run[r].stage \in Terminal

----------------------------------------------------------------------------
(* What the documents promise and the code does not do *)

\* "Successfully completed benchmark scores appear even when the overall run is
\* partial": a result that a controller brings is not refused.
CompletedIsRecorded == \A r \in Run, n \in Attempts : attempt[r][n] # "refused"
=============================================================================
