------------------------- MODULE Submissions_proofs --------------------------
(* Theorems about Submissions, for any teams, controllers and archives.      *)
EXTENDS Submissions, TLAPS

USE SubmissionsAssumption DEF SubmissionsAssumption

----------------------------------------------------------------------------
(* The invariant, taken apart: of one row, of one job, of the store *)

\* A row of the table, with what SubmissionInv says of it when d is on the disk.
RowInv(t, row, d) ==
    /\ row \in Row
    /\ row.status = "validating" <=> row.lease # None
    /\ row.live => row.status = "validating"
    /\ row.status = "approved" => row.artifact # None
    /\ row.status \notin {"approved", "validating"} => row.artifact = None
    /\ row.generation <= Generations[t]
    /\ row.status # "none" => row.generation >= 1
    /\ row.status = "approved" =>
          row.artifact \in Contents[t][row.generation] /\ row.artifact \in d

Holding == {"approving", "committing", "uploading", "sending"}

JobInv(job, d) ==
    /\ job \in Job
    /\ job.at # "idle" =>
          /\ job.team \in Team /\ job.generation \in 1 .. Generations[job.team]
          /\ job.at \in Holding => job.archive \in Contents[job.team][job.generation] \ {None}
          /\ job.at = "committing" => job.archive \in d

RowsInv == sub \in [Team -> Row] /\ \A t \in Team : RowInv(t, sub[t], disk)
JobsInv == validator \in [Validator -> Job] /\ \A v \in Validator : JobInv(validator[v], disk)
StoreInv ==
    /\ disk \subseteq Archive /\ temp \subseteq Archive /\ storing \in temp \cup {None}
    /\ \A v \in Senders : Senders = {v} /\ storing = validator[v].archive

LEMMA Parts == SubmissionInv <=> RowsInv /\ JobsInv /\ StoreInv
  BY DEF SubmissionInv, TypeOK, JobsSound, ApprovedWasValidated, RowsInv, JobsInv, StoreInv,
         RowInv, JobInv, Holding

LEMMA Whole ==
    ASSUME RowsInv', JobsInv', StoreInv'
    PROVE  SubmissionInv'
  BY DEF SubmissionInv, TypeOK, JobsSound, ApprovedWasValidated, RowsInv, JobsInv, StoreInv,
         RowInv, JobInv, Holding

LEMMA RowsKept ==
    ASSUME RowsInv, UNCHANGED sub, disk \subseteq disk'
    PROVE  RowsInv'
  BY DEF RowsInv, RowInv

LEMMA RowSet ==
    ASSUME RowsInv, NEW t \in Team, NEW row, RowInv(t, row, disk),
           sub' = [sub EXCEPT ![t] = row], disk \subseteq disk'
    PROVE  RowsInv'
  <1>1. sub' \in [Team -> Row]
    BY DEF RowsInv, RowInv
  <1>2. ASSUME NEW u \in Team PROVE RowInv(u, sub'[u], disk')
    <2>1. RowInv(u, sub'[u], disk)
      BY DEF RowsInv
    <2> QED BY <2>1 DEF RowInv
  <1> QED BY <1>1, <1>2 DEF RowsInv

LEMMA JobsKept ==
    ASSUME JobsInv, UNCHANGED validator, disk \subseteq disk'
    PROVE  JobsInv'
  BY DEF JobsInv, JobInv

LEMMA JobSet ==
    ASSUME JobsInv, NEW v \in Validator, NEW job, JobInv(job, disk),
           validator' = [validator EXCEPT ![v] = job], disk \subseteq disk'
    PROVE  JobsInv'
  <1>1. validator' \in [Validator -> Job]
    BY DEF JobsInv, JobInv
  <1>2. ASSUME NEW u \in Validator PROVE JobInv(validator'[u], disk')
    <2>1. JobInv(validator'[u], disk)
      BY DEF JobsInv
    <2> QED BY <2>1 DEF JobInv
  <1> QED BY <1>1, <1>2 DEF JobsInv

\* A row without a lease and without an archive.
LEMMA ClearedFields ==
    ASSUME NEW row \in Row, NEW status \in Statuses
    PROVE  LET cleared == Cleared(row, status)
           IN  /\ cleared \in Row /\ cleared.status = status
               /\ cleared.generation = row.generation
               /\ cleared.lease = None /\ cleared.live = FALSE /\ cleared.artifact = None
  BY DEF Cleared, Row

LEMMA ClearedInv ==
    ASSUME NEW t \in Team, NEW row, RowInv(t, row, disk),
           NEW status \in Statuses \ {"validating", "approved"},
           status = "none" \/ row.generation >= 1
    PROVE  RowInv(t, Cleared(row, status), disk)
  BY DEF RowInv, Row, Cleared, Statuses

LEMMA RecoveredInv ==
    ASSUME NEW t \in Team, NEW row, RowInv(t, row, disk)
    PROVE  RowInv(t, Recovered(row), disk)
  <1>1. CASE row.status = "validating" /\ ~row.live
    BY <1>1, ClearedInv DEF Recovered, RowInv, Statuses
  <1>2. CASE ~(row.status = "validating" /\ ~row.live)
    BY <1>2 DEF Recovered
  <1> QED BY <1>1, <1>2

LEMMA NoJobInv == JobInv(NoJob, disk)
  BY DEF JobInv, NoJob, Job, Steps

\* A job that goes on with what it has, or is given up.
LEMMA GoToInv ==
    ASSUME JobsInv, NEW v \in Validator, NEW step \in Steps, GoTo(v, step),
           validator[v].at # "idle",
           step \in Holding => validator[v].at \in Holding,
           step = "committing" => validator[v].archive \in disk,
           disk \subseteq disk'
    PROVE  JobsInv'
  <1> DEFINE job == [validator[v] EXCEPT !.at = step]
  <1>1. validator' = [validator EXCEPT ![v] = job]
    BY DEF GoTo, JobsInv
  <1>2. JobInv(validator[v], disk)
    BY DEF JobsInv
  <1>3. JobInv(job, disk)
    BY <1>2 DEF JobInv, Job
  <1> QED BY <1>1, <1>3, JobSet

LEMMA GiveUpInv ==
    ASSUME JobsInv, NEW v \in Validator, GiveUp(v), disk \subseteq disk'
    PROVE  JobsInv'
  BY NoJobInv, JobSet DEF GiveUp

----------------------------------------------------------------------------
(* The store: who holds the permit *)

\* Nobody begins to send, and the store is as it was but for the disk.
LEMMA StoreKept ==
    ASSUME StoreInv, UNCHANGED <<temp, storing>>, disk \subseteq disk', disk' \subseteq Archive,
           \A v \in Validator : v \in Senders' =>
               v \in Senders /\ validator'[v].archive = validator[v].archive
    PROVE  StoreInv'
  <1>1. Senders' \subseteq Senders
    BY DEF Senders
  <1> QED BY <1>1 DEF StoreInv, Senders

\* Nobody is sending.
LEMMA StoreIdle ==
    ASSUME StoreInv, disk' \subseteq Archive, temp' \subseteq temp, storing' = None,
           \A v \in Validator : v \notin Senders'
    PROVE  StoreInv'
  <1>1. Senders' = {}
    BY DEF Senders
  <1> QED BY <1>1 DEF StoreInv

\* The steps of a controller that neither begin nor end an upload.
LEMMA StoreGoTo ==
    ASSUME JobsInv, StoreInv, NEW v \in Validator, NEW step \in Steps \ {"sending"},
           GoTo(v, step) \/ GiveUp(v), UNCHANGED <<disk, temp, storing>>
    PROVE  StoreInv'
  <1>1. ASSUME NEW u \in Validator, u \in Senders'
        PROVE  u \in Senders /\ validator'[u].archive = validator[u].archive
    <2>1. u # v
      BY <1>1 DEF Senders, GoTo, GiveUp, NoJob, JobsInv, Job
    <2> QED BY <1>1, <2>1 DEF Senders, GoTo, GiveUp, JobsInv
  <1>2. disk \subseteq disk' /\ disk' \subseteq Archive
    BY DEF StoreInv
  <1> QED BY <1>1, <1>2, StoreKept

LEMMA InitInv == Init => SubmissionInv
  <1> SUFFICES ASSUME Init PROVE RowsInv /\ JobsInv /\ StoreInv
    BY Parts
  <1>1. RowsInv
    BY DEF Init, RowsInv, RowInv, Row, Statuses
  <1>2. JobsInv
    BY NoJobInv DEF Init, JobsInv, JobInv
  <1>3. StoreInv
    BY DEF Init, StoreInv, Senders, NoJob
  <1> QED BY <1>1, <1>2, <1>3

----------------------------------------------------------------------------
(* One lemma per action *)

LEMMA KeptAcademy ==
    ASSUME SubmissionInv, UNCHANGED <<disk, temp, storing, validator>>, RowsInv'
    PROVE  SubmissionInv'
  <1>1. JobsInv'
    BY Parts, JobsKept
  <1>2. StoreInv'
    BY Parts DEF StoreInv, Senders
  <1> QED BY <1>1, <1>2, Whole

LEMMA SubmitInv ==
    ASSUME SubmissionInv, NEW t \in Team, Submit(t)
    PROVE  SubmissionInv'
  <1> DEFINE cleared == Cleared(sub[t], "pending")
             row == [cleared EXCEPT !.generation = sub[t].generation + 1]
  <1>1. RowsInv /\ sub[t] \in Row
    BY Parts DEF RowsInv
  <1>2. /\ cleared \in Row /\ cleared.status = "pending"
        /\ cleared.generation = sub[t].generation
        /\ cleared.lease = None /\ cleared.live = FALSE /\ cleared.artifact = None
    BY <1>1, ClearedFields DEF Statuses
  <1>3. sub' = [sub EXCEPT ![t] = row]
    BY <1>1 DEF Submit, RowsInv
  <1>4. sub[t].generation \in Nat /\ sub[t].generation < Generations[t]
    BY <1>1 DEF Submit, Row
  <1>5. RowInv(t, row, disk)
    <2> HIDE DEF cleared
    <2> QED BY <1>2, <1>4 DEF RowInv, Row
  <1>6. RowsInv'
    BY <1>1, <1>3, <1>5, RowSet DEF Submit
  <1> QED BY <1>6, KeptAcademy DEF Submit

LEMMA RejectInv ==
    ASSUME SubmissionInv, NEW t \in Team, Reject(t)
    PROVE  SubmissionInv'
  <1>1. RowsInv /\ RowInv(t, sub[t], disk)
    BY Parts DEF RowsInv
  <1>2. RowInv(t, Disabled(sub[t]), disk)
    BY <1>1, ClearedInv DEF Disabled, Reject, Statuses, RowInv
  <1>3. RowsInv'
    BY <1>1, <1>2, RowSet DEF Reject
  <1> QED BY <1>3, KeptAcademy DEF Reject

LEMMA LapseInv ==
    ASSUME SubmissionInv, NEW t \in Team, Lapse(t)
    PROVE  SubmissionInv'
  <1> DEFINE row == [sub[t] EXCEPT !.live = FALSE]
  <1>1. RowsInv /\ RowInv(t, sub[t], disk)
    BY Parts DEF RowsInv
  <1>2. RowInv(t, row, disk)
    BY <1>1 DEF RowInv, Row
  <1>3. sub' = [sub EXCEPT ![t] = row]
    BY <1>1 DEF Lapse, RowsInv
  <1>4. RowsInv'
    BY <1>1, <1>2, <1>3, RowSet DEF Lapse
  <1> QED BY <1>4, KeptAcademy DEF Lapse

LEMMA ClaimNothingInv ==
    ASSUME SubmissionInv, NEW v \in Validator, ClaimNothing(v)
    PROVE  SubmissionInv'
  <1>1. \A t \in Team : RowInv(t, Recovered(sub[t]), disk)
    BY Parts, RecoveredInv DEF RowsInv
  <1>2. RowsInv'
    BY <1>1 DEF ClaimNothing, RowsInv, RowInv
  <1> QED BY <1>2, KeptAcademy DEF ClaimNothing

LEMMA ClaimInv ==
    ASSUME SubmissionInv, NEW v \in Validator, NEW t \in Team, Claim(v, t)
    PROVE  SubmissionInv'
  <1> DEFINE row == [Recovered(sub[t]) EXCEPT !.status = "validating", !.lease = v,
                                              !.live = TRUE, !.artifact = None]
             job == [NoJob EXCEPT !.at = "validating", !.team = t, !.generation = sub[t].generation]
  <1>1. \A u \in Team : RowInv(u, Recovered(sub[u]), disk)
    BY Parts, RecoveredInv DEF RowsInv
  <1>2. Recovered(sub[t]).generation = sub[t].generation
    BY Parts DEF Recovered, Cleared, RowsInv, Row
  <1>3. RowInv(t, row, disk)
    BY <1>1 DEF RowInv, Row, Statuses, Claim
  <1>4. RowsInv'
    BY <1>1, <1>3 DEF Claim, RowsInv, RowInv
  <1>5. sub[t].generation \in 1 .. Generations[t]
    BY <1>1, <1>2 DEF RowInv, Row, Claim
  <1>6. JobInv(job, disk)
    <2>1. NoJob \in Job
      BY DEF NoJob, Job, Steps
    <2>2. sub[t].generation \in Nat /\ "validating" \in Steps /\ "validating" \notin Holding
      BY <1>5 DEF Steps, Holding
    <2>3. /\ job \in Job /\ job.at = "validating"
          /\ job.team = t /\ job.generation = sub[t].generation
      BY <2>1, <2>2 DEF Job
    <2> HIDE DEF job
    <2> QED BY <1>5, <2>2, <2>3 DEF JobInv
  <1>7. JobsInv'
    BY <1>6, Parts, JobSet DEF Claim
  <1>8. \A u \in Validator : u \in Senders' =>
            u \in Senders /\ validator'[u].archive = validator[u].archive
    BY Parts DEF Senders, Claim, NoJob, JobsInv
  <1>9. StoreInv'
    BY <1>8, Parts, StoreKept DEF Claim, StoreInv
  <1> QED BY <1>4, <1>7, <1>9, Whole

LEMMA HeartbeatFailsInv ==
    ASSUME SubmissionInv, NEW v \in Validator, HeartbeatFails(v)
    PROVE  SubmissionInv'
  <1>1. PICK why \in {"outage", "refused"} : validator' = [validator EXCEPT ![v].lost = why]
    BY DEF HeartbeatFails
  <1> DEFINE job == [validator[v] EXCEPT !.lost = why]
  <1>2. JobInv(validator[v], disk) /\ JobsInv
    BY Parts DEF JobsInv
  <1>3. JobInv(job, disk)
    BY <1>2 DEF JobInv, Job
  <1>4. validator' = [validator EXCEPT ![v] = job]
    BY <1>1, <1>2 DEF JobsInv
  <1>5. RowsInv' /\ JobsInv'
    BY <1>2, <1>3, <1>4, Parts, JobSet, RowsKept DEF HeartbeatFails, academy
  <1>6. \A u \in Validator : u \in Senders' =>
            u \in Senders /\ validator'[u].archive = validator[u].archive
    BY <1>2, <1>4 DEF Senders, JobsInv, Job
  <1>7. StoreInv'
    BY <1>6, Parts, StoreKept DEF HeartbeatFails, academy, StoreInv
  <1> QED BY <1>5, <1>7, Whole

\* The steps of a controller that leave the rows, the disk and the uploads.
LEMMA MovesInv ==
    ASSUME SubmissionInv, NEW v \in Validator, NEW step \in Steps \ {"sending"},
           GoTo(v, step) \/ GiveUp(v), UNCHANGED <<disk, temp, storing>>, RowsInv',
           validator[v].at # "idle", step \in Holding => validator[v].at \in Holding,
           step = "committing" => validator[v].archive \in disk
    PROVE  SubmissionInv'
  <1>1. JobsInv'
    BY Parts, GoToInv, GiveUpInv
  <1>2. StoreInv'
    BY Parts, StoreGoTo
  <1> QED BY <1>1, <1>2, Whole

LEMMA BuildFailsInv ==
    ASSUME SubmissionInv, NEW v \in Validator, BuildFails(v)
    PROVE  SubmissionInv'
  <1>1. RowsInv'
    BY Parts, RowsKept DEF BuildFails, academy
  <1> QED BY <1>1, MovesInv DEF BuildFails, academy, Steps, Holding

LEMMA OutageInv ==
    ASSUME SubmissionInv, NEW v \in Validator, Outage(v)
    PROVE  SubmissionInv'
  <1>1. RowsInv'
    BY Parts, RowsKept DEF Outage, academy
  <1> QED BY <1>1, MovesInv DEF Outage, academy, Steps, Holding

LEMMA CheckApprovalInv ==
    ASSUME SubmissionInv, NEW v \in Validator, CheckApproval(v)
    PROVE  SubmissionInv'
  <1>1. RowsInv'
    BY Parts, RowsKept DEF CheckApproval, academy
  <1>2. CASE GoTo(v, "reporting")
    BY <1>1, <1>2, MovesInv DEF CheckApproval, academy, Steps, Holding
  <1>3. CASE GoTo(v, "uploading")
    BY <1>1, <1>3, MovesInv DEF CheckApproval, academy, Steps, Holding
  <1>4. CASE validator[v].archive \in disk /\ GoTo(v, "committing")
    BY <1>1, <1>4, MovesInv DEF CheckApproval, academy, Steps, Holding
  <1> QED BY <1>2, <1>3, <1>4 DEF CheckApproval

LEMMA BuildInv ==
    ASSUME SubmissionInv, NEW v \in Validator, Build(v)
    PROVE  SubmissionInv'
  <1>1. PICK a \in Contents[validator[v].team][validator[v].generation] \ {None} :
            /\ \/ validator[v].lost = "no"
                  /\ validator' = [validator EXCEPT ![v].at = "approving", ![v].archive = a]
               \/ validator[v].lost = "outage" /\ GiveUp(v)
               \/ validator[v].lost = "refused" /\ GoTo(v, "reporting")
            /\ disk' \in {disk, disk \cup {a}}
    BY DEF Build
  <1>2. JobsInv /\ JobInv(validator[v], disk) /\ RowsInv /\ StoreInv
    BY Parts DEF JobsInv
  <1>3. validator[v].at = "validating" /\ UNCHANGED <<sub, temp, storing>>
    BY DEF Build
  <1>4. a \in Archive
    BY <1>1, <1>2, <1>3 DEF JobInv
  <1>5. disk \subseteq disk' /\ disk' \subseteq Archive
    BY <1>1, <1>2, <1>4 DEF StoreInv
  <1>6. RowsInv'
    BY <1>2, <1>3, <1>5, RowsKept
  <1>7. CASE validator' = [validator EXCEPT ![v].at = "approving", ![v].archive = a]
    <2> DEFINE job == [validator[v] EXCEPT !.at = "approving", !.archive = a]
    <2>1. validator' = [validator EXCEPT ![v] = job]
      BY <1>2, <1>7 DEF JobsInv
    <2>2. JobInv(job, disk)
      BY <1>1, <1>2, <1>3, <1>4 DEF JobInv, Job, Steps, Holding
    <2>3. JobsInv'
      BY <1>2, <1>5, <2>1, <2>2, JobSet
    <2>4. \A u \in Validator : u \in Senders' =>
              u \in Senders /\ validator'[u].archive = validator[u].archive
      BY <1>2, <2>1 DEF Senders, JobsInv, Job
    <2>5. StoreInv'
      BY <1>2, <1>3, <1>5, <2>4, StoreKept
    <2> QED BY <1>6, <2>3, <2>5, Whole
  <1>8. CASE GiveUp(v) \/ GoTo(v, "reporting")
    <2>1. "reporting" \in Steps /\ "reporting" \notin Holding
      BY DEF Steps, Holding
    <2>2. JobsInv'
      BY <1>2, <1>3, <1>5, <1>8, <2>1, GoToInv, GiveUpInv
    <2>3. \A u \in Validator : u \in Senders' =>
              u \in Senders /\ validator'[u].archive = validator[u].archive
      BY <1>2, <1>8 DEF Senders, JobsInv, Job, GoTo, GiveUp, NoJob
    <2>4. StoreInv'
      BY <1>2, <1>3, <1>5, <2>3, StoreKept
    <2> QED BY <1>6, <2>2, <2>4, Whole
  <1> QED BY <1>1, <1>7, <1>8

LEMMA CommitApprovalInv ==
    ASSUME SubmissionInv, NEW v \in Validator, CommitApproval(v)
    PROVE  SubmissionInv'
  <1> DEFINE t == validator[v].team
             cleared == Cleared(sub[t], "approved")
             row == [cleared EXCEPT !.artifact = validator[v].archive]
  <1>1. RowsInv /\ JobsInv /\ JobInv(validator[v], disk)
    BY Parts DEF JobsInv
  <1>2. validator[v].at = "committing" /\ UNCHANGED <<disk, temp, storing>>
    BY DEF CommitApproval
  <1>3. t \in Team /\ RowInv(t, sub[t], disk)
    BY <1>1, <1>2 DEF JobInv, RowsInv
  <1>4. CASE SameLease(v) /\ Reserved(v)
    <2>1. sub' = [sub EXCEPT ![t] = row] /\ GiveUp(v)
      BY <1>4 DEF CommitApproval
    <2>2. /\ cleared \in Row /\ cleared.status = "approved"
          /\ cleared.generation = sub[t].generation
          /\ cleared.lease = None /\ cleared.live = FALSE
      BY <1>3, ClearedFields DEF Statuses, RowInv
    <2>3. sub[t].generation = validator[v].generation /\ sub[t].status = "validating"
      BY <1>4 DEF SameLease
    <2>4. /\ validator[v].archive \in Contents[t][sub[t].generation] \ {None}
          /\ validator[v].archive \in disk /\ validator[v].archive \in Archive \cup {None}
      BY <1>1, <1>2, <2>3 DEF JobInv, Holding, Job
    <2>5. RowInv(t, row, disk)
      <3> HIDE DEF cleared
      <3> QED BY <1>3, <2>2, <2>3, <2>4 DEF RowInv, Row
    <2>6. RowsInv'
      BY <1>1, <1>2, <1>3, <2>1, <2>5, RowSet
    <2> QED BY <1>2, <2>1, <2>6, MovesInv DEF Steps, Holding
  <1>5. CASE ~(SameLease(v) /\ Reserved(v))
    <2>1. GoTo(v, "reporting") /\ RowsInv'
      BY <1>1, <1>2, <1>5, RowsKept DEF CommitApproval
    <2> QED BY <1>2, <2>1, MovesInv DEF Steps, Holding
  <1> QED BY <1>4, <1>5

LEMMA ReportInv ==
    ASSUME SubmissionInv, NEW v \in Validator, Report(v)
    PROVE  SubmissionInv'
  <1> DEFINE t == validator[v].team
  <1>1. RowsInv /\ JobsInv /\ JobInv(validator[v], disk)
    BY Parts DEF JobsInv
  <1>2. validator[v].at = "reporting" /\ UNCHANGED <<disk, temp, storing>> /\ GiveUp(v)
    BY DEF Report
  <1>3. t \in Team /\ RowInv(t, sub[t], disk)
    BY <1>1, <1>2 DEF JobInv, RowsInv
  <1>4. CASE Holds(v)
    <2>1. RowInv(t, Cleared(sub[t], "failed"), disk)
      BY <1>3, <1>4, ClearedInv DEF Holds, SameLease, RowInv, Statuses
    <2>2. sub' = [sub EXCEPT ![t] = Cleared(sub[t], "failed")]
      BY <1>4 DEF Report
    <2>3. RowsInv'
      BY <1>1, <1>2, <1>3, <2>1, <2>2, RowSet
    <2> QED BY <1>2, <2>3, MovesInv DEF Steps, Holding
  <1>5. CASE ~Holds(v)
    <2>1. RowsInv'
      BY <1>1, <1>2, <1>5, RowsKept DEF Report
    <2> QED BY <1>2, <2>1, MovesInv DEF Steps, Holding
  <1> QED BY <1>4, <1>5

LEMMA UploadInv ==
    ASSUME SubmissionInv, NEW v \in Validator, Upload(v)
    PROVE  SubmissionInv'
  <1> DEFINE t == validator[v].team
             a == validator[v].archive
             row == [sub[t] EXCEPT !.artifact = a]
             open == Holds(v) /\ Reserved(v) /\ storing = None /\ a \notin temp
  <1>1. RowsInv /\ JobsInv /\ StoreInv /\ JobInv(validator[v], disk)
    BY Parts DEF JobsInv
  <1>2. validator[v].at = "uploading" /\ UNCHANGED disk
    BY DEF Upload
  <1>3. t \in Team /\ RowInv(t, sub[t], disk)
    BY <1>1, <1>2 DEF JobInv, RowsInv
  <1>4. a \in Archive
    BY <1>1, <1>2, <1>3 DEF JobInv, Holding
  <1>5. RowsInv'
    <2>1. CASE Holds(v) /\ Reserved(v)
      <3>1. RowInv(t, row, disk)
        BY <1>3, <1>4, <2>1 DEF RowInv, Row, Holds, SameLease
      <3>2. sub' = [sub EXCEPT ![t] = row]
        BY <1>1, <2>1 DEF Upload, RowsInv
      <3> QED BY <1>1, <1>2, <1>3, <3>1, <3>2, RowSet
    <2>2. CASE ~(Holds(v) /\ Reserved(v))
      BY <1>1, <1>2, <2>2, RowsKept DEF Upload
    <2> QED BY <2>1, <2>2
  <1>6. CASE open
    <2>1. GoTo(v, "sending") /\ temp' = temp \cup {a} /\ storing' = a
      BY <1>6 DEF Upload
    <2>2. JobsInv'
      BY <1>1, <1>2, <2>1, GoToInv DEF Steps, Holding
    <2>3. Senders = {}
      BY <1>1, <1>4, <1>6 DEF StoreInv, Senders, JobsInv, Job, JobInv, Holding
    <2>4. Senders' = {v} /\ validator'[v].archive = a
      BY <1>1, <2>1, <2>3 DEF Senders, GoTo, JobsInv, Job
    <2>5. StoreInv'
      BY <1>1, <1>2, <1>4, <2>1, <2>4 DEF StoreInv
    <2> QED BY <1>5, <2>2, <2>5, Whole
  <1>7. CASE ~open
    <2>1. GoTo(v, "reporting") /\ storing' = storing
      BY <1>7 DEF Upload
    <2>2. JobsInv'
      BY <1>1, <1>2, <2>1, GoToInv DEF Steps, Holding
    <2>3. /\ Senders' \subseteq Senders
          /\ \A u \in Senders' : validator'[u].archive = validator[u].archive
      BY <1>1, <2>1 DEF Senders, GoTo, JobsInv, Job
    <2>4. temp' = temp \/ (storing = None /\ temp' = temp \ {a})
      BY <1>7 DEF Upload
    <2>5. temp' \subseteq Archive /\ storing' \in temp' \cup {None}
      BY <1>1, <2>1, <2>4 DEF StoreInv
    <2>6. StoreInv'
      BY <1>1, <1>2, <2>1, <2>3, <2>5 DEF StoreInv
    <2> QED BY <1>5, <2>2, <2>6, Whole
  <1> QED BY <1>6, <1>7

----------------------------------------------------------------------------
(* The ends of an upload *)

\* Several controllers at once go on with what they have or are given up.
LEMMA JobsMoved ==
    ASSUME JobsInv, disk \subseteq disk', DOMAIN validator' = Validator,
           validator' = [v \in Validator |-> validator'[v]],
           \A v \in Validator : JobInv(validator'[v], disk)
    PROVE  JobsInv'
  BY DEF JobsInv, JobInv

\* A sender that is told how its upload ended.
LEMMA SenderInv ==
    ASSUME JobsInv, NEW v \in Senders
    PROVE  /\ JobInv([validator[v] EXCEPT !.at = "approving", !.uploaded = TRUE], disk)
           /\ JobInv([validator[v] EXCEPT !.at = "reporting"], disk)
  <1>1. validator[v].at = "sending" /\ JobInv(validator[v], disk)
    BY DEF Senders, JobsInv
  <1> QED BY <1>1 DEF JobInv, Job, Steps, Holding

LEMMA StoredInv ==
    ASSUME SubmissionInv, Stored
    PROVE  SubmissionInv'
  <1>1. RowsInv /\ JobsInv /\ StoreInv
    BY Parts
  <1>2. disk \subseteq disk' /\ disk' \subseteq Archive
    BY <1>1 DEF Stored, StoreInv
  <1>3. RowsInv'
    BY <1>1, <1>2, RowsKept DEF Stored
  <1>4. ASSUME NEW v \in Validator
        PROVE  JobInv(validator'[v], disk) /\ validator'[v].at # "sending"
    <2>1. CASE v \notin Senders
      <3>1. validator'[v] = validator[v]
        BY <2>1 DEF Stored
      <3> QED BY <1>1, <2>1, <3>1 DEF JobsInv, Senders
    <2>2. CASE v \in Senders
      <3>1. validator'[v] \in {[validator[v] EXCEPT !.at = "approving", !.uploaded = TRUE],
                               [validator[v] EXCEPT !.at = "reporting"], NoJob}
        BY <2>2 DEF Stored
      <3>2. validator[v] \in Job
        BY <1>1 DEF JobsInv
      <3>3. JobInv(validator'[v], disk)
        BY <1>1, <2>2, <3>1, SenderInv, NoJobInv
      <3>4. /\ [validator[v] EXCEPT !.at = "approving", !.uploaded = TRUE].at = "approving"
            /\ [validator[v] EXCEPT !.at = "reporting"].at = "reporting" /\ NoJob.at = "idle"
        BY <3>2 DEF NoJob, Job
      <3>5. validator'[v].at # "sending"
        BY <3>1, <3>4
      <3> QED BY <3>3, <3>5
    <2> QED BY <2>1, <2>2
  <1>5. JobsInv'
    BY <1>1, <1>2, <1>4, JobsMoved DEF Stored
  <1>6. StoreInv'
    BY <1>1, <1>2, <1>4, StoreIdle DEF Stored, Senders
  <1> QED BY <1>3, <1>5, <1>6, Whole

LEMMA UploadTimesOutInv ==
    ASSUME SubmissionInv, UploadTimesOut
    PROVE  SubmissionInv'
  <1>1. RowsInv /\ JobsInv /\ StoreInv
    BY Parts
  <1>2. disk \subseteq disk' /\ disk' \subseteq Archive
    BY <1>1 DEF UploadTimesOut, StoreInv
  <1>3. RowsInv'
    BY <1>1, <1>2, RowsKept DEF UploadTimesOut
  <1>4. ASSUME NEW v \in Validator
        PROVE  JobInv(validator'[v], disk) /\ validator'[v].at # "sending"
    <2>1. CASE v \notin Senders
      <3>1. validator'[v] = validator[v]
        BY <2>1 DEF UploadTimesOut
      <3> QED BY <1>1, <2>1, <3>1 DEF JobsInv, Senders
    <2>2. CASE v \in Senders
      <3>1. validator'[v] = [validator[v] EXCEPT !.at = "reporting"] /\ validator[v] \in Job
        BY <1>1, <2>2 DEF UploadTimesOut, JobsInv
      <3> QED BY <1>1, <2>2, <3>1, SenderInv DEF Job
    <2> QED BY <2>1, <2>2
  <1>5. JobsInv'
    BY <1>1, <1>2, <1>4, JobsMoved DEF UploadTimesOut
  <1>6. StoreInv'
    BY <1>1, <1>2, <1>4, StoreIdle DEF UploadTimesOut, Senders
  <1> QED BY <1>3, <1>5, <1>6, Whole

LEMMA RestartInv ==
    ASSUME SubmissionInv, Restart
    PROVE  SubmissionInv'
  <1>1. RowsInv /\ JobsInv /\ StoreInv
    BY Parts
  <1>2. disk \subseteq disk' /\ disk' \subseteq Archive
    BY <1>1 DEF Restart, StoreInv
  <1>3. RowsInv'
    BY <1>1, <1>2, RowsKept DEF Restart
  <1>4. ASSUME NEW v \in Validator
        PROVE  JobInv(validator'[v], disk) /\ validator'[v].at # "sending"
    <2>1. CASE validator[v].at \in {"committing", "sending"}
      <3>1. validator'[v] = NoJob
        BY <2>1 DEF Restart
      <3> QED BY <3>1, NoJobInv DEF NoJob
    <2>2. CASE validator[v].at \notin {"committing", "sending"}
      <3>1. validator'[v] = validator[v]
        BY <2>2 DEF Restart
      <3> QED BY <1>1, <2>2, <3>1 DEF JobsInv
    <2> QED BY <2>1, <2>2
  <1>5. JobsInv'
    BY <1>1, <1>2, <1>4, JobsMoved DEF Restart
  <1>6. StoreInv'
    BY <1>1, <1>2, <1>4, StoreIdle DEF Restart, Senders
  <1> QED BY <1>3, <1>5, <1>6, Whole

LEMMA UploadBreaksInv ==
    ASSUME SubmissionInv, NEW v \in Validator, UploadBreaks(v)
    PROVE  SubmissionInv'
  <1>1. RowsInv /\ JobsInv /\ StoreInv
    BY Parts
  <1>2. validator[v].at = "sending" /\ UNCHANGED <<sub, disk>> /\ GiveUp(v)
    BY DEF UploadBreaks
  <1>3. RowsInv' /\ JobsInv'
    BY <1>1, <1>2, RowsKept, GiveUpInv
  <1>4. \A u \in Validator : u \notin Senders'
    BY <1>1, <1>2 DEF Senders, StoreInv, GiveUp, NoJob, JobsInv
  <1>5. temp' \subseteq temp /\ storing' \in temp' \cup {None}
    BY <1>1 DEF UploadBreaks, StoreInv
  <1>6. StoreInv'
    BY <1>1, <1>2, <1>4, <1>5 DEF StoreInv, Senders
  <1> QED BY <1>3, <1>6, Whole

LEMMA CleanUpInv ==
    ASSUME SubmissionInv, NEW a \in Archive, CleanUp(a)
    PROVE  SubmissionInv'
  <1>1. RowsInv' /\ JobsInv'
    BY Parts, RowsKept, JobsKept DEF CleanUp
  <1>2. StoreInv'
    BY Parts DEF CleanUp, StoreInv, Senders
  <1> QED BY <1>1, <1>2, Whole

LEMMA NextInv ==
    ASSUME SubmissionInv, Next
    PROVE  SubmissionInv'
  BY SubmitInv, RejectInv, LapseInv, ClaimNothingInv, ClaimInv, HeartbeatFailsInv, BuildFailsInv,
     BuildInv, CheckApprovalInv, CommitApprovalInv, ReportInv, OutageInv, UploadInv,
     UploadBreaksInv, StoredInv, UploadTimesOutInv, RestartInv, CleanUpInv DEF Next

LEMMA StutterInv ==
    ASSUME SubmissionInv, UNCHANGED vars
    PROVE  SubmissionInv'
  <1>1. RowsInv'
    BY Parts, RowsKept DEF vars
  <1> QED BY <1>1, KeptAcademy DEF vars

\* SubmissionInv is inductive.
THEOREM InvHolds == Spec => []SubmissionInv
  <1>1. SubmissionInv /\ [Next]_vars => SubmissionInv'
    BY NextInv, StutterInv
  <1> QED BY InitInv, <1>1, PTL DEF Spec

----------------------------------------------------------------------------
(* The theorems *)

\* Rows, jobs and the store have their types and the checks of the table, and
\* the permit belongs to the one upload under way.
THEOREM SubmissionTypes == Spec => []TypeOK
  <1>1. SubmissionInv => TypeOK
    BY DEF SubmissionInv
  <1> QED BY InvHolds, <1>1, PTL

\* What is approved was built from the repository submitted last and is on the
\* Academy's disk.
THEOREM ApprovalSound == Spec => []ApprovedWasValidated
  <1>1. SubmissionInv => ApprovedWasValidated
    BY DEF SubmissionInv
  <1> QED BY InvHolds, <1>1, PTL

Verdicts == {"approved", "failed", "disabled"}

\* The steps of controllers write a row only while it is being validated, or to
\* be.
LEMMA VerdictStep ==
    ASSUME SubmissionInv, Next, NEW t \in Team, sub[t].status \in Verdicts, sub'[t] # sub[t]
    PROVE  sub'[t].generation > sub[t].generation \/ sub'[t].status = "disabled"
  <1>1. sub \in [Team -> Row] /\ JobsInv /\ RowInv(t, sub[t], disk)
    BY Parts DEF RowsInv
  <1>2. Recovered(sub[t]) = sub[t] /\ sub[t].status \notin {"pending", "validating"} /\ ~sub[t].live
    BY <1>1 DEF Recovered, Verdicts, RowInv
  <1>3. ASSUME NEW u \in Team, Submit(u)
        PROVE  sub'[t].generation > sub[t].generation
    <2>1. u = t
      BY <1>1, <1>3 DEF Submit
    <2>2. sub'[t] = [Cleared(sub[t], "pending") EXCEPT !.generation = sub[t].generation + 1]
      BY <1>1, <1>3, <2>1 DEF Submit
    <2>3. Cleared(sub[t], "pending") \in Row
      BY <1>1, ClearedFields DEF RowInv, Statuses
    <2>4. sub'[t].generation = sub[t].generation + 1
      BY <2>2, <2>3 DEF Row
    <2>5. sub[t].generation \in Nat
      BY <1>1 DEF Row
    <2> QED BY <2>4, <2>5
  <1>4. ASSUME NEW u \in Team, Reject(u)
        PROVE  sub'[t].status = "disabled"
    <2>1. u = t
      BY <1>1, <1>4 DEF Reject
    <2>2. sub'[t] = Cleared(sub[t], "disabled")
      BY <1>1, <1>4, <2>1 DEF Reject, Disabled
    <2>3. Cleared(sub[t], "disabled").status = "disabled"
      BY <1>1, ClearedFields DEF Statuses
    <2> QED BY <2>2, <2>3
  <1>5. ASSUME NEW u \in Team, Lapse(u) PROVE FALSE
    <2>1. u = t
      BY <1>1, <1>5 DEF Lapse
    <2> QED BY <1>2, <1>5, <2>1 DEF Lapse
  <1>6. ASSUME NEW v \in Validator, ClaimNothing(v) PROVE FALSE
    BY <1>2, <1>6 DEF ClaimNothing
  <1>7. ASSUME NEW v \in Validator, NEW u \in Team, Claim(v, u) PROVE FALSE
    BY <1>2, <1>7 DEF Claim
  <1>8. ASSUME NEW v \in Validator, CommitApproval(v) \/ Report(v) \/ Upload(v) PROVE FALSE
    <2>1. validator[v].team = t
      BY <1>1, <1>8 DEF CommitApproval, Report, Upload
    <2>2. SameLease(v)
      BY <1>8 DEF CommitApproval, Report, Upload, Holds
    <2> QED BY <1>2, <2>1, <2>2 DEF SameLease
  <1>9. ASSUME UNCHANGED sub PROVE FALSE
    BY <1>9
  <1> QED BY <1>3, <1>4, <1>5, <1>6, <1>7, <1>8, <1>9 DEF Next, HeartbeatFails, BuildFails, Build,
          CheckApproval, Outage, UploadBreaks, Stored, UploadTimesOut, Restart, CleanUp, academy

\* No controller changes a verdict: after one, a row changes only when its team
\* submits again or the administrator disables it.
THEOREM VerdictsStand == Spec => VerdictStands
  <1>1. SubmissionInv /\ [Next]_vars =>
            [\A t \in Team :
                sub[t].status \in {"approved", "failed", "disabled"} /\ sub'[t] # sub[t] =>
                    sub'[t].generation > sub[t].generation \/ sub'[t].status = "disabled"]_vars
    BY VerdictStep DEF Verdicts
  <1> QED BY InvHolds, <1>1, PTL DEF Spec, VerdictStands

----------------------------------------------------------------------------
(* The refinement of Entries *)

\* What a step may make of an entry.
EntryMove(t, a, b) ==
    \/ b = Promise!Waiting(a.number + 1)
    \/ a # Promise!Absent /\ b = Promise!Disabled(a.number)
    \/ a.state = "waiting" /\ b = Promise!Failed(a.number)
    \/ /\ a.state = "waiting"
       /\ \E c \in Contents[t][a.number] \ {None} : b = Promise!Approved(a.number, c)

\* A step that makes one such move of one row is a step of Entries.
LEMMA OneEntry ==
    ASSUME RowsInv, NEW t \in Team, NEW row, sub' = [sub EXCEPT ![t] = row],
           Entry(row) = Entry(sub[t]) \/ EntryMove(t, Entry(sub[t]), Entry(row))
    PROVE  [Promise!Next]_entries
  <1>1. \A u \in Team : entries[u] = Entry(sub[u])
    BY DEF entries
  <1>2. entries' = [entries EXCEPT ![t] = Entry(row)]
    <2>1. entries' = [u \in Team |-> Entry(sub'[u])]
      BY DEF entries, Entry
    <2>2. \A u \in Team : sub'[u] = IF u = t THEN row ELSE sub[u]
      BY DEF RowsInv
    <2>3. entries' = [u \in Team |-> IF u = t THEN Entry(row) ELSE Entry(sub[u])]
      BY <2>1, <2>2
    <2> QED BY <2>3 DEF entries
  <1>3. CASE Entry(row) = Entry(sub[t])
    BY <1>1, <1>2, <1>3 DEF entries
  <1>4. CASE EntryMove(t, Entry(sub[t]), Entry(row))
    <2>1. Promise!Submit(t) \/ Promise!Disable(t) \/ Promise!Approve(t) \/ Promise!Fail(t)
      BY <1>1, <1>2, <1>4
      DEF EntryMove, Promise!Submit, Promise!Disable, Promise!Approve, Promise!Fail
    <2> QED BY <2>1 DEF Promise!Next
  <1> QED BY <1>3, <1>4

LEMMA SameEntries ==
    ASSUME \A t \in Team : Entry(sub'[t]) = Entry(sub[t])
    PROVE  [Promise!Next]_entries
  <1>1. entries' = [t \in Team |-> Entry(sub'[t])]
    BY DEF entries, Entry
  <1> QED BY <1>1 DEF entries

\* What an approved, failed, disabled or submitted row shows.
LEMMA EntryAt ==
    ASSUME NEW row \in Row
    PROVE  /\ Entry(row).number = row.generation
           /\ row.status \in {"pending", "validating"} => Entry(row) = Promise!Waiting(row.generation)
           /\ row.status = "failed" => Entry(row) = Promise!Failed(row.generation)
           /\ row.status = "disabled" => Entry(row) = Promise!Disabled(row.generation)
           /\ row.status = "approved" => Entry(row) = Promise!Approved(row.generation, row.artifact)
           /\ row.status # "none" => Entry(row) # Promise!Absent
           /\ Entry(row).state = "waiting" <=> row.status \in {"pending", "validating"}
  BY DEF Entry, Row, Statuses, Promise!Waiting, Promise!Failed, Promise!Disabled,
         Promise!Approved, Promise!Absent

LEMMA RecoveredEntry ==
    ASSUME NEW row \in Row
    PROVE  Recovered(row) \in Row /\ Entry(Recovered(row)) = Entry(row)
  <1>1. CASE row.status = "validating" /\ ~row.live
    <2>1. Recovered(row) = Cleared(row, "pending")
      BY <1>1 DEF Recovered
    <2>2. /\ Recovered(row) \in Row /\ Recovered(row).status = "pending"
          /\ Recovered(row).generation = row.generation
      <3>1. /\ Cleared(row, "pending") \in Row /\ Cleared(row, "pending").status = "pending"
            /\ Cleared(row, "pending").generation = row.generation
        BY ClearedFields DEF Statuses
      <3> QED BY <2>1, <3>1
    <2>3. Entry(Recovered(row)) = Promise!Waiting(row.generation)
      BY <2>2, EntryAt
    <2>4. Entry(row) = Promise!Waiting(row.generation)
      BY <1>1, EntryAt
    <2> QED BY <2>2, <2>3, <2>4
  <1>2. CASE ~(row.status = "validating" /\ ~row.live)
    BY <1>2 DEF Recovered
  <1> QED BY <1>1, <1>2

LEMMA PeopleMove ==
    ASSUME SubmissionInv, NEW t \in Team, Submit(t) \/ Reject(t) \/ Lapse(t)
    PROVE  [Promise!Next]_entries
  <1>1. RowsInv /\ sub[t] \in Row
    BY Parts DEF RowsInv
  <1>2. CASE Submit(t)
    <2> DEFINE cleared == Cleared(sub[t], "pending")
               row == [cleared EXCEPT !.generation = sub[t].generation + 1]
    <2>1. cleared \in Row /\ cleared.status = "pending"
      BY <1>1, ClearedFields DEF Statuses
    <2>2. sub' = [sub EXCEPT ![t] = row]
      BY <1>1, <1>2 DEF Submit, RowsInv
    <2>3. sub[t].generation \in Nat
      BY <1>1 DEF Row
    <2>4. row \in Row /\ row.status = "pending" /\ row.generation = sub[t].generation + 1
      <3> HIDE DEF cleared
      <3> QED BY <2>1, <2>3 DEF Row
    <2> HIDE DEF row
    <2>5. EntryMove(t, Entry(sub[t]), Entry(row))
      BY <1>1, <2>4, EntryAt DEF EntryMove
    <2> QED BY <1>1, <2>2, <2>5, OneEntry
  <1>3. CASE Reject(t)
    <2> DEFINE row == Cleared(sub[t], "disabled")
    <2>1. row \in Row /\ row.status = "disabled" /\ row.generation = sub[t].generation
      BY <1>1, ClearedFields DEF Statuses
    <2>2. sub' = [sub EXCEPT ![t] = row] /\ sub[t].status # "none"
      BY <1>1, <1>3 DEF Reject, Disabled, RowsInv
    <2> HIDE DEF row
    <2>3. EntryMove(t, Entry(sub[t]), Entry(row))
      BY <1>1, <2>1, <2>2, EntryAt DEF EntryMove
    <2> QED BY <1>1, <2>2, <2>3, OneEntry
  <1>4. CASE Lapse(t)
    <2> DEFINE row == [sub[t] EXCEPT !.live = FALSE]
    <2>1. sub' = [sub EXCEPT ![t] = row]
      BY <1>1, <1>4 DEF Lapse, RowsInv
    <2>2. Entry(row) = Entry(sub[t])
      BY <1>1 DEF Entry, Row
    <2> HIDE DEF row
    <2> QED BY <1>1, <2>1, <2>2, OneEntry
  <1> QED BY <1>2, <1>3, <1>4

\* A claim, with the recovery of every lapsed lease, shows in no entry.
LEMMA ClaimMove ==
    ASSUME SubmissionInv, NEW v \in Validator,
           ClaimNothing(v) \/ \E t \in Team : Claim(v, t)
    PROVE  [Promise!Next]_entries
  <1>1. \A u \in Team : sub[u] \in Row /\ Recovered(sub[u]) \in Row
                        /\ Entry(Recovered(sub[u])) = Entry(sub[u])
    BY Parts, RecoveredEntry DEF RowsInv
  <1>2. CASE ClaimNothing(v)
    BY <1>1, <1>2, SameEntries DEF ClaimNothing
  <1>3. ASSUME NEW t \in Team, Claim(v, t)
        PROVE  [Promise!Next]_entries
    <2> DEFINE row == [Recovered(sub[t]) EXCEPT !.status = "validating", !.lease = v,
                                                !.live = TRUE, !.artifact = None]
    <2>1. /\ row \in Row /\ row.status = "validating"
          /\ row.generation = Recovered(sub[t]).generation
      BY <1>1 DEF Row, Statuses
    <2>2. \A u \in Team : sub'[u] = IF u # t THEN Recovered(sub[u]) ELSE row
      BY <1>3 DEF Claim
    <2>3. Recovered(sub[t]).status = "pending"
      BY <1>3 DEF Claim
    <2> HIDE DEF row
    <2>4. Entry(row) = Entry(Recovered(sub[t]))
      BY <1>1, <2>1, <2>3, EntryAt
    <2>5. \A u \in Team : Entry(sub'[u]) = Entry(sub[u])
      BY <1>1, <2>2, <2>4
    <2> QED BY <2>5, SameEntries
  <1> QED BY <1>2, <1>3

\* The reservation of an archive is not shown, a verdict is given by the holder of
\* the lease, to a submission that waits.
LEMMA VerdictMove ==
    ASSUME SubmissionInv, NEW v \in Validator, CommitApproval(v) \/ Report(v) \/ Upload(v)
    PROVE  [Promise!Next]_entries
  <1> DEFINE t == validator[v].team
  <1>1. RowsInv /\ JobInv(validator[v], disk)
    BY Parts DEF JobsInv
  <1>2. t \in Team /\ sub[t] \in Row
    BY <1>1 DEF JobInv, RowsInv, CommitApproval, Report, Upload
  <1>3. CASE UNCHANGED sub
    BY <1>3, SameEntries
  <1>4. CASE CommitApproval(v) /\ ~UNCHANGED sub
    <2> DEFINE cleared == Cleared(sub[t], "approved")
               row == [cleared EXCEPT !.artifact = validator[v].archive]
    <2>1. SameLease(v) /\ sub' = [sub EXCEPT ![t] = row]
      BY <1>4 DEF CommitApproval
    <2>2. sub[t].status = "validating" /\ sub[t].generation = validator[v].generation
      BY <2>1 DEF SameLease
    <2>3. /\ validator[v].archive \in Contents[t][sub[t].generation] \ {None}
          /\ validator[v].archive \in Archive \cup {None}
      BY <1>1, <1>4, <2>2 DEF JobInv, Holding, CommitApproval, Job
    <2>4. /\ cleared \in Row /\ cleared.status = "approved"
          /\ cleared.generation = sub[t].generation
      BY <1>2, ClearedFields DEF Statuses
    <2>5. /\ row \in Row /\ row.status = "approved"
          /\ row.generation = sub[t].generation /\ row.artifact = validator[v].archive
      <3> HIDE DEF cleared
      <3> QED BY <2>3, <2>4 DEF Row
    <2> HIDE DEF row
    <2>6. EntryMove(t, Entry(sub[t]), Entry(row))
      BY <1>2, <2>2, <2>3, <2>5, EntryAt DEF EntryMove
    <2> QED BY <1>1, <1>2, <2>1, <2>6, OneEntry
  <1>5. CASE Report(v) /\ ~UNCHANGED sub
    <2> DEFINE row == Cleared(sub[t], "failed")
    <2>1. SameLease(v) /\ sub' = [sub EXCEPT ![t] = row]
      BY <1>5 DEF Report, Holds
    <2>2. row \in Row /\ row.status = "failed" /\ row.generation = sub[t].generation
      BY <1>2, ClearedFields DEF Statuses
    <2> HIDE DEF row
    <2>3. EntryMove(t, Entry(sub[t]), Entry(row))
      BY <1>2, <2>1, <2>2, EntryAt DEF EntryMove, SameLease
    <2> QED BY <1>1, <1>2, <2>1, <2>3, OneEntry
  <1>6. CASE Upload(v) /\ ~UNCHANGED sub
    <2> DEFINE row == [sub[t] EXCEPT !.artifact = validator[v].archive]
    <2>1. SameLease(v) /\ sub' = [sub EXCEPT ![t] = row]
      BY <1>1, <1>6 DEF Upload, Holds, RowsInv
    <2>2. Entry(row) = Entry(sub[t])
      BY <1>2, <2>1 DEF Entry, Row, SameLease
    <2> HIDE DEF row
    <2> QED BY <1>1, <1>2, <2>1, <2>2, OneEntry
  <1> QED BY <1>3, <1>4, <1>5, <1>6

LEMMA EntriesStep ==
    ASSUME SubmissionInv, [Next]_vars
    PROVE  [Promise!Next]_entries
  <1>1. CASE UNCHANGED sub
    BY <1>1, SameEntries
  <1>2. ASSUME NEW t \in Team, Submit(t) \/ Reject(t) \/ Lapse(t)
        PROVE  [Promise!Next]_entries
    BY <1>2, PeopleMove
  <1>3. ASSUME NEW v \in Validator, ClaimNothing(v) \/ \E t \in Team : Claim(v, t)
        PROVE  [Promise!Next]_entries
    BY <1>3, ClaimMove
  <1>4. ASSUME NEW v \in Validator, CommitApproval(v) \/ Report(v) \/ Upload(v)
        PROVE  [Promise!Next]_entries
    BY <1>4, VerdictMove
  <1> QED BY <1>1, <1>2, <1>3, <1>4 DEF Next, HeartbeatFails, BuildFails, Build, CheckApproval,
          Outage, UploadBreaks, Stored, UploadTimesOut, Restart, CleanUp, academy, vars

\* The rows, leases, uploads and controllers keep what is promised to the teams: one
\* verdict for each submission that waits, from its own repository, and nothing but a
\* person's move after it.
THEOREM RefinesEntries == Spec => IsEntries
  <1>1. Init => Promise!Init
    BY DEF Init, Promise!Init, entries, Entry, Promise!Absent
  <1>2. SubmissionInv /\ [Next]_vars => [Promise!Next]_entries
    BY EntriesStep
  <1> QED BY <1>1, <1>2, InvHolds, PTL DEF Spec, IsEntries, Promise!Spec
=============================================================================
