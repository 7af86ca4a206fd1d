----------------------------- MODULE Submissions -----------------------------
(* The validation of AI Monopoly submissions: the team's row and its         *)
(* validation lease (monopoly.rs), the archives on the Academy's disk and    *)
(* their uploads, and the controllers that validate (validation_once and     *)
(* ValidationLease of monopoly_controller.py).                               *)
(*                                                                           *)
(* A lease id is a fresh UUID.  A controller forgets a job before it claims  *)
(* the next, so the pair (submission, controller) stands for the id.  A      *)
(* request that is still on its way when its sender has given up is another  *)
(* controller that has not got any further.                                  *)
EXTENDS Naturals, FiniteSets

CONSTANTS
    Team,
    Validator,      \* controllers, and requests of theirs that are under way
    Archive,        \* archives, named by their SHA-256
    None,           \* SQL null; of a repository: it is invalid
    Generations,    \* how often a team submits (a bound)
    Contents        \* what a validation of a team's n-th repository may find

ASSUME SubmissionsAssumption ==
    /\ None \notin Archive /\ None \notin Validator
    /\ Generations \in [Team -> Nat]
    /\ \A t \in Team : \A n \in 1 .. Generations[t] :
          Contents[t][n] # {} /\ Contents[t][n] \subseteq Archive \cup {None}

VARIABLES
    sub,            \* monopoly_submissions: one row per team
    validator,      \* the controllers
    disk,           \* archives on the Academy's disk
    temp,           \* archives with a temporary upload file
    storing         \* the archive whose upload holds the only permit, or None

academy == <<sub, disk, temp, storing>>
vars == <<sub, validator, disk, temp, storing>>

Statuses == {"none", "pending", "validating", "approved", "failed", "disabled"}
Row == [status : Statuses, generation : Nat, lease : Validator \cup {None},
        live : BOOLEAN, artifact : Archive \cup {None}]
Steps == {"idle", "validating", "approving", "committing", "uploading", "sending", "reporting"}
Job == [at : Steps, team : Team \cup {None}, generation : Nat, archive : Archive \cup {None},
        uploaded : BOOLEAN, lost : {"no", "outage", "refused"}]
NoJob == [at |-> "idle", team |-> None, generation |-> 0, archive |-> None,
          uploaded |-> FALSE, lost |-> "no"]

Init ==
    /\ sub = [t \in Team |-> [status |-> "none", generation |-> 0, lease |-> None,
                              live |-> FALSE, artifact |-> None]]
    /\ validator = [v \in Validator |-> NoJob]
    /\ disk = {} /\ temp = {} /\ storing = None
-----------------------------------------------------------------------------
(* People. *)

\* A row in a status without a lease and without an archive.
Cleared(row, status) ==
    [row EXCEPT !.status = status, !.lease = None, !.live = FALSE, !.artifact = None]

Submit(t) ==
    /\ sub[t].generation < Generations[t]
    /\ sub' = [sub EXCEPT ![t] =
           [Cleared(@, "pending") EXCEPT !.generation = sub[t].generation + 1]]
    /\ UNCHANGED <<validator, disk, temp, storing>>

\* Mutant: the lease stays with the disabled row.
Disabled_KeepsLease(row) == [row EXCEPT !.status = "disabled", !.artifact = None]

Disabled(row) == Cleared(row, "disabled")

Reject(t) ==
    /\ sub[t].status # "none"
    /\ sub' = [sub EXCEPT ![t] = Disabled(@)]
    /\ UNCHANGED <<validator, disk, temp, storing>>
-----------------------------------------------------------------------------
(* Leases. *)

\* Mutant: a lease that has lapsed is not recovered.
Recovered_Never(row) == row

\* The first statement of a claim.
Recovered(row) ==
    IF row.status = "validating" /\ ~row.live THEN Cleared(row, "pending") ELSE row

ClaimNothing(v) ==
    /\ validator[v].at = "idle"
    /\ \A t \in Team : Recovered(sub[t]).status # "pending"
    /\ sub' = [t \in Team |-> Recovered(sub[t])]
    /\ UNCHANGED <<validator, disk, temp, storing>>

\* Rows locked by another claim are skipped, so any may be the first.
Claim(v, t) ==
    /\ validator[v].at = "idle"
    /\ Recovered(sub[t]).status = "pending"
    /\ sub' = [u \in Team |->
                 IF u # t THEN Recovered(sub[u])
                 ELSE [Recovered(sub[t]) EXCEPT !.status = "validating", !.lease = v,
                                                !.live = TRUE, !.artifact = None]]
    /\ validator' = [validator EXCEPT ![v] =
           [NoJob EXCEPT !.at = "validating", !.team = t, !.generation = sub[t].generation]]
    /\ UNCHANGED <<disk, temp, storing>>

\* Mutant: whoever comes is taken for the holder of the lease.
SameLease_Anyone(v) == sub[validator[v].team].status = "validating"

\* Mutant: the generation alone.
SameLease_Generation(v) == sub[validator[v].team].generation = validator[v].generation

SameLease(v) ==
    LET row == sub[validator[v].team]
    IN  /\ row.status = "validating" /\ row.lease = v
        /\ row.generation = validator[v].generation

Holds(v) == SameLease(v) /\ sub[validator[v].team].live

\* The heartbeat thread runs until the job is reported or given up, or to its
\* first error.
Beating(v) == validator[v].at \notin {"idle", "reporting"} /\ validator[v].lost = "no"

\* A beat every minute keeps a lease of twenty.
Lapse(t) ==
    /\ sub[t].live
    /\ ~\E v \in Validator : Beating(v) /\ validator[v].team = t /\ Holds(v)
    /\ sub' = [sub EXCEPT ![t].live = FALSE]
    /\ UNCHANGED <<validator, disk, temp, storing>>

HeartbeatFails(v) ==
    /\ Beating(v)
    /\ \E why \in {"outage"} \cup (IF Holds(v) THEN {} ELSE {"refused"}) :
          validator' = [validator EXCEPT ![v].lost = why]
    /\ UNCHANGED academy
-----------------------------------------------------------------------------
(* validation_once *)

GoTo(v, step) == validator' = [validator EXCEPT ![v].at = step]
GiveUp(v) == validator' = [validator EXCEPT ![v] = NoJob]

BuildFails(v) ==
    /\ validator[v].at = "validating"
    /\ None \in Contents[validator[v].team][validator[v].generation]
    /\ GoTo(v, "reporting")
    /\ UNCHANGED academy

\* The archive is built; lease.check() follows: an outage (no answer, or a status
\* from 500) gives the job up in silence, any other error fails the submission.
\* A controller may share the Academy's disk.
Build(v) ==
    /\ validator[v].at = "validating"
    /\ \E a \in Contents[validator[v].team][validator[v].generation] \ {None} :
          /\ \/ validator[v].lost = "no"
                /\ validator' = [validator EXCEPT ![v].at = "approving", ![v].archive = a]
             \/ validator[v].lost = "outage" /\ GiveUp(v)
             \/ validator[v].lost = "refused" /\ GoTo(v, "reporting")
          /\ disk' \in {disk, disk \cup {a}}
    /\ UNCHANGED <<sub, temp, storing>>

\* The result handler up to the look at the disk: 409, 412, or on.
CheckApproval(v) ==
    /\ validator[v].at = "approving"
    /\ \/ ~Holds(v) /\ GoTo(v, "reporting")
       \/ Holds(v) /\ validator[v].archive \in disk /\ GoTo(v, "committing")
       \/ Holds(v) /\ validator[v].archive \notin disk
             /\ GoTo(v, IF validator[v].uploaded THEN "reporting" ELSE "uploading")
    /\ UNCHANGED academy

Reserved(v) == sub[validator[v].team].artifact \in {None, validator[v].archive}

\* now() is that of the transaction's start: the lease may have lapsed since.
CommitApproval(v) ==
    /\ validator[v].at = "committing"
    /\ IF SameLease(v) /\ Reserved(v)
       THEN /\ sub' = [sub EXCEPT ![validator[v].team] =
                  [Cleared(@, "approved") EXCEPT !.artifact = validator[v].archive]]
            /\ GiveUp(v)
       ELSE GoTo(v, "reporting") /\ UNCHANGED sub
    /\ UNCHANGED <<disk, temp, storing>>

Report(v) ==
    /\ validator[v].at = "reporting"
    /\ sub' = IF Holds(v) THEN [sub EXCEPT ![validator[v].team] = Cleared(@, "failed")] ELSE sub
    /\ GiveUp(v)
    /\ UNCHANGED <<disk, temp, storing>>

\* No answer, though the request may have been handled; or the process ends.
Outage(v) ==
    /\ validator[v].at \in {"validating", "approving", "committing", "uploading", "reporting"}
    /\ GiveUp(v)
    /\ UNCHANGED academy
-----------------------------------------------------------------------------
(* Uploads. *)

\* The archive is reserved under the lease.  Then the permit must be free (429),
\* and the temporary file: an upload that finds one is refused (409) and, like
\* any that fails, removes it.
Upload(v) ==
    LET a == validator[v].archive
        reserved == Holds(v) /\ Reserved(v)
        permitted == reserved /\ storing = None
        open == permitted /\ a \notin temp
    IN  /\ validator[v].at = "uploading"
        /\ sub' = IF reserved THEN [sub EXCEPT ![validator[v].team].artifact = a] ELSE sub
        /\ temp' = IF open THEN temp \cup {a} ELSE IF permitted THEN temp \ {a} ELSE temp
        /\ storing' = IF open THEN a ELSE storing
        /\ GoTo(v, IF open THEN "sending" ELSE "reporting")
        /\ UNCHANGED disk

Senders == {v \in Validator : validator[v].at = "sending"}

\* Complete: renamed into place.  Its sender, if it is still there, is told
\* whether it still has the lease, and checks the thread.
Stored ==
    /\ storing # None
    /\ disk' = disk \cup {storing} /\ temp' = temp \ {storing} /\ storing' = None
    /\ validator' = [v \in Validator |->
          IF v \notin Senders THEN validator[v]
          ELSE IF Holds(v) /\ validator[v].lost = "no"
               THEN [validator[v] EXCEPT !.at = "approving", !.uploaded = TRUE]
          ELSE IF Holds(v) /\ validator[v].lost = "outage" THEN NoJob
          ELSE [validator[v] EXCEPT !.at = "reporting"]]
    /\ UNCHANGED sub

\* Fifteen minutes: 408, or nobody is left to be told.
UploadTimesOut ==
    /\ storing # None
    /\ temp' = temp \ {storing} /\ storing' = None
    /\ validator' = [v \in Validator |->
          IF v \in Senders THEN [validator[v] EXCEPT !.at = "reporting"] ELSE validator[v]]
    /\ UNCHANGED <<sub, disk>>

\* The connection breaks.  The handler waits on, ends and cleans up, or is
\* dropped where it stands.
UploadBreaks(v) ==
    /\ validator[v].at = "sending" /\ GiveUp(v)
    /\ \/ UNCHANGED <<temp, storing>>
       \/ storing' = None /\ temp' \in {temp, temp \ {storing}}
    /\ UNCHANGED <<sub, disk>>

\* The Academy's process restarts: its requests end, the files stay.
Restart ==
    /\ storing' = None
    /\ validator' = [v \in Validator |->
          IF validator[v].at \in {"committing", "sending"} THEN NoJob ELSE validator[v]]
    /\ UNCHANGED <<sub, disk, temp>>

\* Retention, for temporary files older than two hours.
CleanUp(a) ==
    /\ a \in temp /\ storing # a
    /\ temp' = temp \ {a}
    /\ UNCHANGED <<sub, validator, disk, storing>>
-----------------------------------------------------------------------------
Next ==
    \/ \E t \in Team : Submit(t) \/ Reject(t) \/ Lapse(t)
    \/ \E v \in Validator :
          \/ ClaimNothing(v) \/ \E t \in Team : Claim(v, t)
          \/ HeartbeatFails(v) \/ BuildFails(v) \/ Build(v)
          \/ CheckApproval(v) \/ CommitApproval(v) \/ Report(v) \/ Outage(v)
          \/ Upload(v) \/ UploadBreaks(v)
    \/ Stored \/ UploadTimesOut \/ Restart
    \/ \E a \in Archive : CleanUp(a)

Spec == Init /\ [][Next]_vars

Unharmed(v) == Beating(v) /\ Holds(v)

\* No controller stands still for ever, and an outage, a broken connection or a
\* lapse does not hit every try.
FairSpec ==
    /\ Spec
    /\ WF_vars(\E t \in Team : Lapse(t))
    /\ \A v \in Validator :
          WF_vars(Build(v) \/ BuildFails(v) \/ CheckApproval(v) \/ CommitApproval(v)
                    \/ Upload(v) \/ Report(v) \/ Outage(v))
    /\ SF_vars(\E v \in Validator, t \in Team : Claim(v, t))
    /\ SF_vars(\E v \in Validator : (Build(v) \/ BuildFails(v)) /\ Unharmed(v))
    /\ SF_vars(\E v \in Validator : CheckApproval(v) /\ Unharmed(v))
    /\ SF_vars(\E v \in Validator : CommitApproval(v) /\ SameLease(v))
    /\ SF_vars(\E v \in Validator : Upload(v) /\ Unharmed(v))
    /\ SF_vars((Stored \/ UploadTimesOut) /\ \E v \in Senders : Unharmed(v))
    /\ SF_vars(\E v \in Validator : Report(v) /\ Holds(v))
-----------------------------------------------------------------------------
\* Types, with the checks of the table: a lease exactly while validating, an
\* archive exactly when approved (or reserved by the validation); the upload
\* that holds the permit has its temporary file, and at most one controller is
\* sending it.
TypeOK ==
    /\ sub \in [Team -> Row]
    /\ validator \in [Validator -> Job]
    /\ disk \subseteq Archive /\ temp \subseteq Archive /\ storing \in temp \cup {None}
    /\ \A t \in Team :
          /\ sub[t].status = "validating" <=> sub[t].lease # None
          /\ sub[t].live => sub[t].status = "validating"
          /\ sub[t].status = "approved" => sub[t].artifact # None
          /\ sub[t].status \notin {"approved", "validating"} => sub[t].artifact = None
    /\ \A v \in Senders : Senders = {v} /\ storing = validator[v].archive

\* An approved archive was built from the repository the team submitted last and
\* is on the Academy's disk: no validation of an earlier repository, no holder of
\* a lost lease and no broken upload gets an archive approved.
ApprovedWasValidated ==
    \A t \in Team : sub[t].status = "approved" =>
        /\ sub[t].artifact \in Contents[t][sub[t].generation]
        /\ sub[t].artifact \in disk

\* What a controller holds came from the repository its job names, and the archive
\* it is about to have approved is on the disk.
JobsSound ==
    /\ \A t \in Team :
          /\ sub[t].generation <= Generations[t]
          /\ sub[t].status # "none" => sub[t].generation >= 1
    /\ \A v \in Validator : LET job == validator[v] IN job.at # "idle" =>
          /\ job.team \in Team /\ job.generation \in 1 .. Generations[job.team]
          /\ job.at \in {"approving", "committing", "uploading", "sending"} =>
                job.archive \in Contents[job.team][job.generation] \ {None}
          /\ job.at = "committing" => job.archive \in disk

SubmissionInv == TypeOK /\ JobsSound /\ ApprovedWasValidated

\* A verdict is changed by people only: the team that submits again or the
\* administrator, never by a controller that comes late.
VerdictStands ==
    [][\A t \in Team :
          sub[t].status \in {"approved", "failed", "disabled"} /\ sub'[t] # sub[t] =>
              sub'[t].generation > sub[t].generation \/ sub'[t].status = "disabled"]_vars

\* What a team sees of its row: who validates, and what is reserved, is not shown.
Entry(row) ==
    [state |-> IF row.status \in {"pending", "validating"} THEN "waiting" ELSE row.status,
     number |-> row.generation,
     archive |-> IF row.status = "approved" THEN row.artifact ELSE None]

entries == [t \in Team |-> Entry(sub[t])]

Promise == INSTANCE Entries WITH entry <- entries

\* Leases, uploads, outages and late controllers are nothing to the teams: each step
\* of all that is the one verdict of a submission that waits, a person's move, or
\* nothing (monopoly_submit and the validation handlers of the worker API).
IsEntries == Promise!Spec

\* Every submission gets a verdict, whatever is lost on the way.
ValidationSettles ==
    \A t \in Team :
        sub[t].status \in {"pending", "validating"} ~>
            sub[t].status \in {"approved", "failed", "disabled"}

\* The comment of validation_once: an outage of the Academy is not the team's
\* fault and does not burn the submission; only a repository in which there is
\* something wrong to find fails.
OnlyTheTeamsFault ==
    \A t \in Team : sub[t].status = "failed" => None \in Contents[t][sub[t].generation]
=============================================================================
