\* One run, an arc poller and a bundled poller, two attempts that can all lapse; fairness.
SPECIFICATION FairSpec
CONSTANTS
    p1 = p1
    p2 = p2
    Run <- OneRun
    TeamOf <- OneTeam
    Poller = {p1, p2}
    Serves <- ArcAndBundled
    MaxAttempts = 2
    LeaseTime = 4
    Grace = 2
    DeadlineTime = 11
    MaxSeq = 1
INVARIANTS
    TypeOK
    ScoresOfCommit
    LeaseWithinGrace
    HeldWhileActive
PROPERTIES
    EndedRunKept
    LiveLeaseHonoured
    WritesFenced
    IsLeasedJob
    RunEnds
