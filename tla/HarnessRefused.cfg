\* One run, an arc poller and a bundled poller, three attempts that can all lapse.
SPECIFICATION Spec
CONSTANTS
    p1 = p1
    p2 = p2
    Run <- OneRun
    TeamOf <- OneTeam
    Poller = {p1, p2}
    Serves <- ArcAndBundled
    MaxAttempts = 3
    LeaseTime = 2
    Grace = 1
    DeadlineTime = 10
    MaxSeq = 1
INVARIANTS
    CompletedIsRecorded
