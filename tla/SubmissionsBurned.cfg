\* Two teams with the same repository and two controllers: an outage and its end.
SPECIFICATION Spec
CONSTANTS
    None = None
    t1 = t1
    a1 = a1
    a2 = a2
    Team = {t1, t2}
    Validator = {v1, v2}
    Archive = {a1, a2}
    Generations <- MCGenerations
    Contents <- MCContents
INVARIANT OnlyTheTeamsFault
CHECK_DEADLOCK FALSE
