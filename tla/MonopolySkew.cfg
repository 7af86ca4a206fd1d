SPECIFICATION Spec
CONSTANTS
    t1 = t1
    g1 = g1
    g2 = g2
    w1 = w1
    w2 = w2
    c1 = c1
    c2 = c2
    None = None
    Tournament = {t1}
    Game = {g1, g2}
    TournamentOf <- OneTournament
    Worker = {w1, w2}
    Conn = {c1, c2}
    MaxAttempts = 1
    MaxSeq = 0
SYMMETRY Symmetry
INVARIANTS
    LastGameCloses
