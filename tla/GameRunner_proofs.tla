-------------------------- MODULE GameRunner_proofs -------------------------
(* Theorems about GameRunner, for any seats, limits and net worths.          *)
EXTENDS GameRunner, FiniteSetTheorems, SequenceTheorems, TLAPS

USE RunnerAssumption DEF RunnerAssumption

-----------------------------------------------------------------------------
(* What one more move does to the books of a seat *)

\* The moves, each with a seat, a time and a strike, as sets of their numbers.
LEMMA RowsFinite ==
    ASSUME NEW m \in Seq(Event), NEW s
    PROVE  /\ Struck(m, s) \subseteq 1 .. Len(m) /\ IsFiniteSet(Struck(m, s))
           /\ Timed(m, s) \subseteq 1 .. Len(m) /\ IsFiniteSet(Timed(m, s))
           /\ Spent(m, s) \subseteq (1 .. Len(m)) \X (1 .. DecisionLimit)
           /\ IsFiniteSet(Spent(m, s))
  <1>1. Len(m) \in Nat /\ DOMAIN m = 1 .. Len(m)
    BY LenProperties
  <1>2. IsFiniteSet(1 .. Len(m)) /\ IsFiniteSet(1 .. DecisionLimit)
    BY <1>1, FS_Interval
  <1>3. IsFiniteSet((1 .. Len(m)) \X (1 .. DecisionLimit))
    BY <1>2, FS_Product
  <1>4. Struck(m, s) \subseteq 1 .. Len(m) /\ Timed(m, s) \subseteq 1 .. Len(m)
    BY <1>1 DEF Struck, Timed
  <1>5. Spent(m, s) \subseteq (1 .. Len(m)) \X (1 .. DecisionLimit)
    BY <1>4 DEF Spent
  <1> QED BY <1>2, <1>3, <1>4, <1>5, FS_Subset

LEMMA NoRows ==
    ASSUME NEW s
    PROVE  /\ Cardinality(Struck(<<>>, s)) = 0
           /\ Cardinality(Timed(<<>>, s)) = 0
           /\ Cardinality(Spent(<<>>, s)) = 0
  <1>1. Struck(<<>>, s) = {} /\ Timed(<<>>, s) = {} /\ Spent(<<>>, s) = {}
    BY DEF Struck, Timed, Spent
  <1> QED BY <1>1, FS_EmptySet

LEMMA OneMoreRow ==
    ASSUME NEW m \in Seq(Event), NEW e \in Event, NEW s
    PROVE  LET n == Append(m, e)
           IN  /\ Cardinality(Struck(n, s)) = Cardinality(Struck(m, s))
                                              + (IF e.seat = s /\ e.strike THEN 1 ELSE 0)
               /\ Cardinality(Timed(n, s)) = Cardinality(Timed(m, s))
                                             + (IF e.seat = s /\ e.us # None THEN 1 ELSE 0)
               /\ Cardinality(Spent(n, s)) = Cardinality(Spent(m, s))
                                             + (IF e.seat = s /\ e.us # None THEN e.us ELSE 0)
  <1> DEFINE n == Append(m, e)
             k == Len(m) + 1
             units == IF e.seat = s /\ e.us # None THEN {k} \X (1 .. e.us) ELSE {}
  <1>1. /\ Len(m) \in Nat /\ DOMAIN m = 1 .. Len(m) /\ DOMAIN n = 1 .. k
        /\ n[k] = e /\ \A i \in 1 .. Len(m) : n[i] = m[i]
        /\ n \in Seq(Event)
    <2>1. n \in Seq(Event) /\ Len(n) = k
      BY AppendProperties
    <2> QED BY <2>1, LenProperties, AppendProperties
  <1>2. DOMAIN n = DOMAIN m \cup {k} /\ k \notin DOMAIN m
    BY <1>1
  <1>3. \A i \in DOMAIN m : n[i] = m[i]
    BY <1>1
  <1>4. Struck(n, s) = Struck(m, s) \cup (IF e.seat = s /\ e.strike THEN {k} ELSE {})
    BY <1>1, <1>2, <1>3 DEF Struck
  <1>5. Timed(n, s) = Timed(m, s) \cup (IF e.seat = s /\ e.us # None THEN {k} ELSE {})
    BY <1>1, <1>2, <1>3 DEF Timed
  <1>6. k \notin Struck(m, s) /\ k \notin Timed(m, s)
    BY <1>2 DEF Struck, Timed
  <1>7. e.us # None => e.us \in 0 .. DecisionLimit
    BY DEF Event, Us
  <1>8. Spent(n, s) = Spent(m, s) \cup units
    <2>1. ASSUME NEW x PROVE x \in Spent(n, s) <=> x \in Spent(m, s) \cup units
      <3>1. x \in Spent(n, s) <=> /\ x \in Timed(n, s) \X (1 .. DecisionLimit)
                                  /\ x[2] <= n[x[1]].us
        BY DEF Spent
      <3>2. x \in Spent(m, s) <=> /\ x \in Timed(m, s) \X (1 .. DecisionLimit)
                                  /\ x[2] <= m[x[1]].us
        BY DEF Spent
      <3>3. \A i \in Timed(m, s) : n[i] = m[i] /\ i # k
        BY <1>3, <1>6 DEF Timed
      <3>4. CASE e.seat = s /\ e.us # None
        <4>1. Timed(n, s) = Timed(m, s) \cup {k}
          BY <1>5, <3>4
        <4>2. x \in units <=> x \in {k} \X (1 .. DecisionLimit) /\ x[2] <= e.us
          BY <3>4, <1>7
        <4> QED BY <4>1, <4>2, <3>1, <3>2, <3>3, <1>1
      <3>5. CASE ~(e.seat = s /\ e.us # None)
        BY <3>5, <1>5, <3>1, <3>2, <3>3
      <3> QED BY <3>4, <3>5
    <2> QED BY <2>1
  <1>9. Spent(m, s) \cap units = {}
    <2>1. \A x \in Spent(m, s) : x[1] \in Timed(m, s)
      BY DEF Spent
    <2>2. \A x \in units : x[1] = k
      OBVIOUS
    <2> QED BY <2>1, <2>2, <1>6
  <1>10. /\ IsFiniteSet(units)
         /\ Cardinality(units) = IF e.seat = s /\ e.us # None THEN e.us ELSE 0
    <2>1. CASE e.seat = s /\ e.us # None
      <3>1. IsFiniteSet(1 .. e.us) /\ Cardinality(1 .. e.us) = e.us
        <4>1. 1 \in Int /\ e.us \in Int /\ (1 > e.us <=> e.us = 0)
          BY <2>1, <1>7
        <4>2. /\ IsFiniteSet(1 .. e.us)
              /\ Cardinality(1 .. e.us) = IF 1 > e.us THEN 0 ELSE e.us - 1 + 1
          BY <4>1, FS_Interval
        <4> QED BY <4>1, <4>2
      <3>2. IsFiniteSet({k}) /\ Cardinality({k}) = 1
        BY FS_Singleton
      <3>3. /\ IsFiniteSet({k} \X (1 .. e.us))
            /\ Cardinality({k} \X (1 .. e.us)) = Cardinality({k}) * Cardinality(1 .. e.us)
        BY <3>1, <3>2, FS_Product
      <3>4. Cardinality({k} \X (1 .. e.us)) = e.us
        BY <3>1, <3>2, <3>3, <2>1, <1>7
      <3> QED BY <3>3, <3>4, <2>1
    <2>2. CASE ~(e.seat = s /\ e.us # None)
      BY <2>2, FS_EmptySet
    <2> QED BY <2>1, <2>2
  <1>11. Cardinality(Spent(n, s)) = Cardinality(Spent(m, s)) + Cardinality(units)
    <2>1. Cardinality(Spent(n, s)) = Cardinality(Spent(m, s)) + Cardinality(units)
                                     - Cardinality(Spent(m, s) \cap units)
      BY <1>8, <1>10, RowsFinite, FS_Union
    <2>2. Cardinality(Spent(m, s)) \in Nat /\ Cardinality(units) \in Nat
      BY <1>10, RowsFinite, FS_CardinalityType
    <2>3. Cardinality(Spent(m, s) \cap units) = 0
      BY <1>9, FS_EmptySet
    <2> QED BY <2>1, <2>2, <2>3
  <1>12. /\ Cardinality(Struck(m, s)) \in Nat /\ Cardinality(Timed(m, s)) \in Nat
    BY RowsFinite, FS_CardinalityType
  <1>13. Cardinality(Struck(n, s)) = Cardinality(Struck(m, s))
                                     + (IF e.seat = s /\ e.strike THEN 1 ELSE 0)
    <2>1. IsFiniteSet(Struck(m, s)) /\ k \notin Struck(m, s)
      BY <1>6, RowsFinite
    <2>2. Cardinality(Struck(m, s) \cup {k}) = Cardinality(Struck(m, s)) + 1
      BY <2>1, FS_AddElement
    <2>3. Struck(m, s) \cup {} = Struck(m, s)
      OBVIOUS
    <2>4. CASE e.seat = s /\ e.strike
      <3>1. Struck(n, s) = Struck(m, s) \cup {k}
        BY <1>4, <2>4
      <3> QED BY <3>1, <2>2, <2>4
    <2>5. CASE ~(e.seat = s /\ e.strike)
      <3>1. Struck(n, s) = Struck(m, s)
        BY <1>4, <2>3, <2>5
      <3> QED BY <3>1, <2>5, <1>12
    <2> QED BY <2>4, <2>5
  <1>14. Cardinality(Timed(n, s)) = Cardinality(Timed(m, s))
                                    + (IF e.seat = s /\ e.us # None THEN 1 ELSE 0)
    <2>1. IsFiniteSet(Timed(m, s)) /\ k \notin Timed(m, s)
      BY <1>6, RowsFinite
    <2>2. Cardinality(Timed(m, s) \cup {k}) = Cardinality(Timed(m, s)) + 1
      BY <2>1, FS_AddElement
    <2>3. Timed(m, s) \cup {} = Timed(m, s)
      OBVIOUS
    <2>4. CASE e.seat = s /\ e.us # None
      <3>1. Timed(n, s) = Timed(m, s) \cup {k}
        BY <1>5, <2>4
      <3> QED BY <3>1, <2>2, <2>4
    <2>5. CASE ~(e.seat = s /\ e.us # None)
      <3>1. Timed(n, s) = Timed(m, s)
        BY <1>5, <2>3, <2>5
      <3> QED BY <3>1, <2>5, <1>12
    <2> QED BY <2>4, <2>5
  <1> QED BY <1>10, <1>11, <1>13, <1>14
-----------------------------------------------------------------------------
(* The two properties of the moves, of any sequence of them *)

Fine(m) ==
    /\ \A i \in DOMAIN m : ~m[i].late
    /\ \A i \in DOMAIN m :
          Cardinality({j \in Struck(m, m[i].seat) : j < i}) >= 3 => m[i].us = None

LEMMA MovesFine == Fine(Moves) <=> NoLateAnswer /\ ThirdStrikeEnds
  BY DEF Fine, NoLateAnswer, ThirdStrikeEnds

LEMMA PrefixFine ==
    ASSUME NEW m \in Seq(Event), NEW n \in Seq(Event), Fine(m \o n)
    PROVE  Fine(m)
  <1> DEFINE all == m \o n
  <1>1. /\ Len(m) \in Nat /\ DOMAIN m = 1 .. Len(m) /\ DOMAIN m \subseteq DOMAIN all
        /\ \A i \in DOMAIN m : all[i] = m[i]
    <2>1. all \in Seq(Event) /\ Len(all) = Len(m) + Len(n)
      BY ConcatProperties
    <2>2. \A i \in 1 .. Len(m) + Len(n) : i <= Len(m) => all[i] = m[i]
      BY ConcatProperties
    <2>3. Len(m) \in Nat /\ Len(n) \in Nat
      BY LenProperties
    <2>4. DOMAIN m = 1 .. Len(m) /\ DOMAIN all = 1 .. Len(m) + Len(n)
      BY <2>1, LenProperties
    <2> QED BY <2>2, <2>3, <2>4
  <1>2. ASSUME NEW i \in DOMAIN m, NEW s
        PROVE  {j \in Struck(m, s) : j < i} = {j \in Struck(all, s) : j < i}
    <2>1. \A j \in DOMAIN all : j < i => j \in DOMAIN m
      <3>1. DOMAIN all \subseteq Nat \ {0}
        <4>1. all \in Seq(Event)
          BY ConcatProperties
        <4> QED BY <4>1, LenProperties
      <3> QED BY <1>1, <3>1
    <2> QED BY <1>1, <2>1 DEF Struck
  <1>3. \A i \in DOMAIN m : ~m[i].late
    BY <1>1 DEF Fine
  <1>4. ASSUME NEW i \in DOMAIN m, Cardinality({j \in Struck(m, m[i].seat) : j < i}) >= 3
        PROVE  m[i].us = None
    <2>1. all[i] = m[i] /\ i \in DOMAIN all
      BY <1>1
    <2>2. Cardinality({j \in Struck(all, all[i].seat) : j < i}) >= 3
      BY <1>2, <1>4, <2>1
    <2> QED BY <2>1, <2>2 DEF Fine
  <1> QED BY <1>3, <1>4 DEF Fine

LEMMA AppendFine ==
    ASSUME NEW m \in Seq(Event), NEW e \in Event, Fine(m), ~e.late,
           e.us # None => Cardinality(Struck(m, e.seat)) < 3
    PROVE  Fine(Append(m, e))
  <1> DEFINE n == Append(m, e)
             k == Len(m) + 1
  <1>1. /\ Len(m) \in Nat /\ DOMAIN m = 1 .. Len(m) /\ DOMAIN n = DOMAIN m \cup {k}
        /\ n[k] = e /\ \A i \in DOMAIN m : n[i] = m[i]
    <2>1. n \in Seq(Event) /\ Len(n) = k
      BY AppendProperties
    <2>2. Len(m) \in Nat /\ DOMAIN m = 1 .. Len(m) /\ DOMAIN n = 1 .. k
      BY <2>1, LenProperties
    <2> QED BY <2>2, AppendProperties
  <1>2. ASSUME NEW i \in DOMAIN n, NEW s
        PROVE  {j \in Struck(n, s) : j < i} = {j \in Struck(m, s) : j < i}
    BY <1>1 DEF Struck
  <1>3. {j \in Struck(m, e.seat) : j < k} = Struck(m, e.seat)
    BY <1>1 DEF Struck
  <1>4. \A i \in DOMAIN n : ~n[i].late
    BY <1>1 DEF Fine
  <1>5. ASSUME NEW i \in DOMAIN n, Cardinality({j \in Struck(n, n[i].seat) : j < i}) >= 3
        PROVE  n[i].us = None
    <2>1. CASE i = k
      <3>1. Cardinality(Struck(m, e.seat)) >= 3
        BY <1>1, <1>2, <1>3, <1>5, <2>1
      <3>2. Cardinality(Struck(m, e.seat)) \in Nat
        BY RowsFinite, FS_CardinalityType
      <3> QED BY <3>1, <3>2, <2>1, <1>1
    <2>2. CASE i \in DOMAIN m
      <3>1. Cardinality({j \in Struck(m, m[i].seat) : j < i}) >= 3
        BY <1>1, <1>2, <1>5, <2>2
      <3> QED BY <3>1, <2>2, <1>1 DEF Fine
    <2> QED BY <1>1, <2>1, <2>2
  <1> QED BY <1>4, <1>5 DEF Fine
-----------------------------------------------------------------------------
(* Where an attempt begins, and where it is left *)

THEOREM RunnerInit == Init => RunnerInv
  <1> SUFFICES ASSUME Init PROVE RunnerInv
    OBVIOUS
  <1> USE DEF Init
  <1>1. Moves = <<>> /\ Fine(Moves)
    <2>1. Moves = <<>>
      BY EmptySeq, ConcatEmptySeq DEF Moves
    <2> QED BY <2>1 DEF Fine
  <1>2. TypeOK
    <2>1. <<>> \in Seq(Event)
      BY EmptySeq
    <2>2. 0 \in 0 .. ActionCeiling /\ 0 \in 0 .. PlayLimit /\ 0 \in 0 .. 3
      OBVIOUS
    <2> QED BY <2>1, <2>2 DEF TypeOK, Reasons
  <1>3. BooksAgree /\ OutAgrees /\ EndAgrees /\ RefusedOnlyAtTheLimit
    BY DEF BooksAgree, OutAgrees, EndAgrees, RefusedOnlyAtTheLimit, Driving
  <1>4. NothingLeft
    BY DEF NothingLeft, Driving
  <1> QED BY <1>1, <1>2, <1>3, <1>4, MovesFine DEF RunnerInv

\* The attempt is over, or failed; at most its last upload was stored.
LEMMA Left ==
    ASSUME RunnerInv, NEW place \in {"failed", "over", "stopped"}, Leave(place),
           stored' \in {stored, Moves}, lease' \in BOOLEAN,
           game' \in {"leased", "done", "infra_failed"}
    PROVE  RunnerInv'
  <1> USE DEF Leave
  <1>1. stored \in Seq(Event) /\ events \in Seq(Event) /\ Fine(Moves)
    BY MovesFine DEF RunnerInv, TypeOK
  <1>2. Moves \in Seq(Event) /\ stored' \in Seq(Event)
    <2>1. Moves \in Seq(Event)
      BY <1>1, ConcatProperties DEF Moves
    <2> QED BY <1>1, <2>1
  <1>3. Moves' = stored'
    BY <1>2, ConcatEmptySeq DEF Moves
  <1>4. Fine(Moves)'
    <2>1. CASE stored' = Moves
      BY <1>1, <1>3, <2>1 DEF Fine, Struck
    <2>2. CASE stored' = stored
      <3>1. Fine(stored)
        BY <1>1, PrefixFine DEF Moves
      <3> QED BY <1>3, <2>2, <3>1 DEF Fine, Struck
    <2> QED BY <2>1, <2>2
  <1>5. (NoLateAnswer /\ ThirdStrikeEnds)'
    BY <1>4 DEF Fine, NoLateAnswer, ThirdStrikeEnds
  <1>6. TypeOK'
    <2>1. <<>> \in Seq(Event)
      BY EmptySeq
    <2>2. 0 \in 0 .. ActionCeiling /\ 0 \in 0 .. PlayLimit /\ 0 \in 0 .. 3
      OBVIOUS
    <2> QED BY <1>2, <2>1, <2>2 DEF TypeOK, Reasons
  <1>7. (BooksAgree /\ OutAgrees /\ EndAgrees /\ RefusedOnlyAtTheLimit)'
    BY DEF BooksAgree, OutAgrees, EndAgrees, RefusedOnlyAtTheLimit, Driving
  <1>8. NothingLeft'
    BY DEF NothingLeft, Driving
  <1> QED BY <1>5, <1>6, <1>7, <1>8 DEF RunnerInv
-----------------------------------------------------------------------------
(* Steps that make no move and store nothing *)

LEMMA QuietMoves ==
    ASSUME RunnerInv, UNCHANGED <<stored, events>>
    PROVE  Moves' = Moves /\ (NoLateAnswer /\ ThirdStrikeEnds)'
  <1>1. Moves' = Moves
    BY DEF Moves
  <1>2. Fine(Moves)'
    BY <1>1, MovesFine DEF RunnerInv, Fine, Struck
  <1> QED BY <1>1, <1>2 DEF Fine, NoLateAnswer, ThirdStrikeEnds

LEMMA QuietBooks ==
    ASSUME RunnerInv, UNCHANGED <<stored, events, sequence, strikes, decisions, total>>,
           pc \in Driving, pc' \in Driving,
           \A s \in Seats \ Submitted : disqualified'[s] = disqualified[s]
    PROVE  BooksAgree'
  <1>1. Moves' = Moves
    BY DEF Moves
  <1>2. /\ sequence' = Len(Moves')
        /\ \A s \in Seats :
              /\ strikes'[s] = Cardinality(Struck(Moves', s))
              /\ decisions'[s] = Cardinality(Timed(Moves', s))
              /\ total'[s] = Cardinality(Spent(Moves', s))
              /\ strikes'[s] <= decisions'[s] /\ decisions'[s] <= sequence'
              /\ s \notin Submitted =>
                    strikes'[s] = 0 /\ decisions'[s] = 0 /\ ~disqualified'[s]
    BY <1>1 DEF RunnerInv, BooksAgree
  <1> QED BY <1>2 DEF BooksAgree, Struck, Timed, Spent

\* The main loop, the clock and the heartbeat thread.
LEMMA QuietStep ==
    ASSUME RunnerInv,
           \/ GameOver \/ ReachCeiling \/ NextMove \/ AskSeat \/ Tick
           \/ (HeartbeatFails /\ pc # "preparing")
    PROVE  RunnerInv'
  <1> USE DEF tally, board, academy, Driving
  <1> DEFINE Steps == GameOver \/ ReachCeiling \/ NextMove \/ AskSeat \/ Tick
                      \/ (HeartbeatFails /\ pc # "preparing")
  <1>1. /\ UNCHANGED <<stored, events, sequence, strikes, decisions, total, disqualified,
                       agent, gameDone, lease, game>>
        /\ pc \in Driving /\ pc' \in Driving \ {"reporting"} /\ pc # "reporting"
    BY DEF GameOver, ReachCeiling, NextMove, AskSeat, Tick, HeartbeatFails, AtLimits
  <1>2. (NoLateAnswer /\ ThirdStrikeEnds)'
    BY <1>1, QuietMoves
  <1>3. BooksAgree'
    BY <1>1, QuietBooks
  <1>4. TypeOK'
    <2>1. clock' \in 0 .. PlayLimit
      BY DEF RunnerInv, TypeOK, GameOver, ReachCeiling, NextMove, AskSeat, Tick, HeartbeatFails
    <2>2. actor' \in Seats \cup {None} /\ endReason' \in Reasons /\ lost' \in BOOLEAN
      BY DEF RunnerInv, TypeOK, Reasons, GameOver, ReachCeiling, NextMove, AskSeat, Tick,
             HeartbeatFails
    <2> QED BY <1>1, <2>1, <2>2 DEF RunnerInv, TypeOK
  <1>5. OutAgrees'
    <2>1. endReason = "ten_minute" <=> endReason' = "ten_minute"
      BY DEF RunnerInv, EndAgrees, AtLimits, GameOver, ReachCeiling, NextMove, AskSeat, Tick,
             HeartbeatFails
    <2> QED BY <1>1, <2>1 DEF RunnerInv, OutAgrees, Eligible, Slowest
  <1>6. EndAgrees'
    BY DEF RunnerInv, TypeOK, EndAgrees, AtLimits, GoesOn, GameOver, ReachCeiling, NextMove,
           AskSeat, Tick, HeartbeatFails
  <1>7. NothingLeft'
    BY <1>1 DEF RunnerInv, NothingLeft, GameOver, ReachCeiling, NextMove, AskSeat, Tick,
           HeartbeatFails
  <1>8. RefusedOnlyAtTheLimit'
    BY <1>1 DEF RefusedOnlyAtTheLimit
  <1> QED BY <1>2, <1>3, <1>4, <1>5, <1>6, <1>7, <1>8 DEF RunnerInv

LEMMA PrepareStep ==
    ASSUME RunnerInv, \/ Prepare \/ (HeartbeatFails /\ pc = "preparing")
    PROVE  RunnerInv'
  <1> USE DEF tally, board, academy, Driving, Prepare, HeartbeatFails
  <1>1. UNCHANGED <<stored, events, sequence, strikes, decisions, total, disqualified>>
    OBVIOUS
  <1>2. Moves' = Moves /\ (NoLateAnswer /\ ThirdStrikeEnds)'
    BY <1>1, QuietMoves
  <1>3. Moves = <<>>
    BY EmptySeq, ConcatEmptySeq DEF RunnerInv, NothingLeft, Moves
  <1>4. BooksAgree'
    <2>1. /\ sequence' = Len(Moves')
          /\ \A s \in Seats :
                /\ strikes'[s] = Cardinality(Struck(Moves', s))
                /\ decisions'[s] = Cardinality(Timed(Moves', s))
                /\ total'[s] = Cardinality(Spent(Moves', s))
                /\ strikes'[s] <= decisions'[s] /\ decisions'[s] <= sequence'
                /\ strikes'[s] = 0 /\ decisions'[s] = 0 /\ ~disqualified'[s]
      BY <1>1, <1>2, <1>3, NoRows, EmptySeq DEF RunnerInv, NothingLeft
    <2> QED BY <2>1 DEF BooksAgree, Struck, Timed, Spent
  <1>5. TypeOK'
    BY DEF RunnerInv, TypeOK, Reasons
  <1>6. OutAgrees'
    BY DEF RunnerInv, NothingLeft, OutAgrees
  <1>7. EndAgrees' /\ NothingLeft' /\ RefusedOnlyAtTheLimit'
    BY DEF RunnerInv, NothingLeft, EndAgrees, RefusedOnlyAtTheLimit
  <1> QED BY <1>2, <1>4, <1>5, <1>6, <1>7 DEF RunnerInv

\* Ten minutes: who is eligible is who is not out yet.
LEMMA TenMinutesStep ==
    ASSUME RunnerInv, ReachTenMinutes
    PROVE  RunnerInv'
  <1> USE DEF tally, board, academy, Driving, ReachTenMinutes
  <1>1. /\ UNCHANGED <<stored, events, sequence, strikes, decisions, total, clock>>
        /\ pc \in Driving /\ pc' = "ending"
        /\ endReason = "normal"
    BY DEF RunnerInv, EndAgrees, AtLimits
  <1>2. TimedSeats = Eligible
    <2>1. \A s \in Submitted : ~disqualified[s] <=> strikes[s] < 3
      BY <1>1 DEF RunnerInv, OutAgrees, TypeOK
    <2> QED BY <2>1 DEF TimedSeats, Eligible
  <1>3. Slowest(Eligible, total, decisions) \subseteq Submitted
    BY DEF Slowest, Eligible
  <1>4. \A s \in Seats :
            disqualified'[s] = (disqualified[s] \/ s \in Slowest(Eligible, total, decisions))
    BY <1>2
  <1>5. (NoLateAnswer /\ ThirdStrikeEnds)'
    BY <1>1, QuietMoves
  <1>6. BooksAgree'
    <2>1. \A s \in Seats \ Submitted : disqualified'[s] = disqualified[s]
      BY <1>3, <1>4 DEF RunnerInv, TypeOK
    <2> QED BY <1>1, <2>1, QuietBooks
  <1>7. TypeOK'
    <2>1. disqualified' \in [Seats -> BOOLEAN]
      BY <1>2 DEF RunnerInv, TypeOK
    <2>2. agent' \in [Submitted -> {"none", "running", "behind"}]
      BY DEF RunnerInv, TypeOK
    <2> QED BY <1>1, <2>1, <2>2 DEF RunnerInv, TypeOK, Reasons
  <1>8. OutAgrees'
    <2>1. (Slowest(Eligible, total, decisions))' = Slowest(Eligible, total, decisions)
      BY <1>1 DEF Slowest, Eligible
    <2>2. \A s \in Submitted : disqualified[s] <=> strikes[s] = 3
      BY <1>1 DEF RunnerInv, OutAgrees
    <2>3. \A s \in Submitted :
              disqualified'[s] <=> \/ strikes'[s] = 3
                                   \/ s \in (Slowest(Eligible, total, decisions))'
      BY <1>1, <1>4, <2>1, <2>2
    <2> QED BY <1>1, <2>3 DEF OutAgrees
  <1>9. EndAgrees' /\ RefusedOnlyAtTheLimit'
    BY <1>1 DEF RunnerInv, EndAgrees, RefusedOnlyAtTheLimit
  <1>10. NothingLeft'
    BY <1>1 DEF RunnerInv, NothingLeft
  <1> QED BY <1>5, <1>6, <1>7, <1>8, <1>9, <1>10 DEF RunnerInv
-----------------------------------------------------------------------------
(* A move *)

\* What a move takes from the mover's account: nothing, or a decision of us
\* units that may be a strike.
Charged(us, strike) ==
    IF us = None
    THEN ~strike /\ UNCHANGED <<strikes, decisions, total, disqualified>>
    ELSE /\ actor \in Submitted /\ Charge(actor, us)
         /\ IF strike THEN Strike(actor) ELSE UNCHANGED <<strikes, disqualified>>

LEMMA ChargedBooks ==
    ASSUME RunnerInv, pc = "acting", NEW us \in Us \cup {None}, NEW strike \in BOOLEAN,
           us # None => ~disqualified[actor], Charged(us, strike), NEW s \in Seats
    PROVE  /\ us # None => strikes[actor] < 3
           /\ strikes'[s] = strikes[s] + (IF actor = s /\ strike THEN 1 ELSE 0)
           /\ decisions'[s] = decisions[s] + (IF actor = s /\ us # None THEN 1 ELSE 0)
           /\ total'[s] = total[s] + (IF actor = s /\ us # None THEN us ELSE 0)
           /\ disqualified'[s] <=> (disqualified[s] \/ (actor = s /\ strike /\ strikes[s] = 2))
           /\ strikes' \in [Seats -> 0 .. 3] /\ decisions' \in [Seats -> Nat]
           /\ total' \in [Seats -> Nat] /\ disqualified' \in [Seats -> BOOLEAN]
  <1>1. /\ strikes \in [Seats -> 0 .. 3] /\ decisions \in [Seats -> Nat]
        /\ total \in [Seats -> Nat] /\ disqualified \in [Seats -> BOOLEAN]
        /\ actor \in Seats /\ (us # None => us \in Nat)
    BY DEF RunnerInv, TypeOK, NothingLeft, Us
  <1>2. us # None => actor \in Submitted /\ strikes[actor] < 3
    <2>1. \A s1 \in Submitted : disqualified[s1] <=> strikes[s1] = 3
      BY DEF RunnerInv, OutAgrees, EndAgrees, Driving
    <2>2. us # None => actor \in Submitted
      BY DEF Charged
    <2>3. us # None => strikes[actor] # 3 /\ strikes[actor] \in 0 .. 3
      BY <1>1, <2>1, <2>2
    <2> QED BY <2>2, <2>3
  <1>3. CASE us = None
    BY <1>1, <1>3 DEF Charged
  <1>4. CASE us # None /\ ~strike
    BY <1>1, <1>2, <1>4 DEF Charged, Charge
  <1>5. CASE us # None /\ strike
    <2>1. ~disqualified[actor] /\ strikes[actor] \in 0 .. 2
      <3>1. strikes[actor] < 3 /\ actor \in Submitted
        BY <1>2, <1>5
      <3>2. strikes[actor] \in 0 .. 2
        BY <1>1, <3>1
      <3>3. ~disqualified[actor]
        BY <1>5
      <3> QED BY <3>2, <3>3
    <2>2. /\ decisions' = [decisions EXCEPT ![actor] = @ + 1]
          /\ total' = [total EXCEPT ![actor] = @ + us]
          /\ strikes' = [strikes EXCEPT ![actor] = @ + 1]
      BY <1>5 DEF Charged, Charge, Strike
    <2>3. disqualified' = [disqualified EXCEPT ![actor] = (strikes[actor] + 1 >= 3)]
      BY <1>5 DEF Charged, Strike
    <2>4. /\ decisions' \in [Seats -> Nat] /\ total' \in [Seats -> Nat]
          /\ strikes' \in [Seats -> 0 .. 3]
      <3>1. /\ decisions[actor] + 1 \in Nat /\ total[actor] + us \in Nat
            /\ strikes[actor] + 1 \in 0 .. 3
        BY <1>1, <1>5, <2>1
      <3> QED BY <1>1, <2>2, <3>1, Zenon
    <2>5. (strikes[actor] + 1 >= 3) \in BOOLEAN
      BY <2>1
    <2>6. disqualified' \in [Seats -> BOOLEAN]
      BY <1>1, <2>3, <2>5, Zenon
    <2>7. disqualified'[s] = IF actor = s THEN (strikes[actor] + 1 >= 3) ELSE disqualified[s]
      BY <1>1, <2>3, Zenon
    <2>8. (strikes[actor] + 1 >= 3) <=> strikes[actor] = 2
      BY <2>1
    <2>9. disqualified'[s] <=> (disqualified[s] \/ (actor = s /\ strike /\ strikes[s] = 2))
      BY <1>5, <2>1, <2>7, <2>8, Zenon
    <2>10. /\ strikes'[s] = strikes[s] + (IF actor = s THEN 1 ELSE 0)
           /\ decisions'[s] = decisions[s] + (IF actor = s THEN 1 ELSE 0)
           /\ total'[s] = total[s] + (IF actor = s THEN us ELSE 0)
      BY <1>1, <2>2
    <2> QED BY <1>2, <1>5, <2>4, <2>6, <2>9, <2>10
  <1> QED BY <1>3, <1>4, <1>5

LEMMA PlayedStep ==
    ASSUME RunnerInv, pc = "acting", NEW us \in Us \cup {None}, NEW strike \in BOOLEAN,
           us # None => ~disqualified[actor], Charged(us, strike), Play(us, strike, FALSE),
           clock' \in 0 .. PlayLimit, agent' \in [Submitted -> {"none", "running"}]
    PROVE  RunnerInv'
  <1> DEFINE e == [seat |-> actor, us |-> us, strike |-> strike, late |-> FALSE]
  <1> USE DEF Play, Driving
  <1>1. /\ stored \in Seq(Event) /\ events \in Seq(Event) /\ Fine(Moves)
        /\ actor \in Seats /\ sequence \in Nat /\ sequence < ActionCeiling
        /\ endReason = "normal"
    BY MovesFine DEF RunnerInv, TypeOK, NothingLeft, EndAgrees
  <1>2. e \in Event /\ e.seat = actor /\ e.us = us /\ e.strike = strike /\ ~e.late
    BY <1>1 DEF Event
  <1> HIDE DEF e
  <1>3. /\ stored' = stored /\ events' = Append(events, e) /\ pc' = "played"
        /\ sequence' = sequence + 1 /\ endReason' = endReason
    BY DEF e, academy
  <1>4. Moves \in Seq(Event) /\ Moves' = Append(Moves, e)
    <2>1. <<e>> \in Seq(Event)
      BY <1>2
    <2>2. Append(events, e) = events \o <<e>>
      BY <1>1, <1>2, AppendIsConcat
    <2>3. Moves \in Seq(Event)
      BY <1>1, ConcatProperties DEF Moves
    <2>4. Append(Moves, e) = Moves \o <<e>>
      BY <2>3, <1>2, AppendIsConcat
    <2>5. (stored \o events) \o <<e>> = stored \o (events \o <<e>>)
      BY <1>1, <2>1, ConcatAssociative
    <2> QED BY <1>3, <2>2, <2>3, <2>4, <2>5 DEF Moves
  <1>5. \A s \in Seats :
            /\ strikes[s] = Cardinality(Struck(Moves, s))
            /\ decisions[s] = Cardinality(Timed(Moves, s))
            /\ total[s] = Cardinality(Spent(Moves, s))
            /\ strikes[s] <= decisions[s] /\ decisions[s] <= sequence
            /\ s \notin Submitted => strikes[s] = 0 /\ decisions[s] = 0 /\ ~disqualified[s]
    BY DEF RunnerInv, BooksAgree
  <1>6. sequence' = Len(Moves')
    <2>1. sequence = Len(Moves)
      BY DEF RunnerInv, BooksAgree
    <2>2. Len(Append(Moves, e)) = Len(Moves) + 1
      BY <1>2, <1>4, AppendProperties
    <2> QED BY <1>3, <1>4, <2>1, <2>2
  <1>7. Fine(Moves')
    <2>1. e.us # None => Cardinality(Struck(Moves, e.seat)) < 3
      BY <1>1, <1>2, <1>5, ChargedBooks
    <2> QED BY <2>1, <1>1, <1>2, <1>4, AppendFine
  <1>8. (NoLateAnswer /\ ThirdStrikeEnds)'
    BY <1>7 DEF Fine, NoLateAnswer, ThirdStrikeEnds, Struck
  <1>9. /\ strikes' \in [Seats -> 0 .. 3] /\ decisions' \in [Seats -> Nat]
        /\ total' \in [Seats -> Nat] /\ disqualified' \in [Seats -> BOOLEAN]
    BY <1>1, ChargedBooks
  <1>10. ASSUME NEW s \in Seats
         PROVE  /\ strikes'[s] = Cardinality(Struck(Moves', s))
                /\ decisions'[s] = Cardinality(Timed(Moves', s))
                /\ total'[s] = Cardinality(Spent(Moves', s))
                /\ strikes'[s] <= decisions'[s] /\ decisions'[s] <= sequence'
                /\ s \notin Submitted =>
                      strikes'[s] = 0 /\ decisions'[s] = 0 /\ ~disqualified'[s]
    <2>1. /\ Cardinality(Struck(Moves', s)) = Cardinality(Struck(Moves, s))
                                             + (IF actor = s /\ strike THEN 1 ELSE 0)
          /\ Cardinality(Timed(Moves', s)) = Cardinality(Timed(Moves, s))
                                            + (IF actor = s /\ us # None THEN 1 ELSE 0)
          /\ Cardinality(Spent(Moves', s)) = Cardinality(Spent(Moves, s))
                                            + (IF actor = s /\ us # None THEN us ELSE 0)
      BY <1>2, <1>4, OneMoreRow
    <2>2. /\ strikes'[s] = strikes[s] + (IF actor = s /\ strike THEN 1 ELSE 0)
          /\ decisions'[s] = decisions[s] + (IF actor = s /\ us # None THEN 1 ELSE 0)
          /\ total'[s] = total[s] + (IF actor = s /\ us # None THEN us ELSE 0)
          /\ disqualified'[s] <=> (disqualified[s] \/ (actor = s /\ strike /\ strikes[s] = 2))
      <3>1. /\ strikes'[s] = strikes[s] + (IF actor = s /\ strike THEN 1 ELSE 0)
            /\ decisions'[s] = decisions[s] + (IF actor = s /\ us # None THEN 1 ELSE 0)
            /\ total'[s] = total[s] + (IF actor = s /\ us # None THEN us ELSE 0)
        BY ChargedBooks
      <3>2. disqualified'[s] <=> (disqualified[s] \/ (actor = s /\ strike /\ strikes[s] = 2))
        BY ChargedBooks
      <3> QED BY <3>1, <3>2
    <2>3. strike => us # None
      BY DEF Charged
    <2>4. /\ strikes[s] \in Nat /\ decisions[s] \in Nat
          /\ strikes'[s] <= decisions'[s] /\ decisions'[s] <= sequence'
      BY <1>1, <1>3, <1>5, <2>2, <2>3 DEF RunnerInv, TypeOK
    <2>5. us # None => actor \in Submitted
      BY DEF Charged
    <2>6. s \notin Submitted => strikes'[s] = 0 /\ decisions'[s] = 0 /\ ~disqualified'[s]
      BY <1>5, <2>2, <2>3, <2>5
    <2> QED BY <1>5, <2>1, <2>2, <2>4, <2>6
  <1>11. BooksAgree'
    BY <1>6, <1>10 DEF BooksAgree, Struck, Timed, Spent
  <1>12. OutAgrees'
    <2>1. ASSUME NEW s \in Submitted PROVE disqualified'[s] <=> strikes'[s] = 3
      <3>1. disqualified[s] <=> strikes[s] = 3
        BY <1>1 DEF RunnerInv, OutAgrees
      <3>2. /\ strikes'[s] = strikes[s] + (IF actor = s /\ strike THEN 1 ELSE 0)
            /\ disqualified'[s] <=> (disqualified[s] \/ (actor = s /\ strike /\ strikes[s] = 2))
            /\ us # None => strikes[actor] < 3
        <4>1. us # None => ~disqualified[actor]
          OBVIOUS
        <4>2. Charged(us, strike)
          OBVIOUS
        <4> QED BY <4>1, <4>2, ChargedBooks, SMTT(20)
      <3>3. strike => us # None
        BY DEF Charged
      <3>4. strikes[s] \in 0 .. 3
        BY DEF RunnerInv, TypeOK
      <3> QED BY <3>1, <3>2, <3>3, <3>4
    <2> QED BY <1>1, <1>3, <2>1 DEF OutAgrees
  <1>13. TypeOK'
    <2>1. events' \in Seq(Event) /\ sequence' \in 0 .. ActionCeiling
      BY <1>1, <1>2, <1>3, AppendProperties
    <2> QED BY <1>3, <1>9, <2>1 DEF RunnerInv, TypeOK, academy
  <1>14. EndAgrees' /\ RefusedOnlyAtTheLimit'
    BY <1>1, <1>3 DEF EndAgrees, RefusedOnlyAtTheLimit
  <1>15. NothingLeft'
    BY <1>3 DEF NothingLeft
  <1> QED BY <1>8, <1>11, <1>12, <1>13, <1>14, <1>15 DEF RunnerInv

LEMMA MoveStep == ASSUME RunnerInv, Move PROVE RunnerInv'
  <1> USE DEF tally
  <1>1. clock \in 0 .. PlayLimit /\ \A us \in Nat : Later(us) \in 0 .. PlayLimit
    BY DEF RunnerInv, TypeOK, Later, Smaller
  <1>2. agent \in [Submitted -> {"none", "running"}]
    BY DEF RunnerInv, TypeOK, NothingLeft
  <1>3. DecisionLimit \in Us /\ 0 \in Us /\ \A us \in Us : us \in Nat /\ us # None
    BY DEF Us
  <1>4. CASE AutoMove
    BY <1>1, <1>2, <1>4, PlayedStep DEF AutoMove, Charged
  <1>5. ASSUME NEW s \in Submitted, NEW us \in Us, Answer(s, us) PROVE RunnerInv'
    <2>1. /\ pc = "acting" /\ actor = s /\ ~disqualified[actor] /\ Play(us, FALSE, FALSE)
          /\ Charged(us, FALSE)
      BY <1>2, <1>3, <1>5 DEF Answer, Asked, Charged
    <2>2. clock' \in 0 .. PlayLimit /\ agent' \in [Submitted -> {"none", "running"}]
      BY <1>1, <1>2, <1>3, <1>5 DEF Answer
    <2> QED BY <2>1, <2>2, <1>3, PlayedStep
  <1>6. ASSUME NEW s \in Submitted, NEW us \in Us, NEW thinking, Asked(s),
               Play(us, TRUE, FALSE), Charge(s, us), Strike(s),
               clock' \in {clock, Later(us)}, Restarted(s, thinking) \/ UNCHANGED agent
        PROVE  RunnerInv'
    <2>1. /\ pc = "acting" /\ actor = s /\ ~disqualified[actor] /\ Charged(us, TRUE)
      BY <1>3, <1>6 DEF Asked, Charged
    <2>2. clock' \in 0 .. PlayLimit /\ agent' \in [Submitted -> {"none", "running"}]
      BY <1>1, <1>2, <1>3, <1>6 DEF Restarted
    <2> QED BY <2>1, <2>2, <1>3, <1>6, PlayedStep
  <1>7. ASSUME NEW s \in Submitted, NEW us \in Us, Misplay(s, us) PROVE RunnerInv'
    BY <1>6, <1>7 DEF Misplay
  <1>8. ASSUME NEW s \in Submitted, Timeout(s) PROVE RunnerInv'
    BY <1>3, <1>6, <1>8 DEF Timeout
  <1>9. ASSUME NEW s \in Submitted, NoStart(s) PROVE RunnerInv'
    BY <1>3, <1>6, <1>9 DEF NoStart
  <1>10. ASSUME NEW s \in Submitted, SlowStart(s) PROVE RunnerInv'
    BY <1>3, <1>6, <1>10 DEF SlowStart
  <1>11. ASSUME NEW s \in Submitted, Undecodable(s) PROVE RunnerInv'
    <2>1. lease' \in BOOLEAN /\ game' \in {"leased", "done", "infra_failed"} /\ stored' = stored
      BY <1>11 DEF Undecodable, academy, RunnerInv, TypeOK
    <2> QED BY <1>11, <2>1, Left DEF Undecodable
  <1> QED BY <1>4, <1>5, <1>7, <1>8, <1>9, <1>10, <1>11 DEF Move
-----------------------------------------------------------------------------
(* Uploads and the result *)

LEMMA UploadStep == ASSUME RunnerInv, Upload PROVE RunnerInv'
  <1> USE DEF Upload, MustUpload, tally, Driving
  <1>1. stored \in Seq(Event) /\ events \in Seq(Event) /\ Moves \in Seq(Event)
    BY ConcatProperties DEF RunnerInv, TypeOK, Moves
  <1>2. Moves' = Moves
    BY <1>1, ConcatEmptySeq DEF Moves
  <1>3. (NoLateAnswer /\ ThirdStrikeEnds)'
    <2>1. Fine(Moves')
      BY <1>2, MovesFine DEF RunnerInv
    <2> QED BY <2>1 DEF Fine, NoLateAnswer, ThirdStrikeEnds, Struck
  <1>4. BooksAgree'
    <2>1. /\ sequence' = Len(Moves')
          /\ \A s \in Seats :
                /\ strikes'[s] = Cardinality(Struck(Moves', s))
                /\ decisions'[s] = Cardinality(Timed(Moves', s))
                /\ total'[s] = Cardinality(Spent(Moves', s))
                /\ strikes'[s] <= decisions'[s] /\ decisions'[s] <= sequence'
                /\ s \notin Submitted =>
                      strikes'[s] = 0 /\ decisions'[s] = 0 /\ ~disqualified'[s]
      BY <1>2 DEF RunnerInv, BooksAgree
    <2> QED BY <2>1 DEF BooksAgree, Struck, Timed, Spent
  <1>5. TypeOK'
    <2>1. stored' \in Seq(Event) /\ events' \in Seq(Event)
      BY <1>1, EmptySeq DEF Moves
    <2> QED BY <2>1 DEF RunnerInv, TypeOK
  <1>6. OutAgrees'
    BY DEF RunnerInv, OutAgrees, Eligible, Slowest
  <1>7. EndAgrees' /\ RefusedOnlyAtTheLimit'
    BY DEF RunnerInv, EndAgrees, RefusedOnlyAtTheLimit
  <1>8. NothingLeft'
    BY DEF RunnerInv, NothingLeft
  <1> QED BY <1>3, <1>4, <1>5, <1>6, <1>7, <1>8 DEF RunnerInv

\* What the worker reports is what the Academy finds in its rows, unless the
\* clock has run into the limit since the game ended by the rules.
LEMMA ResultStep == ASSUME RunnerInv, MakeResult PROVE RunnerInv'
  <1> USE DEF tally, board, academy, Driving
  <1>1. /\ pc = "ending" /\ pc' = "reporting" /\ events = <<>>
        /\ UNCHANGED <<stored, events, sequence, strikes, decisions, total, disqualified,
                       endReason, lease, game, agent, actor, clock, gameDone>>
    BY DEF MakeResult, MustUpload
  <1>2. (NoLateAnswer /\ ThirdStrikeEnds)'
    BY <1>1, QuietMoves
  <1>3. BooksAgree'
    BY <1>1, QuietBooks
  <1>4. TypeOK'
    BY <1>1 DEF RunnerInv, TypeOK, MakeResult
  <1>5. OutAgrees'
    BY <1>1 DEF RunnerInv, OutAgrees, Eligible, Slowest
  <1>6. EndAgrees' /\ NothingLeft'
    BY <1>1 DEF RunnerInv, EndAgrees, NothingLeft
  <1>7. Moves = stored
    BY <1>1, ConcatEmptySeq DEF RunnerInv, TypeOK, Moves
  <1>8. PICK worth \in Worths :
            result' = [reason |-> endReason, duration |-> clock, done |-> gameDone,
                       actions |-> sequence, strikes |-> strikes,
                       decisions |-> decisions, total |-> total,
                       disqualified |-> disqualified, worth |-> worth,
                       winner |-> OrNone(Winners(disqualified),
                                         Richest(Winners(disqualified), worth))]
    BY DEF MakeResult
  <1> DEFINE r == result'
  <1>9. /\ r.reason = endReason /\ r.duration = clock /\ r.done = gameDone
        /\ r.actions = sequence /\ r.strikes = strikes /\ r.decisions = decisions
        /\ r.total = total /\ r.disqualified = disqualified /\ r.worth = worth
        /\ r.winner = OrNone(Winners(disqualified), Richest(Winners(disqualified), worth))
    BY <1>8
  <1> HIDE DEF r
  <1>10. /\ sequence = Len(stored)
         /\ \A s \in Seats :
               /\ strikes[s] = Cardinality(Struck(stored, s))
               /\ decisions[s] = Cardinality(Timed(stored, s))
               /\ total[s] = Cardinality(Spent(stored, s))
               /\ strikes[s] <= decisions[s] /\ decisions[s] <= sequence
               /\ s \notin Submitted => strikes[s] = 0 /\ decisions[s] = 0 /\ ~disqualified[s]
    BY <1>1, <1>7 DEF RunnerInv, BooksAgree
  <1>11. MetricsAgree(r)
    BY <1>9, <1>10 DEF MetricsAgree
  <1>12. WinnerAgrees(r)
    BY <1>9 DEF WinnerAgrees
  <1>13. SeatsAgree(r)
    <2>1. TimingSeat(r) = IF endReason = "ten_minute"
                          THEN Slowest(Eligible, total, decisions) ELSE {}
      BY <1>9 DEF TimingSeat, Eligible
    <2>2. \A s \in Submitted : disqualified[s] <=> strikes[s] = 3 \/ s \in TimingSeat(r)
      BY <1>1, <2>1 DEF RunnerInv, OutAgrees
    <2>3. \A s \in Seats : strikes[s] <= 3
      <3>1. strikes \in [Seats -> 0 .. 3]
        BY DEF RunnerInv, TypeOK
      <3> QED BY <3>1
    <2> QED BY <1>9, <1>10, <2>2, <2>3 DEF SeatsAgree
  <1>14. ReasonAgrees(r) \/ (r.reason = "normal" /\ r.duration >= PlayLimit)
    <2>1. /\ endReason = "normal" => gameDone /\ sequence < ActionCeiling
          /\ endReason = "ten_minute" => clock >= PlayLimit /\ sequence < ActionCeiling
          /\ endReason = "action_ceiling" => sequence = ActionCeiling
          /\ clock \in Nat /\ sequence \in Nat
      BY <1>1 DEF RunnerInv, EndAgrees, TypeOK
    <2> QED BY <1>9, <1>10, <2>1 DEF ReasonAgrees
  <1>15. RefusedOnlyAtTheLimit'
    <2>1. stored' = stored
      BY <1>1
    <2>2. Acceptable(r) => Acceptable(result)'
      <3>1. MetricsAgree(r) => MetricsAgree(result)'
        BY <2>1 DEF r, MetricsAgree
      <3>2. ReasonAgrees(r) => ReasonAgrees(result)'
        BY <2>1 DEF r, ReasonAgrees
      <3>3. TimingSeat(r) = TimingSeat(result)'
        BY DEF r, TimingSeat, Slowest
      <3>4. SeatsAgree(r) => SeatsAgree(result)'
        BY <3>3 DEF r, SeatsAgree
      <3>5. WinnerAgrees(r) => WinnerAgrees(result)'
        BY DEF r, WinnerAgrees, OrNone, Richest, Winners
      <3> QED BY <3>1, <3>2, <3>4, <3>5 DEF Acceptable
    <2>3. Acceptable(r) \/ (r.reason = "normal" /\ r.duration >= PlayLimit)
      BY <1>11, <1>12, <1>13, <1>14 DEF Acceptable
    <2> QED BY <2>2, <2>3 DEF r, RefusedOnlyAtTheLimit
  <1> QED BY <1>2, <1>3, <1>4, <1>5, <1>6, <1>15 DEF RunnerInv

\* A result is judged by the stored events alone.
LEMMA SameJudgement ==
    ASSUME UNCHANGED <<result, stored>>
    PROVE  Acceptable(result)' <=> Acceptable(result)
  <1>1. MetricsAgree(result)' <=> MetricsAgree(result)
    BY DEF MetricsAgree, Struck, Timed, Spent
  <1>2. ReasonAgrees(result)' <=> ReasonAgrees(result)
    BY DEF ReasonAgrees
  <1>3. TimingSeat(result)' = TimingSeat(result)
    BY DEF TimingSeat, Slowest
  <1>4. SeatsAgree(result)' <=> SeatsAgree(result)
    BY <1>3 DEF SeatsAgree
  <1>5. WinnerAgrees(result)' <=> WinnerAgrees(result)
    BY DEF WinnerAgrees, OrNone, Richest, Winners
  <1> QED BY <1>1, <1>2, <1>4, <1>5 DEF Acceptable

\* The attempt is left: the games it may leave behind.
LEMMA LeaveStep ==
    ASSUME RunnerInv, \/ PreparationFails \/ LeaseLost \/ UploadFails \/ Accept \/ ReportFails \/ Die
    PROVE  RunnerInv'
  <1>1. lease \in BOOLEAN /\ game \in {"leased", "done", "infra_failed"}
    BY DEF RunnerInv, TypeOK
  <1>2. CASE PreparationFails \/ LeaseLost \/ ReportFails
    BY <1>1, <1>2, Left DEF PreparationFails, LeaseLost, ReportFails, academy
  <1>3. CASE UploadFails
    BY <1>1, <1>3, Left DEF UploadFails, Moves
  <1>4. CASE Accept
    BY <1>1, <1>4, Left DEF Accept
  <1>5. CASE Die
    BY <1>1, <1>5, Left DEF Die, academy
  <1> QED BY <1>2, <1>3, <1>4, <1>5

\* Steps of the Academy alone, and the report of a failure.
LEMMA AcademyStep ==
    ASSUME RunnerInv, \/ LoseLease \/ GiveUp
    PROVE  RunnerInv'
  <1> USE DEF tally, board, academy, Driving, LoseLease, GiveUp
  <1>1. /\ UNCHANGED <<actor, agent, strikes, decisions, total, disqualified, clock, gameDone,
                       sequence, events, endReason, lost, result, stored>>
        /\ pc' = pc \/ (pc = "failed" /\ pc' = "over")
        /\ lease' \in BOOLEAN /\ game' \in {"leased", "done", "infra_failed"}
        /\ lease' => lease
    <2>1. lease \in BOOLEAN /\ game \in {"leased", "done", "infra_failed"}
      BY DEF RunnerInv, TypeOK
    <2>2. CASE LoseLease
      BY <2>1, <2>2
    <2>3. CASE GiveUp
      <3>1. (game' = "infra_failed" /\ lease' = FALSE) \/ UNCHANGED <<game, lease>>
        BY <2>3
      <3>2. /\ lease' \in BOOLEAN /\ game' \in {"leased", "done", "infra_failed"}
            /\ lease' => lease
        <4>1. CASE game' = "infra_failed" /\ lease' = FALSE
          BY <4>1
        <4>2. CASE UNCHANGED <<game, lease>>
          BY <2>1, <4>2
        <4> QED BY <3>1, <4>1, <4>2
      <3> QED BY <2>3, <3>2
    <2> QED BY <2>2, <2>3
  <1>2. Moves' = Moves /\ (NoLateAnswer /\ ThirdStrikeEnds)'
    BY <1>1, QuietMoves
  <1>3. BooksAgree'
    <2>1. CASE pc' = pc /\ pc \in Driving
      BY <1>1, <2>1, QuietBooks
    <2>2. CASE pc' \notin Driving
      BY <2>2 DEF BooksAgree
    <2> QED BY <1>1, <2>1, <2>2
  <1>4. TypeOK'
    BY <1>1 DEF RunnerInv, TypeOK
  <1>5. OutAgrees'
    BY <1>1 DEF RunnerInv, OutAgrees, Eligible, Slowest
  <1>6. EndAgrees'
    BY <1>1 DEF RunnerInv, EndAgrees
  <1>7. NothingLeft'
    BY <1>1 DEF RunnerInv, NothingLeft
  <1>8. RefusedOnlyAtTheLimit'
    <2>1. Acceptable(result)' <=> Acceptable(result)
      BY <1>1, SameJudgement
    <2> QED BY <1>1, <2>1 DEF RunnerInv, RefusedOnlyAtTheLimit
  <1> QED BY <1>2, <1>3, <1>4, <1>5, <1>6, <1>7, <1>8 DEF RunnerInv

LEMMA StutterStep == ASSUME RunnerInv, UNCHANGED vars PROVE RunnerInv'
  <1> USE DEF vars, tally, board, academy
  <1>1. (NoLateAnswer /\ ThirdStrikeEnds)'
    BY QuietMoves
  <1>2. (TypeOK /\ OutAgrees /\ EndAgrees /\ NothingLeft)'
    BY DEF RunnerInv, TypeOK, OutAgrees, Eligible, Slowest, EndAgrees, NothingLeft
  <1>3. BooksAgree'
    <2>1. CASE pc \in Driving
      BY <2>1, QuietBooks
    <2>2. CASE pc \notin Driving
      BY <2>2 DEF BooksAgree, Driving
    <2> QED BY <2>1, <2>2
  <1>4. RefusedOnlyAtTheLimit'
    <2>1. Acceptable(result)' <=> Acceptable(result)
      BY SameJudgement
    <2> QED BY <2>1 DEF RunnerInv, RefusedOnlyAtTheLimit
  <1> QED BY <1>1, <1>2, <1>3, <1>4 DEF RunnerInv

THEOREM RunnerStep == RunnerInv /\ [Next]_vars => RunnerInv'
  <1> SUFFICES ASSUME RunnerInv, [Next]_vars PROVE RunnerInv'
    OBVIOUS
  <1>1. CASE Prepare \/ HeartbeatFails
    BY <1>1, PrepareStep, QuietStep
  <1>2. CASE GameOver \/ ReachCeiling \/ NextMove \/ AskSeat \/ Tick
    BY <1>2, QuietStep
  <1>3. CASE ReachTenMinutes
    BY <1>3, TenMinutesStep
  <1>4. CASE Move
    BY <1>4, MoveStep
  <1>5. CASE Upload
    BY <1>5, UploadStep
  <1>6. CASE MakeResult
    BY <1>6, ResultStep
  <1>7. CASE PreparationFails \/ LeaseLost \/ UploadFails \/ Accept \/ ReportFails \/ Die
    BY <1>7, LeaveStep
  <1>8. CASE LoseLease \/ GiveUp
    BY <1>8, AcademyStep
  <1>9. CASE UNCHANGED vars
    BY <1>9, StutterStep
  <1> QED BY <1>1, <1>2, <1>3, <1>4, <1>5, <1>6, <1>7, <1>8, <1>9 DEF Next, Worker
-----------------------------------------------------------------------------
(* The theorems *)

\* The inductive invariant: the worker's books are what its moves say, its end
\* of the game is one of the three, and the four properties.
THEOREM RunnerSound == Spec => []RunnerInv
  BY RunnerInit, RunnerStep, PTL DEF Spec

\* Types, of SeatRuntime and of the Academy's rows; no seat has a fourth strike.
THEOREM RunnerTypes == Spec => []TypeOK
  <1>1. RunnerInv => TypeOK
    BY DEF RunnerInv
  <1> QED BY <1>1, RunnerSound, PTL

\* The Academy's judgement, recomputed from the stored events, agrees with the
\* worker's, except at the play limit (worker_result, timing_disqualification).
THEOREM JudgementsAgree == Spec => []RefusedOnlyAtTheLimit
  <1>1. RunnerInv => RefusedOnlyAtTheLimit
    BY DEF RunnerInv
  <1> QED BY <1>1, RunnerSound, PTL

\* A late answer is never taken for the answer to the next request.
THEOREM AnswersInTime == Spec => []NoLateAnswer
  <1>1. RunnerInv => NoLateAnswer
    BY DEF RunnerInv
  <1> QED BY <1>1, RunnerSound, PTL

\* An agent with three strikes is not asked again.
THEOREM ThreeStrikesAreOut == Spec => []ThirdStrikeEnds
  <1>1. RunnerInv => ThirdStrikeEnds
    BY DEF RunnerInv
  <1> QED BY <1>1, RunnerSound, PTL
-----------------------------------------------------------------------------
(* Every step lowers what remains *)

LEMMA RemainingCounts ==
    ASSUME TypeOK
    PROVE  /\ IsCount(Remaining)
           /\ Stage \in Nat /\ Turn \in Nat /\ Len(events) \in Nat
           /\ sequence \in Nat /\ clock \in Nat
  <1>1. Stage \in Nat /\ Turn \in Nat
    BY DEF TypeOK, Stage, Turn
  <1>2. sequence \in Nat /\ ActionCeiling - sequence \in Nat
    BY DEF TypeOK
  <1>3. clock \in Nat /\ PlayLimit - clock \in Nat
    BY DEF TypeOK
  <1>4. Len(events) \in Nat
    BY LenProperties DEF TypeOK
  <1>5. (IF lost THEN 0 ELSE 1) \in Nat /\ (IF lease THEN 1 ELSE 0) \in Nat
    OBVIOUS
  <1>6. DOMAIN Remaining = 1 .. 7
    BY DEF Remaining
  <1>7. \A i \in 1 .. 7 : Remaining[i] \in Nat
    <2>1. \A i \in 1 .. 7 : i = 1 \/ i = 2 \/ i = 3 \/ i = 4 \/ i = 5 \/ i = 6 \/ i = 7
      OBVIOUS
    <2> QED BY <1>1, <1>2, <1>3, <1>4, <1>5, <2>1 DEF Remaining
  <1> QED BY <1>1, <1>2, <1>3, <1>4, <1>6, <1>7 DEF IsCount

LEMMA RemainingIsCount == TypeOK => IsCount(Remaining)
  BY RemainingCounts

\* One lemma for each component that a step may lower.
LEMMA StageFalls ==
    ASSUME Stage' < Stage
    PROVE  Fewer(Remaining', Remaining)
  <1>1. Remaining'[1] < Remaining[1] /\ \A j \in 1 .. (1 - 1) : Remaining'[j] = Remaining[j]
    BY DEF Remaining
  <1> QED BY <1>1 DEF Fewer

LEMMA MovesFall ==
    ASSUME Stage' = Stage, sequence \in Nat, sequence' = sequence + 1
    PROVE  Fewer(Remaining', Remaining)
  <1>1. Remaining'[2] < Remaining[2]
    <2>1. ActionCeiling - sequence' < ActionCeiling - sequence
      OBVIOUS
    <2> QED BY <2>1 DEF Remaining
  <1>2. \A j \in 1 .. (2 - 1) : j = 1
    OBVIOUS
  <1>3. \A j \in 1 .. (2 - 1) : Remaining'[j] = Remaining[j]
    BY <1>2 DEF Remaining
  <1>4. 2 \in 1 .. 7
    OBVIOUS
  <1> QED BY <1>1, <1>3, <1>4 DEF Fewer

LEMMA TurnFalls ==
    ASSUME Stage' = Stage, sequence' = sequence, Turn' < Turn
    PROVE  Fewer(Remaining', Remaining)
  <1>1. Remaining'[3] < Remaining[3]
    BY DEF Remaining
  <1>2. \A j \in 1 .. (3 - 1) : j = 1 \/ j = 2
    OBVIOUS
  <1>3. \A j \in 1 .. (3 - 1) : Remaining'[j] = Remaining[j]
    BY <1>2 DEF Remaining
  <1>4. 3 \in 1 .. 7
    OBVIOUS
  <1> QED BY <1>1, <1>3, <1>4 DEF Fewer

LEMMA EventsFall ==
    ASSUME Stage' = Stage, sequence' = sequence, Turn' = Turn, Len(events') < Len(events)
    PROVE  Fewer(Remaining', Remaining)
  <1>1. Remaining'[4] < Remaining[4]
    BY DEF Remaining
  <1>2. \A j \in 1 .. (4 - 1) : j = 1 \/ j = 2 \/ j = 3
    OBVIOUS
  <1>3. \A j \in 1 .. (4 - 1) : Remaining'[j] = Remaining[j]
    BY <1>2 DEF Remaining
  <1>4. 4 \in 1 .. 7
    OBVIOUS
  <1> QED BY <1>1, <1>3, <1>4 DEF Fewer

LEMMA TimeFalls ==
    ASSUME UNCHANGED <<pc, sequence, events>>, clock \in Nat, clock' = clock + 1
    PROVE  Fewer(Remaining', Remaining)
  <1>1. Remaining'[5] < Remaining[5]
    <2>1. PlayLimit - clock' < PlayLimit - clock
      OBVIOUS
    <2> QED BY <2>1 DEF Remaining
  <1>2. \A j \in 1 .. (5 - 1) : j = 1 \/ j = 2 \/ j = 3 \/ j = 4
    OBVIOUS
  <1>3. \A j \in 1 .. (5 - 1) : Remaining'[j] = Remaining[j]
    <2>1. Stage' = Stage /\ Turn' = Turn
      BY DEF Stage, Turn
    <2> QED BY <1>2, <2>1 DEF Remaining
  <1>4. 5 \in 1 .. 7
    OBVIOUS
  <1> QED BY <1>1, <1>3, <1>4 DEF Fewer

LEMMA HeartFalls ==
    ASSUME UNCHANGED <<pc, sequence, events, clock>>, ~lost, lost'
    PROVE  Fewer(Remaining', Remaining)
  <1>1. Remaining'[6] < Remaining[6]
    BY DEF Remaining
  <1>2. \A j \in 1 .. (6 - 1) : j = 1 \/ j = 2 \/ j = 3 \/ j = 4 \/ j = 5
    OBVIOUS
  <1>3. \A j \in 1 .. (6 - 1) : Remaining'[j] = Remaining[j]
    <2>1. Stage' = Stage /\ Turn' = Turn
      BY DEF Stage, Turn
    <2> QED BY <1>2, <2>1 DEF Remaining
  <1>4. 6 \in 1 .. 7
    OBVIOUS
  <1> QED BY <1>1, <1>3, <1>4 DEF Fewer

LEMMA LeaseFalls ==
    ASSUME UNCHANGED <<pc, sequence, events, clock, lost>>, lease, ~lease'
    PROVE  Fewer(Remaining', Remaining)
  <1>1. Remaining'[7] < Remaining[7]
    BY DEF Remaining
  <1>2. \A j \in 1 .. (7 - 1) : j = 1 \/ j = 2 \/ j = 3 \/ j = 4 \/ j = 5 \/ j = 6
    OBVIOUS
  <1>3. \A j \in 1 .. (7 - 1) : Remaining'[j] = Remaining[j]
    <2>1. Stage' = Stage /\ Turn' = Turn
      BY DEF Stage, Turn
    <2> QED BY <1>2, <2>1 DEF Remaining
  <1>4. 7 \in 1 .. 7
    OBVIOUS
  <1> QED BY <1>1, <1>3, <1>4 DEF Fewer

\* A step that leaves a stage of the attempt behind.
LEMMA StageSteps ==
    ASSUME RunnerInv,
           \/ Prepare \/ PreparationFails \/ GameOver \/ LeaseLost \/ ReachCeiling
           \/ ReachTenMinutes \/ UploadFails \/ MakeResult \/ Accept \/ ReportFails
           \/ GiveUp \/ Die \/ \E s \in Submitted : Undecodable(s)
    PROVE  Stage' < Stage
  <1> USE DEF Stage
  <1>1. pc \in {"preparing", "loop", "acting", "played", "ending", "reporting",
                "failed", "over", "stopped"}
    BY DEF RunnerInv, TypeOK
  <1>2. CASE Prepare \/ PreparationFails
    BY <1>2 DEF Prepare, PreparationFails, Leave
  <1>3. CASE GameOver \/ LeaseLost \/ ReachCeiling \/ ReachTenMinutes
    BY <1>3 DEF GameOver, LeaseLost, ReachCeiling, ReachTenMinutes, AtLimits, Leave
  <1>4. CASE UploadFails \/ MakeResult \/ Accept \/ ReportFails
    BY <1>4 DEF UploadFails, MustUpload, MakeResult, Accept, ReportFails, Leave
  <1>5. CASE GiveUp
    BY <1>5 DEF GiveUp
  <1>6. CASE Die
    BY <1>1, <1>6 DEF Die, Leave
  <1>7. CASE \E s \in Submitted : Undecodable(s)
    BY <1>7 DEF Undecodable, Asked, Leave
  <1> QED BY <1>2, <1>3, <1>4, <1>5, <1>6, <1>7

LEMMA StepCounts ==
    ASSUME RunnerInv, Next
    PROVE  Fewer(Remaining', Remaining)
  <1>1. Stage \in Nat /\ Turn \in Nat /\ sequence \in Nat /\ clock \in Nat
    BY RemainingCounts DEF RunnerInv
  <1>2. CASE \/ Prepare \/ PreparationFails \/ GameOver \/ LeaseLost \/ ReachCeiling
             \/ ReachTenMinutes \/ UploadFails \/ MakeResult \/ Accept \/ ReportFails
             \/ GiveUp \/ Die \/ \E s \in Submitted : Undecodable(s)
    BY <1>2, StageSteps, StageFalls
  <1>3. CASE NextMove \/ AskSeat
    <2>1. Stage' = Stage /\ Turn' < Turn
      BY <1>3 DEF NextMove, AskSeat, Stage, Turn
    <2>2. sequence' = sequence
      BY <1>3 DEF NextMove, AskSeat, board
    <2> QED BY <2>1, <2>2, TurnFalls
  <1>4. CASE Move /\ ~\E s \in Submitted : Undecodable(s)
    <2>1. pc = "acting" /\ pc' = "played" /\ sequence' = sequence + 1
      BY <1>4 DEF Move, AutoMove, Answer, Misplay, Timeout, NoStart, SlowStart, Asked, Play
    <2>2. Stage' = Stage
      BY <2>1 DEF Stage
    <2> QED BY <1>1, <2>1, <2>2, MovesFall
  <1>5. CASE Upload
    <2>1. UNCHANGED <<pc, sequence>> /\ events' = <<>>
      BY <1>5 DEF Upload
    <2>2. events \in Seq(Event) /\ (Len(events) >= BatchSize \/ events # <<>>)
      BY <1>5 DEF Upload, MustUpload, RunnerInv, TypeOK
    <2>3. Len(events) \in Nat /\ (Len(events) = 0 => events = <<>>)
      BY <2>2
    <2>4. Len(events') = 0
      BY <2>1
    <2>5. Len(events') < Len(events)
      <3>1. Len(events) # 0
        BY <2>2, <2>3, RunnerAssumption DEF RunnerAssumption
      <3> QED BY <2>3, <2>4, <3>1
    <2>6. Stage' = Stage /\ Turn' = Turn
      BY <2>1 DEF Stage, Turn
    <2> QED BY <2>1, <2>5, <2>6, EventsFall
  <1>6. CASE Tick
    BY <1>1, <1>6, TimeFalls DEF Tick, board
  <1>7. CASE HeartbeatFails
    BY <1>7, HeartFalls DEF HeartbeatFails, board
  <1>8. CASE LoseLease
    BY <1>8, LeaseFalls DEF LoseLease, board
  <1> QED BY <1>2, <1>3, <1>4, <1>5, <1>6, <1>7, <1>8 DEF Next, Worker

\* Every step of an attempt and of the world around it uses up something that no other
\* step gives back (drive_game: the limits, the strikes, the uploads, the one heartbeat
\* thread): whatever agents and network do, an attempt has finitely many steps.
THEOREM AttemptsAreFinite == Spec => EveryStepCounts
  <1>1. RunnerInv => IsCount(Remaining)
    BY RemainingCounts DEF RunnerInv
  <1>2. IsCount(Remaining)' <=> IsCount(Remaining')
    BY DEF IsCount
  <1>3. RunnerInv' => IsCount(Remaining')
    BY <1>1, <1>2, PTL
  <1>4. RunnerInv /\ [Next]_vars => [Fewer(Remaining', Remaining)]_vars
    BY StepCounts
  <1>5. RunnerInv /\ RunnerInv' /\ [Next]_vars =>
            [IsCount(Remaining') /\ Fewer(Remaining', Remaining)]_vars
    BY <1>3, <1>4
  <1> QED BY RunnerSound, <1>5, PTL DEF Spec, EveryStepCounts
-----------------------------------------------------------------------------
(* The attempt that the worker and the Academy share *)

\* A game that was decided has no lease.
DecidedIsFree == game # "leased" => ~lease

\* The rows that Academy keeps are written under the lease only, and the lease ends
\* with them.
LEMMA LeaseKept ==
    ASSUME RunnerInv, DecidedIsFree, [Next]_vars
    PROVE  /\ DecidedIsFree'
           /\ \/ UNCHANGED academy
              \/ lease /\ stored' = stored /\ ~lease' /\ game' \in {game, "done", "infra_failed"}
              \/ lease /\ UNCHANGED <<lease, game>> /\ stored' = stored \o events
  <1> USE DEF DecidedIsFree, academy
  <1>0. lease \in BOOLEAN
    BY DEF RunnerInv, TypeOK
  <1>1. CASE UNCHANGED academy
    BY <1>1
  <1>2. CASE Upload
    BY <1>2 DEF Upload
  <1>3. CASE UploadFails
    BY <1>3 DEF UploadFails
  <1>4. CASE Accept
    BY <1>4 DEF Accept
  <1>5. CASE GiveUp
    BY <1>5 DEF GiveUp
  <1>6. CASE LoseLease
    BY <1>6 DEF LoseLease
  <1>7. CASE Move
    <2>1. UNCHANGED academy
      BY <1>7 DEF Move, AutoMove, Answer, Misplay, Timeout, NoStart, SlowStart, Undecodable, Play
    <2> QED BY <1>1, <2>1
  <1>8. CASE \/ Prepare \/ PreparationFails \/ GameOver \/ LeaseLost \/ ReachCeiling
             \/ ReachTenMinutes \/ NextMove \/ AskSeat
    <2>1. UNCHANGED academy
      BY <1>8 DEF Prepare, PreparationFails, GameOver, LeaseLost, ReachCeiling,
              ReachTenMinutes, NextMove, AskSeat
    <2> QED BY <1>1, <2>1
  <1>9. CASE MakeResult \/ ReportFails \/ Tick \/ HeartbeatFails \/ Die \/ UNCHANGED vars
    <2>1. UNCHANGED academy
      BY <1>9 DEF MakeResult, ReportFails, Tick, HeartbeatFails, Die, vars
    <2> QED BY <1>1, <2>1
  <1> QED BY <1>2, <1>3, <1>4, <1>5, <1>6, <1>7, <1>8, <1>9 DEF Next, Worker

LEMMA AttemptViewed ==
    ASSUME RunnerInv, DecidedIsFree, [Next]_vars
    PROVE  View' = View \/ Attempting!Step(View, View')
  <1> USE DEF View, Attempting!Step
  <1>0. lease \in BOOLEAN /\ stored \in Seq(Event) /\ events \in Seq(Event)
        /\ game \in {"leased", "done", "infra_failed"}
    BY DEF RunnerInv, TypeOK
  <1>1. CASE UNCHANGED academy
    BY <1>1 DEF academy
  <1>2. CASE lease /\ stored' = stored /\ ~lease' /\ game' \in {game, "done", "infra_failed"}
    <2>1. View = Attempting!Live(Len(stored))
      BY <1>0, <1>2 DEF DecidedIsFree, Attempting!Live
    <2>2. View' \in {Attempting!Completed(Len(stored)), Attempting!Lost(Len(stored))}
      BY <1>0, <1>2 DEF Attempting!Completed, Attempting!Lost
    <2> QED BY <2>1, <2>2 DEF Attempting!Finish, Attempting!Live
  <1>3. CASE lease /\ UNCHANGED <<lease, game>> /\ stored' = stored \o events
    <2>1. Len(stored') = Len(stored) + Len(events) /\ Len(stored) \in Nat /\ Len(events) \in Nat
      BY <1>0, <1>3, ConcatProperties, LenProperties
    <2>2. View = Attempting!Live(Len(stored)) /\ View' = Attempting!Live(Len(stored'))
      BY <1>0, <1>3 DEF DecidedIsFree, Attempting!Live
    <2>3. CASE Len(events) = 0
      BY <2>1, <2>2, <2>3
    <2>4. CASE Len(events) > 0
      <3>1. Len(stored') > Len(stored)
        BY <2>1, <2>4
      <3> QED BY <2>2, <3>1 DEF Attempting!Store, Attempting!Live
    <2> QED BY <2>1, <2>3, <2>4
  <1> QED BY <1>1, <1>2, <1>3, LeaseKept

\* What the worker does to its attempt, through lost answers, late uploads and its own
\* failure report, is what the tournament queue takes an attempt to be.
THEOREM RefinesLeasedAttempt == Spec => IsLeasedAttempt
  <1>1. Init => RunnerInv /\ DecidedIsFree
    BY RunnerInit DEF Init, DecidedIsFree
  <1>2. RunnerInv /\ DecidedIsFree /\ [Next]_vars => RunnerInv' /\ DecidedIsFree'
    BY RunnerStep, LeaseKept
  <1>3. Init => Attempting!Init
    BY DEF Init, Attempting!Init, Attempting!Live, View
  <1>4. RunnerInv /\ DecidedIsFree /\ [Next]_vars => [Attempting!Next]_([i \in {0} |-> View])
    <2> SUFFICES ASSUME RunnerInv, DecidedIsFree, [Next]_vars PROVE Attempting!Next
      OBVIOUS
    <2> QED BY AttemptViewed DEF Attempting!Next
  <1> QED BY <1>1, <1>2, <1>3, <1>4, PTL DEF Spec, IsLeasedAttempt, Attempting!Spec
=============================================================================
