----------------------------- MODULE GameRunner -----------------------------
(* One leased game from both ends: the worker process that drives it         *)
(* (drive_game of rl_monopoly_runner.py, with the agents' processes and the  *)
(* heartbeat thread) and the Academy's handlers that store its events and    *)
(* judge its result.  The rules of the game are those of MonopolyEngine:     *)
(* here they only say who moves, whether there is a choice, and the end.     *)
EXTENDS Integers, Sequences, FiniteSets

CONSTANTS
    Seats,          \* physical seats, 0 .. 3
    Submitted,      \* those played by a team's agent; the others by fixed bots
    None,           \* no decision was timed, no winner
    ActionCeiling,  \* ACTION_CEILING = MAX_ACTIONS
    BatchSize,      \* EVENT_BATCH_SIZE
    DecisionLimit,  \* DECISION_TIMEOUT_SECONDS
    PlayLimit,      \* PLAY_LIMIT_US, in the unit of DecisionLimit
    Worths          \* the net worths a game may end with, by seat

ASSUME RunnerAssumption ==
    /\ Seats \subseteq Nat /\ IsFiniteSet(Seats) /\ Submitted \subseteq Seats
    /\ None \notin Nat
    /\ ActionCeiling \in Nat \ {0} /\ BatchSize \in Nat \ {0}
    /\ DecisionLimit \in Nat \ {0} /\ PlayLimit \in Nat \ {0}
    /\ Worths \subseteq [Seats -> Nat]

VARIABLES
    pc,         \* where drive_game and main are
    actor,      \* whose_turn() of the move being made
    agent,      \* per submitted seat: its process
    strikes, decisions, total, disqualified,    \* SeatRuntime
    gameDone,   \* env.done
    clock,      \* active_us(), which does not run past PlayLimit
    sequence,   \* moves made
    events,     \* moves not yet uploaded
    endReason,
    lost,       \* the heartbeat thread has met an error and ended
    result,     \* the result being reported
    lease,      \* Academy: this attempt's lease is live
    stored,     \* Academy: the attempt's rows of monopoly_events
    game        \* Academy: the game as this attempt leaves it

tally == <<strikes, decisions, total, disqualified>>
board == <<gameDone, sequence, events>>
academy == <<lease, stored, game>>
vars == <<pc, actor, agent, tally, clock, board, endReason, lost, result, academy>>

Us == 0 .. DecisionLimit
\* late: the answer had been computed for an earlier request of the process.
Event == [seat : Seats, us : Us \cup {None}, strike : BOOLEAN, late : BOOLEAN]
NoResult == [reason |-> None]

Smaller(a, b) == IF a <= b THEN a ELSE b
Later(us) == Smaller(clock + us, PlayLimit)

\* Among a set of seats: the slowest on average (one, or none of none), and the
\* richest; ties go to the lowest seat.
Slowest(S, time, count) ==
    {s \in S : \A r \in S :
        \/ time[s] * count[r] > time[r] * count[s]
        \/ time[s] * count[r] = time[r] * count[s] /\ s <= r}
Richest(S, worth) ==
    CHOOSE s \in S : \A r \in S :
        worth[s] > worth[r] \/ (worth[s] = worth[r] /\ s <= r)
OrNone(S, best) == IF S = {} THEN None ELSE best
-----------------------------------------------------------------------------
Init ==
    /\ pc = "preparing" /\ actor = None
    /\ agent = [s \in Submitted |-> "none"]
    /\ strikes = [s \in Seats |-> 0] /\ decisions = [s \in Seats |-> 0]
    /\ total = [s \in Seats |-> 0] /\ disqualified = [s \in Seats |-> FALSE]
    /\ gameDone = FALSE /\ clock = 0 /\ sequence = 0 /\ events = <<>>
    /\ endReason = "normal" /\ lost = FALSE /\ result = NoResult
    /\ lease = TRUE /\ stored = <<>> /\ game = "leased"
-----------------------------------------------------------------------------
(* The worker: preparation and the head of the loop. *)

\* drive_game returns or raises: the agents are closed, its state is gone.
Leave(place) ==
    /\ pc' = place /\ actor' = None
    /\ agent' = [s \in Submitted |-> "none"]
    /\ strikes' = [s \in Seats |-> 0] /\ decisions' = [s \in Seats |-> 0]
    /\ total' = [s \in Seats |-> 0] /\ disqualified' = [s \in Seats |-> FALSE]
    /\ gameDone' = FALSE /\ clock' = 0 /\ sequence' = 0 /\ events' = <<>>
    /\ endReason' = "normal" /\ lost' = FALSE /\ result' = NoResult

\* Every seat has its artifact, and every agent answered that it is ready.
Prepare ==
    /\ pc = "preparing" /\ ~lost
    /\ pc' = "loop" /\ agent' = [s \in Submitted |-> "running"]
    /\ UNCHANGED <<actor, tally, clock, board, endReason, lost, result, academy>>

PreparationFails ==
    /\ pc = "preparing" /\ Leave("failed")
    /\ UNCHANGED academy

GameOver ==
    /\ pc = "loop" /\ gameDone
    /\ pc' = "ending"
    /\ UNCHANGED <<actor, agent, tally, clock, board, endReason, lost, result, academy>>

LeaseLost ==
    /\ pc = "loop" /\ ~gameDone /\ lost
    /\ Leave("failed")
    /\ UNCHANGED academy

\* The limits are read at the head of the loop and after every move.
AtLimits == (pc = "loop" /\ ~gameDone /\ ~lost) \/ (pc = "played" /\ Len(events) < BatchSize)

ReachCeiling ==
    /\ AtLimits /\ sequence >= ActionCeiling
    /\ pc' = "ending" /\ endReason' = "action_ceiling"
    /\ UNCHANGED <<actor, agent, tally, clock, board, lost, result, academy>>

TimedSeats == {s \in Submitted : ~disqualified[s] /\ decisions[s] > 0}

\* Ten minutes: the slowest eligible agent is replaced.
ReachTenMinutes ==
    /\ AtLimits /\ sequence < ActionCeiling /\ clock >= PlayLimit
    /\ LET out == Slowest(TimedSeats, total, decisions)
       IN  /\ disqualified' = [s \in Seats |-> disqualified[s] \/ s \in out]
           /\ agent' = [s \in Submitted |-> IF s \in out THEN "none" ELSE agent[s]]
    /\ pc' = "ending" /\ endReason' = "ten_minute"
    /\ UNCHANGED <<actor, strikes, decisions, total, clock, board, lost, result, academy>>

GoesOn == AtLimits /\ sequence < ActionCeiling /\ clock < PlayLimit

NextMove ==
    /\ pc = "played" /\ GoesOn
    /\ pc' = "loop"
    /\ UNCHANGED <<actor, agent, tally, clock, board, endReason, lost, result, academy>>

AskSeat ==
    /\ pc = "loop" /\ GoesOn
    /\ actor' \in Seats
    /\ pc' = "acting"
    /\ UNCHANGED <<agent, tally, clock, board, endReason, lost, result, academy>>
-----------------------------------------------------------------------------
(* One move.  Whatever becomes of the decision, the game takes a legal one. *)

Play(us, strike, late) ==
    /\ pc' = "played" /\ sequence' = sequence + 1
    /\ gameDone' \in BOOLEAN
    /\ events' = Append(events, [seat |-> actor, us |-> us, strike |-> strike, late |-> late])
    /\ actor' = None
    /\ UNCHANGED <<endReason, lost, result, academy>>

\* A seat with one legal action, and a fixed bot, are not timed.
AutoMove ==
    /\ pc = "acting"
    /\ Play(None, FALSE, FALSE)
    /\ UNCHANGED <<agent, tally, clock>>

\* Mutant: a replaced agent is asked again.
Asked_Replaced(s) == pc = "acting" /\ actor = s

Asked(s) == pc = "acting" /\ actor = s /\ ~disqualified[s]

Charge(s, us) ==
    /\ decisions' = [decisions EXCEPT ![s] = @ + 1]
    /\ total' = [total EXCEPT ![s] = @ + us]

\* A legal answer.  A process that is not running is started first, off the
\* clock; one that is behind would answer an earlier request.
Answer(s, us) ==
    /\ Asked(s)
    /\ Play(us, FALSE, agent[s] = "behind")
    /\ Charge(s, us) /\ clock' = Later(us)
    /\ agent' = [agent EXCEPT ![s] = IF @ = "none" THEN "running" ELSE @]
    /\ UNCHANGED <<strikes, disqualified>>

\* Mutant: the fourth strike replaces the agent.
Strike_Four(s) ==
    /\ strikes' = [strikes EXCEPT ![s] = @ + 1]
    /\ disqualified' = [disqualified EXCEPT ![s] = strikes[s] + 1 > 3]

\* register_strike: the third one replaces the agent by a bot.
Strike(s) ==
    /\ strikes' = [strikes EXCEPT ![s] = @ + 1]
    /\ disqualified' = [disqualified EXCEPT ![s] = strikes[s] + 1 >= 3]

\* Mutant: a process that is still thinking is kept.
Restarted_KeepsBehind(s, thinking) ==
    agent' \in {[agent EXCEPT ![s] = IF strikes[s] + 1 >= 3 THEN "none"
                                     ELSE IF thinking THEN "behind" ELSE "running"]}

\* The process is replaced by a new one, which may fail to start; after the
\* third strike there is none.
Restarted(s, thinking) ==
    \E p \in IF strikes[s] + 1 >= 3 THEN {"none"} ELSE {"none", "running"} :
        agent' = [agent EXCEPT ![s] = p]

\* The process crashes, reports an error or answers with an illegal action.
Misplay(s, us) ==
    /\ Asked(s)
    /\ Play(us, TRUE, FALSE)
    /\ Charge(s, us) /\ clock' = Later(us)
    /\ Strike(s) /\ Restarted(s, FALSE)

\* Mutant: the agent is asked again until it answers.
Timeout_AsksAgain(s) ==
    /\ Asked(s)
    /\ Restarted(s, TRUE)
    /\ UNCHANGED <<pc, actor, tally, clock, board, endReason, lost, result, academy>>

\* No answer in time: the process is still computing it when it is replaced.
Timeout(s) ==
    /\ Asked(s)
    /\ Play(DecisionLimit, TRUE, FALSE)
    /\ Charge(s, DecisionLimit) /\ clock' = Later(DecisionLimit)
    /\ Strike(s) /\ Restarted(s, TRUE)

\* A process that was not running cannot be started: a strike in no time.
NoStart(s) ==
    /\ Asked(s) /\ agent[s] = "none"
    /\ Play(0, TRUE, FALSE)
    /\ Charge(s, 0) /\ Strike(s)
    /\ UNCHANGED <<agent, clock>>

\* Or it is not ready within STARTUP_TIMEOUT: charged as a decision that timed
\* out, though none was asked for, but off the clock; and started again.
SlowStart(s) ==
    /\ Asked(s) /\ agent[s] = "none"
    /\ Play(DecisionLimit, TRUE, FALSE)
    /\ Charge(s, DecisionLimit) /\ Strike(s) /\ Restarted(s, FALSE)
    /\ UNCHANGED clock

\* An error that is not an AgentCallError (a line that is not UTF-8, a docker
\* command that hangs) ends the attempt.
Undecodable(s) ==
    /\ Asked(s) /\ Leave("failed")
    /\ UNCHANGED academy

Move ==
    \/ AutoMove
    \/ \E s \in Submitted :
          \/ \E us \in Us : Answer(s, us) \/ Misplay(s, us)
          \/ Timeout(s) \/ NoStart(s) \/ SlowStart(s) \/ Undecodable(s)
-----------------------------------------------------------------------------
(* Uploads, and the Academy's handler for them. *)

\* Mutant: the last events are uploaded only when they fill a batch.
MustUpload_FullOnly == pc \in {"played", "ending"} /\ Len(events) >= BatchSize

MustUpload ==
    \/ pc = "played" /\ Len(events) >= BatchSize
    \/ pc = "ending" /\ events # <<>>

Upload ==
    /\ MustUpload /\ lease
    /\ stored' = stored \o events /\ events' = <<>>
    /\ UNCHANGED <<pc, actor, agent, tally, clock, gameDone, sequence, endReason,
                   lost, result, lease, game>>

\* Refused, or the request or its answer is lost.
UploadFails ==
    /\ MustUpload
    /\ stored' \in {stored} \cup (IF lease THEN {stored \o events} ELSE {})
    /\ Leave("failed")
    /\ UNCHANGED <<lease, game>>
-----------------------------------------------------------------------------
(* The result, and the Academy's judgement of it. *)

Winners(out) == {s \in Submitted : ~out[s]}

\* The heartbeat thread is stopped, whatever it has met.  The clock is read
\* again for the report, after the last check of the limit.
MakeResult ==
    /\ pc = "ending" /\ ~MustUpload
    /\ \E worth \in Worths :
          result' = [reason |-> endReason, duration |-> clock, done |-> gameDone,
                     actions |-> sequence, strikes |-> strikes,
                     decisions |-> decisions, total |-> total,
                     disqualified |-> disqualified, worth |-> worth,
                     winner |-> OrNone(Winners(disqualified),
                                       Richest(Winners(disqualified), worth))]
    /\ pc' = "reporting" /\ lost' = FALSE
    /\ UNCHANGED <<actor, agent, tally, clock, board, endReason, academy>>

Timed(rows, s) == {i \in DOMAIN rows : rows[i].seat = s /\ rows[i].us # None}
Struck(rows, s) == {i \in DOMAIN rows : rows[i].seat = s /\ rows[i].strike}
\* The sum of a seat's decision times, as a set of single units of time.
Spent(rows, s) == {x \in Timed(rows, s) \X (1 .. DecisionLimit) : x[2] <= rows[x[1]].us}

MetricsAgree(r) ==
    \A s \in Seats :
        /\ r.strikes[s] = Cardinality(Struck(stored, s))
        /\ r.decisions[s] = Cardinality(Timed(stored, s))
        /\ r.total[s] = Cardinality(Spent(stored, s))

ReasonAgrees(r) ==
    /\ r.actions = Len(stored)
    /\ r.reason = "action_ceiling" => r.actions = ActionCeiling
    /\ r.reason = "ten_minute" => r.duration >= PlayLimit /\ r.actions # ActionCeiling
    /\ r.reason = "normal" =>
          r.duration < PlayLimit /\ r.actions # ActionCeiling /\ r.done

\* timing_disqualification: the Academy's own choice of the slowest.
TimingSeat(r) ==
    LET S == {s \in Submitted : r.strikes[s] < 3 /\ r.decisions[s] > 0}
    IN  IF r.reason = "ten_minute" THEN Slowest(S, r.total, r.decisions) ELSE {}

SeatsAgree(r) ==
    \A s \in Seats :
        /\ r.strikes[s] <= 3 /\ r.strikes[s] <= r.decisions[s]
        /\ r.decisions[s] <= r.actions
        /\ s \in Submitted => (r.disqualified[s] <=> r.strikes[s] = 3 \/ s \in TimingSeat(r))
        /\ s \notin Submitted =>
              r.strikes[s] = 0 /\ r.decisions[s] = 0 /\ ~r.disqualified[s]

WinnerAgrees(r) ==
    r.winner = OrNone(Winners(r.disqualified), Richest(Winners(r.disqualified), r.worth))

Acceptable(r) == ReasonAgrees(r) /\ MetricsAgree(r) /\ SeatsAgree(r) /\ WinnerAgrees(r)

\* Stored; the worker may not learn of it.
Accept ==
    /\ pc = "reporting" /\ lease /\ Acceptable(result)
    /\ game' = "done" /\ lease' = FALSE
    /\ Leave("over") \/ Leave("failed")
    /\ UNCHANGED stored

\* Refused (400 or 409), or the request is lost.
ReportFails ==
    /\ pc = "reporting" /\ Leave("failed")
    /\ UNCHANGED academy

\* report_infrastructure_failure, under the same lease; it may be lost too.
GiveUp ==
    /\ pc = "failed" /\ pc' = "over"
    /\ \/ lease /\ game' = "infra_failed" /\ lease' = FALSE
       \/ UNCHANGED <<game, lease>>
    /\ UNCHANGED <<actor, agent, tally, clock, board, endReason, lost, result, stored>>
-----------------------------------------------------------------------------
(* The world around the main thread. *)

Tick ==
    /\ pc \in {"loop", "acting", "played", "ending"} /\ clock < PlayLimit
    /\ clock' = clock + 1
    /\ UNCHANGED <<pc, actor, agent, tally, board, endReason, lost, result, academy>>

\* Any error of one heartbeat ends the thread, be it a refusal or a time-out.
HeartbeatFails ==
    /\ pc \in {"preparing", "loop", "acting", "played"} /\ ~lost
    /\ lost' = TRUE
    /\ UNCHANGED <<pc, actor, agent, tally, clock, board, endReason, result, academy>>

\* The lease lapses and the game is queued again, or it is cancelled.
LoseLease ==
    /\ lease /\ lease' = FALSE
    /\ UNCHANGED <<pc, actor, agent, tally, clock, board, endReason, lost, result, stored, game>>

\* The process or its host goes away; or reporting the worker's own state fails.
Die ==
    /\ pc \notin {"over", "stopped"} /\ Leave("stopped")
    /\ UNCHANGED academy

\* The main thread: every call in it has a time limit of its own.
Worker ==
    \/ Prepare \/ PreparationFails
    \/ GameOver \/ LeaseLost \/ ReachCeiling \/ ReachTenMinutes \/ NextMove \/ AskSeat
    \/ Move \/ Upload \/ UploadFails \/ MakeResult \/ Accept \/ ReportFails \/ GiveUp

Next == Worker \/ Tick \/ HeartbeatFails \/ LoseLease \/ Die

Spec == Init /\ [][Next]_vars
FairSpec == Spec /\ WF_vars(Worker)
-----------------------------------------------------------------------------
(* Properties. *)

Reasons == {"normal", "ten_minute", "action_ceiling"}

\* The moves made, as far as anyone remembers them.
Moves == stored \o events

\* Types.  In particular no seat has more than three strikes.
TypeOK ==
    /\ pc \in {"preparing", "loop", "acting", "played", "ending", "reporting",
               "failed", "over", "stopped"}
    /\ actor \in Seats \cup {None}
    /\ agent \in [Submitted -> {"none", "running", "behind"}]
    /\ strikes \in [Seats -> 0 .. 3] /\ decisions \in [Seats -> Nat]
    /\ total \in [Seats -> Nat] /\ disqualified \in [Seats -> BOOLEAN]
    /\ gameDone \in BOOLEAN /\ clock \in 0 .. PlayLimit
    /\ sequence \in 0 .. ActionCeiling /\ events \in Seq(Event)
    /\ endReason \in Reasons /\ lost \in BOOLEAN
    /\ lease \in BOOLEAN /\ stored \in Seq(Event)
    /\ game \in {"leased", "done", "infra_failed"}

\* The worker and the Academy, which recomputes the result from the events it
\* stored, agree on every finished game: counts, times, strikes, who is out,
\* who was slowest, who has won.  Under a live lease a result is refused only
\* when the game ended by the rules and the clock reached the limit between
\* the last check of it and the report.
RefusedOnlyAtTheLimit ==
    (pc = "reporting" /\ lease /\ ~Acceptable(result)) =>
        result.reason = "normal" /\ result.duration >= PlayLimit

\* An answer that comes late is never taken for the answer to the next
\* request: a process that was not waited for is replaced.
NoLateAnswer == \A i \in DOMAIN Moves : ~Moves[i].late

\* After its third strike an agent is not asked again.
ThirdStrikeEnds ==
    \A i \in DOMAIN Moves :
        Cardinality({j \in Struck(Moves, Moves[i].seat) : j < i}) >= 3 => Moves[i].us = None

\* What the worker keeps in its head is what the moves say.
Driving == {"loop", "acting", "played", "ending", "reporting"}
BooksAgree ==
    pc \in Driving =>
        /\ sequence = Len(Moves)
        /\ \A s \in Seats :
              /\ strikes[s] = Cardinality(Struck(Moves, s))
              /\ decisions[s] = Cardinality(Timed(Moves, s))
              /\ total[s] = Cardinality(Spent(Moves, s))
              /\ strikes[s] <= decisions[s] /\ decisions[s] <= sequence
              /\ s \notin Submitted => strikes[s] = 0 /\ decisions[s] = 0 /\ ~disqualified[s]

\* Who is out: after three strikes, and the slowest at ten minutes.
Eligible == {s \in Submitted : strikes[s] < 3 /\ decisions[s] > 0}
OutAgrees ==
    pc \in Driving => \A s \in Submitted :
        disqualified[s] <=>
            \/ strikes[s] = 3
            \/ endReason = "ten_minute" /\ s \in Slowest(Eligible, total, decisions)

\* Why the game ended, and that a game under way has not.
EndAgrees ==
    /\ pc \in {"loop", "acting"} => sequence < ActionCeiling
    /\ pc \in {"loop", "acting", "played"} => endReason = "normal"
    /\ pc = "ending" =>
          /\ endReason = "normal" => gameDone /\ sequence < ActionCeiling
          /\ endReason = "ten_minute" => clock >= PlayLimit /\ sequence < ActionCeiling
          /\ endReason = "action_ceiling" => sequence = ActionCeiling

\* Before the first move and after the last, nothing waits to be uploaded.
NothingLeft ==
    /\ pc \notin Driving => events = <<>>
    /\ pc = "preparing" =>
          /\ stored = <<>> /\ sequence = 0 /\ endReason = "normal"
          /\ \A s \in Seats : strikes[s] = 0 /\ decisions[s] = 0 /\ total[s] = 0 /\ ~disqualified[s]
    /\ pc = "acting" => actor \in Seats
    /\ \A s \in Submitted : agent[s] # "behind"

RunnerInv ==
    /\ TypeOK /\ BooksAgree /\ OutAgrees /\ EndAgrees /\ NothingLeft
    /\ NoLateAnswer /\ ThirdStrikeEnds /\ RefusedOnlyAtTheLimit

\* The attempt as the Academy's rows show it.
View ==
    [phase |-> IF game = "done" THEN "completed" ELSE IF lease THEN "live" ELSE "lost",
     moves |-> Len(stored)]

Attempting == INSTANCE LeasedAttempt WITH Attempt <- {0}, attempt <- [i \in {0} |-> View]

\* The worker's attempt is one of those that the tournament queue lends out
\* (MonopolyGames): lost answers, late uploads and a report after a result never
\* store or end anything outside its lease.
IsLeasedAttempt == Attempting!Spec

(* Why an attempt ends. *)

\* The stages of an attempt still ahead, and what the loop does between two moves.
Stage ==
    CASE pc = "preparing" -> 5
      [] pc \in {"loop", "acting", "played"} -> 4
      [] pc = "ending" -> 3
      [] pc = "reporting" -> 2
      [] pc = "failed" -> 1
      [] pc \in {"over", "stopped"} -> 0
Turn == IF pc = "played" THEN 2 ELSE IF pc = "loop" THEN 1 ELSE 0

\* What an attempt has left, from the most to the least significant.
Remaining ==
    <<Stage, ActionCeiling - sequence, Turn, Len(events), PlayLimit - clock,
      IF lost THEN 0 ELSE 1, IF lease THEN 1 ELSE 0>>

IsCount(x) == DOMAIN x = 1 .. 7 /\ \A i \in 1 .. 7 : x[i] \in Nat
Fewer(x, y) == \E i \in 1 .. 7 : x[i] < y[i] /\ \A j \in 1 .. (i - 1) : x[j] = y[j]

\* No retry, restart, upload or late event of an attempt can go on for ever: each
\* step, the worker's and those of the world around it, lowers what remains.
EveryStepCounts == [][IsCount(Remaining') /\ Fewer(Remaining', Remaining)]_vars

\* An attempt ends, whatever the agents do: a decision that fails costs a
\* strike and the game goes on without it.
AttemptEnds == <>(pc \in {"over", "stopped"})
=============================================================================
