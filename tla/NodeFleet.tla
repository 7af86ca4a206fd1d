------------------------------ MODULE NodeFleet ------------------------------
(***************************************************************************)
(* One node of the benchmark fleet: the lanes of its controller            *)
(* (services/benchmark-node/src/bin/controller.rs) and the Auto Scaling    *)
(* group that may terminate it (fleet.rs, infra/ec2/stack.yaml).           *)
(*                                                                         *)
(* A lane takes its permits, asks whether the node is being terminated,    *)
(* claims work, counts and protects it, and releases the node after the    *)
(* last.  The sections under fleet_transition are one step each: what      *)
(* happens between their calls to AWS shows in their failure.              *)
(***************************************************************************)
EXTENDS Naturals, FiniteSets

CONSTANTS
    Lane,           \* arc, frontier and maintenance
    Permits         \* the lane permits that a lane needs: maintenance needs both

ASSUME FleetAssumption == IsFiniteSet(Lane)

VARIABLES
    lifecycle,      \* lifecycle state of the instance; "gone" once it is terminated
    protected,      \* scale-in protection
    up,             \* the controller is past its start
    healthy,        \* ControllerMetrics.healthy
    running,        \* ControllerMetrics.running
    lane            \* where each lane is

vars == <<lifecycle, protected, up, healthy, running, lane>>

----------------------------------------------------------------------------
Counted == {l \in Lane : lane[l] \in {"working", "finished"}}

Places == {"idle", "granted", "checking", "claiming", "claimed", "refused", "working",
           "finished", "ended"}

TypeOK ==
    /\ lifecycle \in {"in_service", "waiting", "proceeding", "gone"}
    /\ protected \in BOOLEAN
    /\ up \in BOOLEAN
    /\ healthy \in BOOLEAN
    /\ running \in Nat
    /\ lane \in [Lane -> Places]

AllAt(place) == [l \in Lane |-> place]

\* A node that has just joined the group (NewInstancesProtectedFromScaleIn).
Init ==
    /\ lifecycle = "in_service"
    /\ protected = TRUE
    /\ up = FALSE
    /\ healthy = TRUE
    /\ running = 0
    /\ lane = AllAt("idle")

----------------------------------------------------------------------------
(* The process *)

\* The start of run: drain_if_terminating, else the node is marked idle.
Boot ==
    /\ ~up
    /\ up' = TRUE
    /\ \/ /\ lifecycle = "waiting"
          /\ lifecycle' = "proceeding"
          /\ healthy' = FALSE
          /\ lane' = AllAt("ended")
          /\ UNCHANGED protected
       \/ /\ lifecycle = "in_service"
          /\ protected' = FALSE
          /\ UNCHANGED <<lifecycle, healthy, lane>>
    /\ UNCHANGED running

\* An error that leaves a lane ends the process, and systemd starts it again.
Crash ==
    /\ up
    /\ lifecycle # "gone"
    /\ up' = FALSE
    /\ healthy' = TRUE
    /\ running' = 0
    /\ lane' = AllAt("idle")
    /\ UNCHANGED <<lifecycle, protected>>

----------------------------------------------------------------------------
(* Lanes: run_kind_lane, run_maintenance_lane *)

GoesTo(l, place) == lane' = [lane EXCEPT ![l] = place]

HoldsPermits(l) == lane[l] \notin {"idle", "ended"}

\* The maintenance lane gives its first permit back when the second is taken.
Acquire(l) ==
    /\ lane[l] = "idle"
    /\ \A k \in Lane \ {l} : HoldsPermits(k) => Permits[k] \cap Permits[l] = {}
    /\ GoesTo(l, "granted")
    /\ UNCHANGED <<lifecycle, protected, up, healthy, running>>

\* stop_claiming_if_terminating, before it takes the lock.
CheckHealthy(l) ==
    /\ lane[l] = "granted"
    /\ GoesTo(l, IF healthy THEN "checking" ELSE "ended")
    /\ UNCHANGED <<lifecycle, protected, up, healthy, running>>

\* mutant: the node is given up whatever it is running
MayComplete_Always == TRUE

\* Nothing that was counted is running.
MayComplete == running = 0

\* stop_claiming_if_terminating, under the lock.
CheckTermination(l) ==
    /\ lane[l] = "checking"
    /\ IF lifecycle = "waiting"
       THEN /\ healthy' = FALSE
            /\ lifecycle' = IF MayComplete THEN "proceeding" ELSE "waiting"
            /\ GoesTo(l, "ended")
       ELSE /\ GoesTo(l, "claiming")
            /\ UNCHANGED <<lifecycle, healthy>>
    /\ UNCHANGED <<protected, up, running>>

\* Academy hands out work, or has none or cannot be reached.
Claim(l) ==
    /\ lane[l] = "claiming"
    /\ GoesTo(l, "claimed") \/ GoesTo(l, "idle")
    /\ UNCHANGED <<lifecycle, protected, up, healthy, running>>

\* start_claimed_work: protection is refused to a node that is being terminated, and
\* the work is then done under the hook.
StartWork(l) ==
    /\ lane[l] = "claimed"
    /\ lifecycle \in {"in_service", "waiting"}
    /\ protected' = (protected \/ lifecycle = "in_service")
    /\ running' = running + 1
    /\ GoesTo(l, "working")
    /\ UNCHANGED <<lifecycle, up, healthy>>

\* Protection failed and the node is not known to wait: the work is reported as failed.
RefuseWork(l) ==
    /\ lane[l] = "claimed"
    /\ GoesTo(l, "refused")
    /\ UNCHANGED <<lifecycle, protected, up, healthy, running>>

\* process_run and process_kaggle, to the end of the last report.
Work(l) ==
    /\ lane[l] = "working"
    /\ GoesTo(l, "finished")
    /\ UNCHANGED <<lifecycle, protected, up, healthy, running>>

\* release_work: the node is completed if it waits, else its protection is lifted,
\* which AWS refuses (Crash) once the termination proceeds.
Release(l) ==
    \/ /\ lifecycle = "waiting"
       /\ lifecycle' = "proceeding"
       /\ healthy' = FALSE
       /\ GoesTo(l, "ended")
       /\ UNCHANGED protected
    \/ /\ lifecycle = "in_service"
       /\ protected' = FALSE
       /\ GoesTo(l, "idle")
       /\ UNCHANGED <<lifecycle, healthy>>

\* mutants: the count before the decrement is compared with the wrong number
LastOne_Never(before) == before < 1
LastOne_Any(before) == before > 0

\* previous > 1 returns early
LastOne(before) == before = 1

\* finish_claimed_work
FinishWork(l) ==
    /\ lane[l] = "finished"
    /\ running > 0
    /\ running' = running - 1
    /\ IF LastOne(running) THEN Release(l)
       ELSE GoesTo(l, "idle") /\ UNCHANGED <<lifecycle, protected, healthy>>
    /\ UNCHANGED up

\* mutant: work that was never counted is discounted
ReleaseFailed_Discounts(l) ==
    /\ lane[l] = "refused"
    /\ running' = running - 1
    /\ IF MayComplete THEN Release(l)
       ELSE GoesTo(l, "idle") /\ UNCHANGED <<lifecycle, protected, healthy>>
    /\ UNCHANGED up

\* release_failed_claim
ReleaseFailed(l) ==
    /\ lane[l] = "refused"
    /\ IF MayComplete THEN Release(l)
       ELSE GoesTo(l, "idle") /\ UNCHANGED <<lifecycle, protected, healthy>>
    /\ UNCHANGED <<up, running>>

LaneStep(l) ==
    /\ up
    /\ lifecycle # "gone"
    /\ \/ Acquire(l) \/ CheckHealthy(l) \/ CheckTermination(l) \/ Claim(l)
       \/ StartWork(l) \/ RefuseWork(l) \/ Work(l) \/ FinishWork(l) \/ ReleaseFailed(l)

----------------------------------------------------------------------------
(* The Auto Scaling group *)

\* A node without protection is chosen; the lifecycle hook holds it.
ScaleIn ==
    /\ lifecycle = "in_service"
    /\ ~protected
    /\ lifecycle' = "waiting"
    /\ UNCHANGED <<protected, up, healthy, running, lane>>

\* The hook runs out (DefaultResult: CONTINUE).
HookTimeout ==
    /\ lifecycle = "waiting"
    /\ lifecycle' = "proceeding"
    /\ UNCHANGED <<protected, up, healthy, running, lane>>

Terminate ==
    /\ lifecycle = "proceeding"
    /\ lifecycle' = "gone"
    /\ UNCHANGED <<protected, up, healthy, running, lane>>

----------------------------------------------------------------------------
Next ==
    \/ Boot \/ Crash
    \/ \E l \in Lane : LaneStep(l)
    \/ ScaleIn \/ HookTimeout \/ Terminate

Spec == Init /\ [][Next]_vars

\* A lane goes on: calls return, and work ends at its deadline.  Nothing is asked of
\* the hook, so it is the controller that completes a termination.
Fairness == WF_vars(Boot) /\ \A l \in Lane : WF_vars(LaneStep(l))

FairSpec == Spec /\ Fairness

----------------------------------------------------------------------------
(* Safety *)

\* While any lane works on an instance that is in service, scale-in passes it over:
\* no lane lifts the protection another one relies on, and no restart does.
WorkShielded ==
    lifecycle = "in_service" =>
        \A l \in Lane : lane[l] = "working" => protected

\* What lane sections compare with is the number of lanes that have work: it neither
\* underflows nor stays up after them, whatever lanes start, fail and end together.
CountExact == running = Cardinality(Counted)

\* A process that is down has no lanes.
NoneDown == ~up => \A l \in Lane : lane[l] = "idle"

\* The inductive invariant.
FleetInv == TypeOK /\ CountExact /\ WorkShielded /\ NoneDown

\* The controller completes a termination only when no counted work is left, and
\* the hook alone may cut work off.
WorkDrained ==
    [][lifecycle = "waiting" /\ lifecycle' = "proceeding" /\ lane' # lane =>
          \A l \in Lane : lane'[l] # "working"]_vars

----------------------------------------------------------------------------
(* Liveness *)

\* A node that is chosen for termination lets go of the group by itself.
DrainCompletes == lifecycle = "waiting" ~> lifecycle \in {"proceeding", "gone"}

----------------------------------------------------------------------------
(* What the documents promise and the code does not do *)

\* "a termination lifecycle hook catches the claim/protection race and lets a
\* running benchmark drain before the controller completes termination".
RaceIsCaught ==
    [][lifecycle = "waiting" /\ lifecycle' = "proceeding" /\ lane' # lane =>
          \A l \in Lane : lane'[l] \notin {"claimed", "working"}]_vars
=============================================================================
