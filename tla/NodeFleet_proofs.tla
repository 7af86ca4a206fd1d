-------------------------- MODULE NodeFleet_proofs ---------------------------
(* Theorems about NodeFleet, for any finite set of lanes and any permits.    *)
EXTENDS NodeFleet, FiniteSetTheorems, TLAPS

USE FleetAssumption DEF FleetAssumption

Busy == {"working", "finished"}

----------------------------------------------------------------------------
(* The count of lanes that have work *)

LEMMA CountedFinite == IsFiniteSet(Counted) /\ Cardinality(Counted) \in Nat
  <1>1. Counted \subseteq Lane
    BY DEF Counted
  <1> QED BY <1>1, FS_Subset, FS_CardinalityType

LEMMA SameCount ==
    ASSUME CountExact, running' = running,
           \A l \in Lane : lane[l] \in Busy <=> lane'[l] \in Busy
    PROVE  CountExact'
  <1>1. Counted' = Counted
    BY DEF Counted, Busy
  <1> QED BY <1>1 DEF CountExact

\* A lane that moves between places without work, or between places with work.
LEMMA MovedCount ==
    ASSUME TypeOK, CountExact, running' = running, NEW l \in Lane, NEW place,
           GoesTo(l, place), place \in Busy <=> lane[l] \in Busy
    PROVE  CountExact'
  <1>1. \A k \in Lane : lane[k] \in Busy <=> lane'[k] \in Busy
    BY DEF GoesTo, TypeOK
  <1> QED BY <1>1, SameCount

LEMMA StartCount ==
    ASSUME TypeOK, CountExact, NEW l \in Lane, lane[l] \notin Busy,
           GoesTo(l, "working"), running' = running + 1
    PROVE  CountExact'
  <1>1. Counted' = Counted \cup {l} /\ l \notin Counted
    BY DEF Counted, Busy, GoesTo, TypeOK
  <1>2. Cardinality(Counted \cup {l}) = Cardinality(Counted) + 1
    BY <1>1, CountedFinite, FS_AddElement
  <1> QED BY <1>1, <1>2 DEF CountExact

LEMMA EndCount ==
    ASSUME TypeOK, CountExact, NEW l \in Lane, lane[l] = "finished",
           NEW place, place \notin Busy, GoesTo(l, place), running' = running - 1
    PROVE  CountExact'
  <1>1. Counted' = Counted \ {l} /\ l \in Counted
    BY DEF Counted, Busy, GoesTo, TypeOK
  <1>2. Cardinality(Counted \ {l}) = Cardinality(Counted) - 1
    BY <1>1, CountedFinite, FS_RemoveElement
  <1> QED BY <1>1, <1>2 DEF CountExact

LEMMA NoneBusy ==
    ASSUME lane = AllAt("idle") \/ lane = AllAt("ended")
    PROVE  Cardinality(Counted) = 0
  <1>1. Counted = {}
    BY DEF Counted, AllAt
  <1> QED BY <1>1, FS_EmptySet

\* No lane has work when the count is 0, and only the one that finishes when it is 1.
LEMMA CountZero ==
    ASSUME CountExact, running = 0
    PROVE  \A l \in Lane : lane[l] \notin Busy
  <1>1. Counted = {}
    BY CountedFinite, FS_EmptySet DEF CountExact
  <1> QED BY <1>1 DEF Counted, Busy

LEMMA CountOne ==
    ASSUME CountExact, running = 1, NEW l \in Lane, lane[l] = "finished"
    PROVE  \A k \in Lane \ {l} : lane[k] \notin Busy
  <1>1. l \in Counted
    BY DEF Counted
  <1>2. Cardinality(Counted \ {l}) = 0
    <2>1. Cardinality(Counted \ {l}) = Cardinality(Counted) - 1
      BY <1>1, CountedFinite, FS_RemoveElement
    <2> QED BY <2>1 DEF CountExact
  <1>3. IsFiniteSet(Counted \ {l})
    BY <1>1, CountedFinite, FS_RemoveElement
  <1>4. Counted \ {l} = {}
    BY <1>2, <1>3, FS_EmptySet
  <1> QED BY <1>4 DEF Counted, Busy

----------------------------------------------------------------------------
(* The invariant *)

LEMMA FleetInit == Init => FleetInv
  <1> SUFFICES ASSUME Init PROVE FleetInv
    OBVIOUS
  <1>1. TypeOK
    BY DEF Init, TypeOK, AllAt, Places
  <1>2. CountExact
    BY NoneBusy DEF Init, CountExact
  <1>3. WorkShielded
    BY DEF Init, WorkShielded
  <1>4. NoneDown
    BY DEF Init, NoneDown, AllAt
  <1> QED BY <1>1, <1>2, <1>3, <1>4 DEF FleetInv

\* A lane that does not start work keeps the shield while protection stays.
LEMMA SameShield ==
    ASSUME TypeOK, WorkShielded, NEW l \in Lane, NEW place, place # "working",
           GoesTo(l, place), protected' = protected,
           lifecycle' = "in_service" => lifecycle = "in_service"
    PROVE  WorkShielded'
  BY DEF TypeOK, WorkShielded, GoesTo

\* Where no other lane has work there is nothing to shield.
LEMMA ReleasedInv ==
    ASSUME TypeOK, NEW l \in Lane, Release(l), up' = up, running' \in Nat,
           \A k \in Lane \ {l} : lane[k] \notin Busy
    PROVE  TypeOK' /\ WorkShielded'
  <1>1. PICK place \in {"idle", "ended"} : GoesTo(l, place)
    BY DEF Release
  <1>2. \A k \in Lane : lane'[k] # "working"
    BY <1>1 DEF GoesTo, TypeOK, Busy
  <1>3. lane' \in [Lane -> Places]
    BY <1>1 DEF GoesTo, TypeOK, Places
  <1>4. TypeOK'
    BY <1>3 DEF Release, TypeOK
  <1> QED BY <1>2, <1>4 DEF WorkShielded

LEMMA LaneInv ==
    ASSUME FleetInv, NEW l \in Lane, LaneStep(l)
    PROVE  FleetInv'
  <1>0. up /\ up' = up /\ NoneDown'
    BY DEF LaneStep, Acquire, CheckHealthy, CheckTermination, Claim, StartWork, RefuseWork,
           Work, FinishWork, ReleaseFailed, NoneDown
  <1> SUFFICES TypeOK' /\ CountExact' /\ WorkShielded'
    BY <1>0 DEF FleetInv
  <1> USE DEF FleetInv
  <1>a. lane \in [Lane -> Places] /\ running \in Nat
    BY DEF TypeOK
  <1>b. ASSUME NEW place \in Places, GoesTo(l, place) PROVE lane' \in [Lane -> Places]
    BY <1>a, <1>b DEF GoesTo
  <1>1. ASSUME NEW place \in {"idle", "granted", "checking", "claiming", "claimed", "refused",
                              "ended"},
               GoesTo(l, place), lane[l] \notin Busy,
               UNCHANGED <<lifecycle, protected, up, healthy, running>>
        PROVE  TypeOK' /\ CountExact' /\ WorkShielded'
    <2>1. place \in Places /\ place # "working" /\ place \notin Busy
      BY DEF Places, Busy
    <2>2. TypeOK'
      BY <1>b, <1>1, <2>1 DEF TypeOK
    <2> QED BY <1>1, <2>1, <2>2, MovedCount, SameShield
  <1>2. CASE Acquire(l)
    BY <1>1, <1>2 DEF Acquire, Busy
  <1>3. CASE CheckHealthy(l)
    BY <1>1, <1>3 DEF CheckHealthy, Busy
  <1>4. CASE CheckTermination(l)
    <2>1. PICK place \in {"claiming", "ended"} : GoesTo(l, place)
      BY <1>4 DEF CheckTermination
    <2>2. /\ lane[l] \notin Busy
          /\ UNCHANGED <<protected, up, running>>
          /\ lifecycle' = "in_service" => lifecycle = "in_service"
      BY <1>4 DEF CheckTermination, Busy
    <2>3. lifecycle' \in {"waiting", "proceeding", lifecycle} /\ healthy' \in BOOLEAN
      BY <1>4 DEF CheckTermination, TypeOK
    <2>4. place \in Places /\ place # "working" /\ place \notin Busy
      BY DEF Places, Busy
    <2>5. TypeOK'
      BY <1>b, <2>1, <2>2, <2>3, <2>4 DEF TypeOK
    <2> QED BY <2>1, <2>2, <2>4, <2>5, MovedCount, SameShield
  <1>5. CASE Claim(l)
    BY <1>1, <1>5 DEF Claim, Busy
  <1>6. CASE StartWork(l)
    <2>1. TypeOK'
      BY <1>a, <1>b, <1>6 DEF StartWork, TypeOK, Places
    <2>2. CountExact'
      BY <1>6, StartCount DEF StartWork, Busy
    <2>3. lifecycle' = "in_service" => protected'
      BY <1>6 DEF StartWork
    <2> QED BY <2>1, <2>2, <2>3 DEF WorkShielded
  <1>7. CASE RefuseWork(l)
    BY <1>1, <1>7 DEF RefuseWork, Busy
  <1>8. CASE Work(l)
    <2>1. TypeOK'
      BY <1>b, <1>8 DEF Work, TypeOK, Places
    <2>2. CountExact'
      BY <1>8, MovedCount DEF Work, Busy
    <2>3. WorkShielded'
      BY <1>8, SameShield DEF Work
    <2> QED BY <2>1, <2>2, <2>3
  <1>9. CASE FinishWork(l)
    <2>1. running' = running - 1 /\ running' \in Nat /\ up' = up /\ lane[l] = "finished"
      BY <1>9, <1>a DEF FinishWork
    <2>2. PICK place \in {"idle", "ended"} : GoesTo(l, place)
      BY <1>9 DEF FinishWork, Release
    <2>3. CountExact'
      BY <2>1, <2>2, EndCount DEF Busy
    <2>4. CASE running = 1
      <3>1. Release(l)
        BY <1>9, <2>4 DEF FinishWork, LastOne
      <3>2. \A k \in Lane \ {l} : lane[k] \notin Busy
        BY <2>1, <2>4, CountOne
      <3> QED BY <2>1, <2>3, <3>1, <3>2, ReleasedInv
    <2>5. CASE running # 1
      <3>1. GoesTo(l, "idle") /\ UNCHANGED <<lifecycle, protected, healthy>>
        BY <1>9, <2>5 DEF FinishWork, LastOne
      <3>2. TypeOK'
        BY <1>b, <2>1, <3>1 DEF TypeOK, Places
      <3>3. WorkShielded'
        BY <3>1, SameShield
      <3> QED BY <2>3, <3>2, <3>3
    <2> QED BY <2>4, <2>5
  <1>10. CASE ReleaseFailed(l)
    <2>1. running' = running /\ up' = up /\ lane[l] \notin Busy
      BY <1>10 DEF ReleaseFailed, Busy
    <2>2. PICK place \in {"idle", "ended"} : GoesTo(l, place)
      BY <1>10 DEF ReleaseFailed, Release
    <2>3. CountExact'
      BY <2>1, <2>2, MovedCount DEF Busy
    <2>4. CASE running = 0
      <3>1. Release(l)
        BY <1>10, <2>4 DEF ReleaseFailed, MayComplete
      <3> QED BY <1>a, <2>1, <2>3, <2>4, <3>1, CountZero, ReleasedInv
    <2>5. CASE running # 0
      <3>1. GoesTo(l, "idle") /\ UNCHANGED <<lifecycle, protected, healthy>>
        BY <1>10, <2>5 DEF ReleaseFailed, MayComplete
      <3>2. TypeOK'
        BY <1>b, <2>1, <3>1 DEF TypeOK, Places
      <3>3. WorkShielded'
        BY <3>1, SameShield
      <3> QED BY <2>3, <3>2, <3>3
    <2> QED BY <2>4, <2>5
  <1> QED BY <1>2, <1>3, <1>4, <1>5, <1>6, <1>7, <1>8, <1>9, <1>10 DEF LaneStep

\* The invariant is kept by the process and the group too.
LEMMA FleetStep == FleetInv /\ [Next]_vars => FleetInv'
  <1> SUFFICES ASSUME FleetInv, [Next]_vars PROVE FleetInv'
    OBVIOUS
  <1> USE DEF FleetInv
  <1>1. CASE Crash
    <2>1. TypeOK'
      BY <1>1 DEF Crash, TypeOK, AllAt, Places
    <2>2. \A l \in Lane : lane'[l] = "idle"
      BY <1>1 DEF Crash, AllAt
    <2>3. Counted' = {}
      BY <2>2 DEF Counted
    <2>4. CountExact'
      BY <1>1, <2>3, FS_EmptySet DEF Crash, CountExact
    <2>5. WorkShielded' /\ NoneDown'
      BY <2>2 DEF WorkShielded, NoneDown
    <2> QED BY <2>1, <2>4, <2>5
  <1>2. ASSUME NEW l \in Lane, LaneStep(l) PROVE FleetInv'
    BY <1>2, LaneInv
  <1>3. CASE ScaleIn \/ HookTimeout \/ Terminate
    <2>1. /\ TypeOK' /\ lane' = lane /\ running' = running /\ up' = up
          /\ lifecycle' # "in_service"
      BY <1>3 DEF ScaleIn, HookTimeout, Terminate, TypeOK
    <2> QED BY <2>1, SameCount DEF WorkShielded, NoneDown
  <1>4. CASE UNCHANGED vars
    BY <1>4, SameCount DEF vars, TypeOK, WorkShielded, NoneDown
  <1>5. CASE Boot
    <2>1. TypeOK'
      BY <1>5 DEF Boot, TypeOK, AllAt, Places
    <2>2. \A l \in Lane : lane[l] \notin Busy /\ lane'[l] \notin Busy
      BY <1>5 DEF Boot, NoneDown, AllAt, Busy
    <2>3. CountExact'
      BY <1>5, <2>2, SameCount DEF Boot
    <2>4. WorkShielded'
      BY <2>2 DEF WorkShielded, Busy
    <2>5. NoneDown'
      BY <1>5 DEF Boot, NoneDown
    <2> QED BY <2>1, <2>3, <2>4, <2>5
  <1> QED BY <1>1, <1>2, <1>3, <1>4, <1>5 DEF Next

LEMMA FleetAlways == Spec => []FleetInv
  BY FleetInit, FleetStep, PTL DEF Spec

----------------------------------------------------------------------------
(* What the lanes of a node promise *)

\* Types of the node: the lanes, the counter, the flags and the lifecycle states.
THEOREM FleetTypes == Spec => []TypeOK
  <1>1. FleetInv => TypeOK
    BY DEF FleetInv
  <1> QED BY <1>1, FleetAlways, PTL

\* With any lanes that start, fail and end in any order, no lane lifts the scale-in
\* protection under which another works (release_work).
THEOREM ShieldKept == Spec => []WorkShielded
  <1>1. FleetInv => WorkShielded
    BY DEF FleetInv
  <1> QED BY <1>1, FleetAlways, PTL

\* The active-run counter is the number of lanes that have work: it never underflows.
THEOREM CounterExact == Spec => []CountExact
  <1>1. FleetInv => CountExact
    BY DEF FleetInv
  <1> QED BY <1>1, FleetAlways, PTL

\* The controller never completes a termination while counted work is under way.
THEOREM WorkIsDrained == Spec => WorkDrained
  <1>1. ASSUME FleetInv, [Next]_vars, lifecycle = "waiting", lifecycle' = "proceeding",
               lane' # lane
        PROVE  \A l \in Lane : lane'[l] # "working"
    <2> USE DEF FleetInv
    <2>1. CASE Boot
      BY <1>1, <2>1 DEF Boot, AllAt
    <2>2. ASSUME NEW l \in Lane, LaneStep(l) PROVE \A k \in Lane : lane'[k] # "working"
      <3>1. CASE CheckTermination(l)
        <4>1. running = 0 /\ GoesTo(l, "ended")
          BY <1>1, <3>1 DEF CheckTermination, MayComplete
        <4>2. \A k \in Lane : lane[k] \notin Busy
          BY <1>1, <4>1, CountZero
        <4> QED BY <1>1, <4>1, <4>2 DEF GoesTo, TypeOK, Busy
      <3>2. CASE FinishWork(l)
        <4>1. running = 1 /\ GoesTo(l, "ended")
          BY <1>1, <3>2 DEF FinishWork, Release, LastOne
        <4>2. \A k \in Lane \ {l} : lane[k] \notin Busy
          BY <1>1, <3>2, <4>1, CountOne DEF FinishWork
        <4> QED BY <1>1, <4>1, <4>2 DEF GoesTo, TypeOK, Busy
      <3>3. CASE ReleaseFailed(l)
        <4>1. running = 0 /\ GoesTo(l, "ended")
          BY <1>1, <3>3 DEF ReleaseFailed, Release, MayComplete
        <4>2. \A k \in Lane : lane[k] \notin Busy
          BY <1>1, <4>1, CountZero
        <4> QED BY <1>1, <4>1, <4>2 DEF GoesTo, TypeOK, Busy
      <3>4. CASE \/ Acquire(l) \/ CheckHealthy(l) \/ Claim(l) \/ StartWork(l)
                 \/ RefuseWork(l) \/ Work(l)
        BY <1>1, <3>4 DEF Acquire, CheckHealthy, Claim, StartWork, RefuseWork, Work
      <3> QED BY <2>2, <3>1, <3>2, <3>3, <3>4 DEF LaneStep
    <2>3. CASE Crash \/ ScaleIn \/ HookTimeout \/ Terminate
      BY <1>1, <2>3 DEF Crash, ScaleIn, HookTimeout, Terminate
    <2>4. CASE UNCHANGED vars
      BY <1>1, <2>4 DEF vars
    <2> QED BY <1>1, <2>1, <2>2, <2>3, <2>4 DEF Next
  <1>2. FleetInv /\ [Next]_vars =>
          [lifecycle = "waiting" /\ lifecycle' = "proceeding" /\ lane' # lane =>
              \A l \in Lane : lane'[l] # "working"]_vars
    BY <1>1
  <1> QED BY <1>2, FleetAlways, PTL DEF Spec, WorkDrained
=============================================================================
