----------------------------- MODULE MCNodeFleet -----------------------------
(* The lanes of a controller, for TLC. *)
EXTENDS NodeFleet

ThreeLanes == {"arc", "frontier", "maintenance"}

LanePermits ==
    [l \in ThreeLanes |-> IF l = "maintenance" THEN {"arc", "terminal"}
                          ELSE IF l = "arc" THEN {"arc"} ELSE {"terminal"}]
=============================================================================
