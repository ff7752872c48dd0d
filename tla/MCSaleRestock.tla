--------------------------- MODULE MCSaleRestock ---------------------------
(* Instances of SaleRestock for TLC.                                       *)
EXTENDS SaleRestock

CONSTANTS j1, j2, p1

\* Two days' jobs of one plan, with different targets; the second one needs
\* several runs.
MCPlanOf == [j \in Jobs |-> p1]
MCTarget == [j \in Jobs |-> IF j = j1 THEN 1 ELSE 3]
=============================================================================
