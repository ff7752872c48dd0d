------------------------- MODULE MCRewardIssuance -------------------------
(* Instances of RewardIssuance for TLC.                                    *)
EXTENDS RewardIssuance, TLC

CONSTANTS c1, c2, c3

\* Every card has a user of its own ...
MCUserDistinct == [c \in Cards |-> c]

\* ... or all cards belong to one user (one card per purchased subscription).
MCUserShared == [c \in Cards |-> c1]

\* The prizes differ, so a plan set up for another card shows.
MCPrize == [c \in Cards |-> IF c = c1 THEN 5 ELSE IF c = c2 THEN 10 ELSE 15]
=============================================================================
