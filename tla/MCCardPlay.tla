----------------------------- MODULE MCCardPlay -----------------------------
(***************************************************************************)
(* The instance of PlayParts that TLC checks.                              *)
(***************************************************************************)
EXTENDS PlayParts, TLC

CONSTANTS r1, r2, Sub, Key

\* The requests are alike.
ReqSymmetry == Permutations(Reqs)

\* One subscription and one card key of the same tier.
MCSubs  == <<Sub>>
MCKeys  == {Key}
MCTiers == {"low", "high"}

\* A configuration, and what staff may make of it: another game and share for the tier, more
\* draws, no dynamic prizes, another tier for the subscription, or none.
Before == [dynamic |-> TRUE, tier |-> [id \in {Sub, Key} |-> "low"],
           rule |-> [t \in MCTiers |-> IF t = "low"
                                       THEN [draws |-> 1, game |-> "slot", share |-> 2]
                                       ELSE [draws |-> 2, game |-> "scratch", share |-> 1]]]
MCConfigs ==
  {Before,
   [Before EXCEPT !.rule["low"].game = "scratch", !.rule["low"].share = 1],
   [Before EXCEPT !.rule["low"].draws = 2],
   [Before EXCEPT !.dynamic = FALSE],
   [Before EXCEPT !.tier[Sub] = "high"],
   [Before EXCEPT !.tier[Sub] = NoTier]}
=============================================================================
