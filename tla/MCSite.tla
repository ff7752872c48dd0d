------------------------------- MODULE MCSite -------------------------------
(***************************************************************************)
(* The instance of SiteParts that TLC checks.                              *)
(***************************************************************************)
EXTENDS SiteParts, TLC

CONSTANTS c1, c2

\* Card payments: a row that can be given up, and two prizes of different size.
MCPrizes == <<1, 2>>

\* Two merges that are asked to take the same card.
MCCardsOf == "m1" :> {c1, c2} @@ "m2" :> {c2}
=============================================================================
