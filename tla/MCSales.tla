------------------------------ MODULE MCSales ------------------------------
(* Two lots, an order that pays into the main division and one that pays elsewhere. *)
EXTENDS SalesIngest, TLC

CONSTANTS big, stray, main, alt

MCStock == <<1, 1>>
MCSize == (big :> 3) @@ (stray :> 1)
MCDivision == (big :> main) @@ (stray :> alt)
=============================================================================
