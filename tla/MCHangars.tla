----------------------------- MODULE MCHangars -----------------------------
(* Three stations, some of them marked hangars, and two units of stock. *)
EXTENDS Hangars

CONSTANTS home, hub, far

Bought(l, qty, cost, at) == NewLot(Item, l, qty, cost, at, "manual", 0, FALSE)

TwoLots == <<Bought(home, 1, 2, 1), Bought(home, 1, 3, 2)>>
Apart == <<Bought(home, 1, 2, 1), Bought(hub, 1, 3, 2)>>

FromHome == {<<home, hub>>, <<home, far>>}
ToFar == {<<home, far>>, <<hub, far>>}
=============================================================================
