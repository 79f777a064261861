------------------------------ MODULE MCMarket ------------------------------
(* One station with two types and one structure with one.                    *)
EXTENDS MarketPrices, TLC

CONSTANTS hek, keep, ore, gas, ann

Traded == (hek :> {ore, gas}) @@ (keep :> {ore})
=============================================================================
