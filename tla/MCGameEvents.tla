---------------------------- MODULE MCGameEvents ----------------------------
(* Two games; the first is started again, the second runs beside it. *)
EXTENDS GameEvents, TLC

CONSTANTS g1, g2

StartsOf == g1 :> 2 @@ g2 :> 1
=============================================================================
