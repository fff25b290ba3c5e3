----------------------------- MODULE MCLedBlink ------------------------------
(***************************************************************************)
(* The LED program with the shortest delay that suffices.                  *)
(***************************************************************************)
EXTENDS LedBlink

ShortestDelay == ServingSteps * Lag

=============================================================================
