------------------------- MODULE MCCircuitBreaker -------------------------
(* The TLC instance of CircuitBreaker.                                     *)
EXTENDS CircuitBreaker

===========================================================================
