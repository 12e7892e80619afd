-------------------------- MODULE MCCircuitBreaker --------------------------
(* The instance of CircuitBreaker that TLC explores.                       *)
EXTENDS CircuitBreaker

CONSTANTS a, b, c
=============================================================================
