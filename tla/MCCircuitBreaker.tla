-------------------------- MODULE MCCircuitBreaker --------------------------
(* CircuitBreaker for model checking: three concurrent requests, so that a *)
(* probe can meet two older requests that end late.                        *)
EXTENDS CircuitBreaker
=============================================================================
