-------------------------- MODULE MCCircuitBreaker --------------------------
(* CircuitBreaker for TLC: three threads, a threshold of two, so that a     *)
(* straggler, a probe and a thread with a stale copy can all be in flight.  *)
EXTENDS CircuitBreaker
CONSTANTS t1, t2, t3
MCThreads == {t1, t2, t3}
=============================================================================
