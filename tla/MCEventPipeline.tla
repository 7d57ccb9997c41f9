--------------------------- MODULE MCEventPipeline ---------------------------
(* EventPipeline for TLC: two messages and two cells, one of which also     *)
(* listens to the dead letter topic.  Both messages are on a magic-link     *)
(* topic, so their built-in step may fail; the payload of m2 is not JSON.   *)
EXTENDS EventPipeline
CONSTANTS m1, m2, c1, c2
MCMessages == {m1, m2}
MCCells == {c1, c2}
MCWildcard == {c2}
MCMalformed == {m2}
MCBoth == {"in_memory", "nats"}
MCNats == {"nats"}
MCInMemory == {"in_memory"}
=============================================================================
