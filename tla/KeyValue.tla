------------------------------ MODULE KeyValue ------------------------------
(***************************************************************************)
(* The internal storage of a chassis (runtime/src/storage/mod.rs): string  *)
(* keys with a time to live, in the memory of the process (Kevy) or on a   *)
(* Redis server.                                                           *)
(*                                                                         *)
(* A call may fail.  When the store is a server, a call that failed may    *)
(* still have been carried out: only its answer was lost.                  *)
(***************************************************************************)
EXTENDS Naturals, Sequences

CONSTANTS StoreKeys, NoValue

VARIABLES kv,       \* the values; NoValue where there is no key
          medium    \* what internal_storage.url names: "memory" or "redis"

\* earlier: what an earlier process may have left on the server.
KeyValueInit(earlier) ==
    \/ medium = "memory" /\ kv = [k \in StoreKeys |-> NoValue]
    \/ medium = "redis" /\ kv = earlier

Holds(k) == kv[k] # NoValue

\* set, with a time to live.
Set(k, v) == kv' = [kv EXCEPT ![k] = v]
SetFails(k, v) == UNCHANGED kv \/ (medium = "redis" /\ Set(k, v))

\* get_del: what was read is no longer there.
GetWithoutDel(k) == UNCHANGED kv
GetDel(k) == kv' = [kv EXCEPT ![k] = NoValue]
GetDelFails(k) == UNCHANGED kv \/ (medium = "redis" /\ GetDel(k))

\* The time to live of a key runs out.
ExpireKey(k) == Holds(k) /\ kv' = [kv EXCEPT ![k] = NoValue]

\* create_storage_from_url opens the store anew when the process starts; a
\* store in memory is empty then.
Reopen == kv' = IF medium = "memory" THEN [k \in StoreKeys |-> NoValue] ELSE kv
=============================================================================
