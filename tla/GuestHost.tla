----------------------------- MODULE GuestHost -----------------------------
(***************************************************************************)
(* The host side of a WebAssembly cell (runtime/src/wasm/mod.rs): the pool *)
(* of its instances, and the state the host keeps with an instance and     *)
(* that the host functions work on - the table of open transactions, the   *)
(* command id that scopes checkpoints, and the key-value stores.           *)
(*                                                                         *)
(* A worker is a thread that invokes the cell: for an HTTP request, or for *)
(* the event consumer.  While it does, the instance is its own, so a host  *)
(* call touches nothing that another worker sees but the database and the  *)
(* stores.                                                                 *)
(***************************************************************************)
EXTENDS HostDatabase, FiniteSets

CONSTANTS Workers,
          NoConn,
          MaxTx,        \* bound: transactions one invocation may begin
          MaxInstances, \* config.max_instances
          Capacity,     \* of a gate in the guest's memory
          Scopes,       \* command ids, and "default"
          ScopeOf       \* [Commands -> Scopes]: the id a command's input has

ASSUME HostAssumption ==
    /\ NoConn \notin Conns
    /\ MaxTx \in Nat \ {0} /\ MaxInstances \in Nat /\ Capacity \in Nat
    /\ "default" \in Scopes
    /\ ScopeOf \in [Commands -> Scopes]

VARIABLES backend,      \* what the storage tiers run on: "kevy" or "redis"
          pool,         \* fluxcell.instance_pool, a stack
          inst,         \* the instance each worker has checked out
          checkpoints,  \* internal_storage: chk:<scope>:<step>
          counter       \* fluxcell_storage: the counter that cells increment

host == <<pool, inst, checkpoints, counter>>

Handles == 1..MaxTx
Keys == Entities \cup Commands

\* HostState, and what the guest keeps in its memory between invocations.
Instances ==
    [txs : [Handles -> Conns \cup {NoConn}], next : 1..(MaxTx + 1),
     scope : Scopes, gate : [marks : [Keys -> Stamps \cup {NoStamp}], queue : Seq(Keys)]]

NewInstance ==
    [txs |-> [i \in Handles |-> NoConn], next |-> 1, scope |-> "default",
     gate |-> NewGuard(Keys)]

HostInit ==
    /\ backend \in {"kevy", "redis"}
    /\ pool = <<>>
    /\ inst = [w \in Workers |-> NewInstance]
    /\ checkpoints = [s \in Scopes |-> NoCommand]
    /\ counter = 0

-----------------------------------------------------------------------------
(* invoke_guest_json *)

CheckoutWithoutScope(w, cmd) ==
    /\ inst' = [inst EXCEPT ![w] = IF pool = <<>> THEN NewInstance ELSE Head(pool)]
    /\ pool' = IF pool = <<>> THEN pool ELSE Tail(pool)

\* An instance from the pool, or a new one; then the command id of the input.
\* The lock of the pool is held until the instance is there.
Checkout(w, cmd) ==
    LET top == IF pool = <<>> THEN NewInstance ELSE Head(pool)
    IN  /\ inst' = [inst EXCEPT ![w] = [top EXCEPT !.scope = ScopeOf[cmd]]]
        /\ pool' = IF pool = <<>> THEN pool ELSE Tail(pool)

PutBackAlways(w) ==
    /\ pool' = <<[NewInstance EXCEPT !.gate = inst[w].gate]>> \o pool
    /\ inst' = [inst EXCEPT ![w] = NewInstance]

PutBackWithTransactions(w) ==
    /\ pool' = IF Len(pool) < MaxInstances THEN <<inst[w]>> \o pool ELSE pool
    /\ inst' = [inst EXCEPT ![w] = NewInstance]

\* A guest that answered goes back to the pool if there is room, without its
\* transactions, handle numbers and command id.
PutBack(w) ==
    /\ pool' = IF Len(pool) < MaxInstances
               THEN <<[NewInstance EXCEPT !.gate = inst[w].gate]>> \o pool
               ELSE pool
    /\ inst' = [inst EXCEPT ![w] = NewInstance]

\* A guest that trapped, or answered nonsense, is dropped with its memory.
Discard(w) ==
    /\ inst' = [inst EXCEPT ![w] = NewInstance]
    /\ UNCHANGED pool

OpenConns(i) == {i.txs[h] : h \in Handles} \ {NoConn}

-----------------------------------------------------------------------------
(* Host functions.  h is the handle the guest passes. *)

HostConn(w, h) == IF h \in Handles THEN inst[w].txs[h] ELSE NoConn

Held(w, h) == HostConn(w, h) # NoConn

\* begin_tx
HostBegin(w, c, cmd) ==
    /\ inst[w].next \in Handles
    /\ Connect(c, cmd)
    /\ inst' = [inst EXCEPT ![w].txs[inst[w].next] = c, ![w].next = @ + 1]

\* execute and query: the handle leaves the table, the statement runs, and
\* the handle is put back whatever came of it.
HostUpsert(w, h) == Held(w, h) /\ UpsertWatermark(HostConn(w, h)) /\ UNCHANGED inst
HostWrite(w, h) == Held(w, h) /\ WriteRow(HostConn(w, h)) /\ UNCHANGED inst
HostStatementFails(w, h) ==
    LET c == HostConn(w, h)
    IN  Held(w, h) /\ (Refuse(c) \/ Abort(c)) /\ UNCHANGED inst
HostQuery(w, h) == Held(w, h) /\ ~conns[HostConn(w, h)].aborted /\ UNCHANGED <<database, inst>>

\* commit_tx and rollback_tx take the handle away for good.
Forget(w, h) == inst' = [inst EXCEPT ![w].txs[h] = NoConn]
HostCommit(w, h) == Held(w, h) /\ CommitTx(HostConn(w, h)) /\ Forget(w, h)
HostCommitLost(w, h) == Held(w, h) /\ RollbackTx(HostConn(w, h)) /\ Forget(w, h)
HostRollback(w, h) == Held(w, h) /\ RollbackTx(HostConn(w, h)) /\ Forget(w, h)

\* checkpoint.get: a miss, and an error of the store, both give nothing.
CheckpointHit(w) == checkpoints[inst[w].scope]

CheckpointSaveUnscoped(w, cmd) ==
    checkpoints' = [checkpoints EXCEPT !["default"] = cmd]

\* checkpoint.save, with a TTL of a day by default.
CheckpointSave(w, cmd) ==
    checkpoints' = [checkpoints EXCEPT ![inst[w].scope] = cmd]

Expire(s) ==
    /\ checkpoints[s] # NoCommand
    /\ checkpoints' = [checkpoints EXCEPT ![s] = NoCommand]

\* host_redis.execute of INCR: one command of a Redis server, but a get and
\* a set of the embedded store.
IncrAtomically ==
    /\ backend = "redis"
    /\ counter' = counter + 1

\* A call that fails may have counted: a Redis server carries it out, and its
\* answer is lost.
IncrFails == UNCHANGED counter \/ IncrAtomically

IncrReadAnywhere == TRUE
IncrRead == backend = "kevy"
IncrWrite(read) == counter' = read + 1
=============================================================================
