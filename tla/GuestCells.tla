----------------------------- MODULE GuestCells -----------------------------
(***************************************************************************)
(* Cells written with the SDKs (sdks/rust, sdks/typescript), run by the    *)
(* workers of one chassis on GuestHost and HostDatabase.  The program of a *)
(* cell is one that the SDK's README gives:                                *)
(*   "orders"    begin a transaction, advance the entity's watermark, write*)
(*               its row if the stamp is fresh, commit; optionally behind  *)
(*               a CausalGuard or a DeduplicationBuffer;                   *)
(*   "payments"  one durable step, ctx.step, around an external effect;    *)
(*   "visits"    redis::incr.                                              *)
(* A command reaches the cell as an event or as a request.  Both may come  *)
(* again: a Nack is redelivered, a client retries.                         *)
(*                                                                         *)
(* Any statement, store or effect may fail, and a guest may trap (panic,   *)
(* throw, epoch deadline) wherever it executes.  A Rust transaction rolls  *)
(* back when it is dropped; an AssemblyScript one has no destructor, and   *)
(* there an SDK error is a throw, which traps.                             *)
(***************************************************************************)
EXTENDS GuestHost

CONSTANTS MaxDeliveries \* bound: [Commands -> Nat], deliveries of each

ASSUME DeliveriesAssumption == MaxDeliveries \in [Commands -> Nat]

VARIABLES program, language, gateKind,
          overlap,      \* may invocations run at the same time?
          guest,        \* the invocation of each worker
          tries,        \* deliveries of each command
          settled,      \* history: answered ack, or ignored by the database
          effects,      \* history: times a command's effect ran, up to 2
          lost,         \* history: scopes whose checkpoint was lost
          counted,      \* history: increments that were answered
          unsure        \* history: increments of a Redis server that failed

settings == <<backend, program, language, gateKind, overlap>>
history == <<tries, settled, effects, lost, counted, unsure>>
vars == <<settings, database, host, guest, history>>

Programs == {"orders", "payments", "visits"}

\* "drop": the handler returns early and its Transaction goes out of scope.
Locations == {"idle", "gate", "begin", "select", "upsert", "apply", "commit",
              "drop", "lookup", "act", "save", "count", "store", "return",
              "throw"}
\* "ignored": the database knows a stamp as new; "discarded": the gate does.
Answers == {"none", "ack", "nack", "ignored", "discarded"}

\* tx: the handle in the guest's Transaction (0: none).  result: the command
\* whose effect the step returned.  read: what a get of the counter returned.
Invocations ==
    [pc : Locations, cmd : Commands \cup {NoCommand}, tx : 0..MaxTx,
     answer : Answers, result : Commands \cup {NoCommand}, read : Nat]

Idle == [pc |-> "idle", cmd |-> NoCommand, tx |-> 0, answer |-> "none",
         result |-> NoCommand, read |-> 0]

Init ==
    /\ DatabaseInit
    /\ HostInit
    /\ program \in Programs
    /\ language \in {"rust", "typescript"}
    /\ gateKind \in {"none", "causal", "dedup"}
    /\ overlap \in BOOLEAN
    /\ program # "orders" => gateKind = "none"
    /\ program # "visits" => backend = "kevy"
    /\ guest = [w \in Workers |-> Idle]
    /\ tries = [c \in Commands |-> 0]
    /\ settled = {}
    /\ effects = [c \in Commands |-> 0]
    /\ lost = {}
    /\ counted = 0
    /\ unsure = 0

Cmd(w) == guest[w].cmd
At(w, pc) == guest[w].pc = pc
Goto(w, pc) == guest' = [guest EXCEPT ![w].pc = pc]
Tx(w) == guest[w].tx

\* The handler returns: with an open Transaction that means a drop in Rust.
Finish(w, answer) ==
    guest' = [guest EXCEPT ![w].answer = answer,
                           ![w].pc = IF language = "rust" /\ Tx(w) # 0
                                     THEN "drop" ELSE "return"]

\* An SDK call fails: in Rust it returns an Err, which the handler answers
\* with Nack; in AssemblyScript it throws, and nothing can catch.
Err(w) == language = "rust" /\ Finish(w, "nack")
Throw(w) == language = "typescript" /\ Goto(w, "throw")
Raise(w) == Err(w) \/ Throw(w)

Entry == CASE program = "orders"   -> IF gateKind = "none" THEN "begin" ELSE "gate"
           [] program = "payments" -> "lookup"
           [] program = "visits"   -> "count"

-----------------------------------------------------------------------------
(* The invocation *)

\* Two workers run the cell only if invocations may overlap.
Invoke(w, cmd) ==
    /\ At(w, "idle")
    /\ overlap \/ \A v \in Workers : At(v, "idle")
    /\ tries[cmd] < MaxDeliveries[cmd]
    /\ tries' = [tries EXCEPT ![cmd] = @ + 1]
    /\ Checkout(w, cmd)
    /\ guest' = [guest EXCEPT ![w] = [Idle EXCEPT !.pc = Entry, !.cmd = cmd]]
    /\ UNCHANGED <<settings, database, checkpoints, counter, settled, effects,
                   lost, counted, unsure>>

\* The guest's answer is read and the instance kept: the host drops the
\* transactions that the guest left open.
Return(w) ==
    /\ At(w, "return")
    /\ PutBack(w)
    /\ DropTx(OpenConns(inst[w]))
    /\ guest' = [guest EXCEPT ![w] = Idle]
    /\ settled' = IF program = "orders" /\ guest[w].answer \in {"ack", "ignored"}
                  THEN settled \cup {Cmd(w)} ELSE settled
    /\ UNCHANGED <<settings, checkpoints, counter, tries, effects, lost, counted,
                   unsure>>

\* The invocation fails: a trap, or an answer the host cannot read.  The host
\* call of "store" is no place for a trap.
Trap(w) ==
    /\ ~At(w, "idle") /\ ~At(w, "store")
    /\ Discard(w)
    /\ DropTx(OpenConns(inst[w]))
    /\ guest' = [guest EXCEPT ![w] = Idle]
    /\ lost' = IF At(w, "save") THEN lost \cup {ScopeOf[Cmd(w)]} ELSE lost
    /\ UNCHANGED <<settings, checkpoints, counter, tries, settled, effects, counted,
                   unsure>>

\* The task that took a dropped transaction's connection.
Release(c) ==
    /\ FinishRollback(c)
    /\ UNCHANGED <<settings, host, guest, history>>

-----------------------------------------------------------------------------
(* "orders" *)

\* The gate in the guest's memory.  It remembers the stamp before anything
\* else has happened.
CausalGate(w) ==
    LET g == inst[w].gate
        entity == EntityOf[Cmd(w)]
        stamp == StampOf[Cmd(w)]
    IN  /\ gateKind = "causal"
        /\ inst' = [inst EXCEPT ![w].gate = Advance(language, g, Capacity, entity, stamp)]
        /\ IF GuardVerdict(language, g, entity, stamp) = "Fresh" THEN Goto(w, "begin")
           ELSE Finish(w, "discarded")

DedupGate(w) ==
    LET g == inst[w].gate
        stamp == StampOf[Cmd(w)]
    IN  /\ gateKind = "dedup"
        /\ inst' = [inst EXCEPT ![w].gate =
                      CheckAndUpdate(language, g, Capacity, Cmd(w), stamp)]
        /\ IF Admits(language, g, Cmd(w), stamp) THEN Goto(w, "begin")
           ELSE Finish(w, "discarded")

Gate(w) ==
    /\ At(w, "gate")
    /\ CausalGate(w) \/ DedupGate(w)
    /\ UNCHANGED <<settings, database, pool, checkpoints, counter, history>>

\* Database::begin_tx.
TxBegun(w) ==
    \E c \in Conns :
        /\ HostBegin(w, c, Cmd(w))
        /\ guest' = [guest EXCEPT ![w].pc = "select", ![w].tx = inst[w].next]

BeginTx(w) ==
    /\ At(w, "begin")
    /\ TxBegun(w) \/ (ConnectFails /\ Raise(w) /\ UNCHANGED inst)
    /\ UNCHANGED <<settings, pool, checkpoints, counter, history>>

\* advance_db_watermark, first half: SELECT hlc, and the verdict on it.  The
\* AssemblyScript port looks for "hlc": in rows that reach it as an escaped
\* string, never finds it, and goes on as if the entity were new.
Found(cmd) == IF language = "typescript" THEN NoStamp ELSE watermark[EntityOf[cmd]]

VerdictOnDuplicatesOnly(cmd) ==
    IF Found(cmd) = StampOf[cmd] THEN "Duplicate" ELSE "Fresh"

Verdict(cmd) ==
    IF Found(cmd) = NoStamp THEN "Fresh"
    ELSE Evaluate("rust", StampOf[cmd], Found(cmd))

StatementFails(w) == HostStatementFails(w, Tx(w)) /\ Raise(w)

SelectWatermark(w) ==
    /\ At(w, "select")
    /\ \/ /\ HostQuery(w, Tx(w))
          /\ IF Verdict(Cmd(w)) = "Fresh" THEN Goto(w, "upsert")
             ELSE Finish(w, "ignored")
       \/ StatementFails(w)
    /\ UNCHANGED <<settings, inst, pool, checkpoints, counter, history>>

\* Second half: the conditional upsert, whose row count nobody looks at.  No
\* statement has a timeout: it waits for the row and is answered then.
UpsertFresh(w) ==
    /\ At(w, "upsert") /\ ~RowLocked(HostConn(w, Tx(w)))
    /\ (HostUpsert(w, Tx(w)) /\ Goto(w, "apply")) \/ StatementFails(w)
    /\ UNCHANGED <<settings, pool, checkpoints, counter, history>>

\* It may fail while it waits: the parameters, the connection or the server.
FailUpsert(w) ==
    /\ At(w, "upsert") /\ RowLocked(HostConn(w, Tx(w)))
    /\ StatementFails(w)
    /\ UNCHANGED <<settings, pool, checkpoints, counter, history>>

\* The handler's own statement, Transaction::execute.
Apply(w) ==
    /\ At(w, "apply")
    /\ (HostWrite(w, Tx(w)) /\ Goto(w, "commit")) \/ StatementFails(w)
    /\ UNCHANGED <<settings, pool, checkpoints, counter, history>>

CommitAnswerIgnored(error) == "ack"
CommitAnswer(error) == IF error THEN "nack" ELSE "ack"

\* Transaction::commit sets committed first, so nothing is rolled back when
\* the call fails; it may fail before or after the database has committed.
Commit(w) ==
    /\ At(w, "commit")
    /\ \E error \in BOOLEAN :
          /\ HostCommit(w, Tx(w)) \/ (error /\ HostCommitLost(w, Tx(w)))
          /\ guest' = [guest EXCEPT ![w].tx = 0,
                   ![w].answer = CommitAnswer(error),
                   ![w].pc = IF error /\ language = "typescript" THEN "throw"
                             ELSE "return"]
    /\ UNCHANGED <<settings, pool, checkpoints, counter, history>>

\* Drop for Transaction rolls back.  After an error the handler may try again
\* before it gives up.
DropTransaction(w) ==
    /\ At(w, "drop")
    /\ HostRollback(w, Tx(w))
    /\ \E pc \in {"return", "begin"} :
          /\ pc = "begin" => guest[w].answer = "nack" /\ inst[w].next \in Handles
          /\ guest' = [guest EXCEPT ![w].tx = 0, ![w].pc = pc]
    /\ UNCHANGED <<settings, pool, checkpoints, counter, history>>

\* An AssemblyScript handler returns without commit or rollback.
LeaveOpen(w) ==
    /\ language = "typescript"
    /\ At(w, "upsert") \/ At(w, "apply") \/ At(w, "commit")
    /\ Finish(w, "nack")
    /\ UNCHANGED <<settings, database, host, history>>

-----------------------------------------------------------------------------
(* "payments": step(name, action) *)

\* The step returns a result to the handler, which acknowledges.
StepReturns(w, result) ==
    guest' = [guest EXCEPT ![w].result = result, ![w].answer = "ack",
                           ![w].pc = "return"]

\* checkpoint::get_step: what was saved, or nothing.  An error of the store,
\* and a text that cannot be decoded, count as nothing.
StepKnown(w) == CheckpointHit(w) # NoCommand /\ StepReturns(w, CheckpointHit(w))

Lookup(w) ==
    /\ At(w, "lookup")
    /\ \/ StepKnown(w) /\ UNCHANGED lost
       \/ /\ Goto(w, "act")
          /\ lost' = IF CheckpointHit(w) = NoCommand THEN lost
                     ELSE lost \cup {ScopeOf[Cmd(w)]}
    /\ UNCHANGED <<settings, database, host, tries, settled, effects, counted, unsure>>

\* action(): the effect runs, or fails before it takes effect.
Act(w) ==
    /\ At(w, "act")
    /\ \/ /\ Goto(w, "save")
          /\ effects' = [effects EXCEPT ![Cmd(w)] = IF @ < 2 THEN @ + 1 ELSE @]
       \/ Raise(w) /\ UNCHANGED effects
    /\ UNCHANGED <<settings, database, host, tries, settled, lost, counted, unsure>>

\* checkpoint::save_step, whose failure is not noticed.
Save(w) ==
    /\ At(w, "save")
    /\ \/ CheckpointSave(w, Cmd(w)) /\ UNCHANGED lost
       \/ lost' = lost \cup {ScopeOf[Cmd(w)]} /\ UNCHANGED checkpoints
    /\ StepReturns(w, Cmd(w))
    /\ UNCHANGED <<settings, database, pool, inst, counter, tries, settled,
                   effects, counted, unsure>>

\* The checkpoint's TTL runs out.
ExpireCheckpoint(s) ==
    /\ Expire(s)
    /\ lost' = lost \cup {s}
    /\ UNCHANGED <<settings, database, pool, inst, counter, guest, tries,
                   settled, effects, counted, unsure>>

-----------------------------------------------------------------------------
(* "visits": redis::incr *)

Incr(w) ==
    /\ At(w, "count")
    /\ \/ /\ IncrAtomically
          /\ counted' = counted + 1
          /\ Finish(w, "ack")
          /\ UNCHANGED unsure
       \/ /\ IncrRead
          /\ guest' = [guest EXCEPT ![w].read = counter, ![w].pc = "store"]
          /\ UNCHANGED <<counter, counted, unsure>>
       \/ /\ IncrFails
          /\ unsure' = IF backend = "redis" THEN unsure + 1 ELSE unsure
          /\ Raise(w)
          /\ UNCHANGED counted
    /\ UNCHANGED <<settings, database, pool, inst, checkpoints, tries, settled,
                   effects, lost>>

StoreIncr(w) ==
    /\ At(w, "store")
    /\ \/ /\ IncrWrite(guest[w].read)
          /\ counted' = counted + 1
          /\ Finish(w, "ack")
       \/ Raise(w) /\ UNCHANGED <<counter, counted>>
    /\ UNCHANGED <<settings, database, pool, inst, checkpoints, tries, settled,
                   effects, lost, unsure>>
-----------------------------------------------------------------------------
Work(w) ==
    \/ Return(w)
    \/ Gate(w) \/ BeginTx(w) \/ SelectWatermark(w) \/ UpsertFresh(w)
    \/ Apply(w) \/ Commit(w) \/ DropTransaction(w)
    \/ Lookup(w) \/ Act(w) \/ Save(w)
    \/ Incr(w) \/ StoreIncr(w)
    \/ At(w, "throw") /\ Trap(w)

Next ==
    \/ \E w \in Workers : \/ \E cmd \in Commands : Invoke(w, cmd)
                         \/ Work(w) \/ FailUpsert(w) \/ Trap(w) \/ LeaveOpen(w)
    \/ \E c \in Conns : Release(c)
    \/ \E s \in Scopes : ExpireCheckpoint(s)

Spec == Init /\ [][Next]_vars

\* Threads and spawned tasks are scheduled, and the database answers a statement
\* that waits for no row.  The pool hands out connections, and PostgreSQL row
\* locks, in the order they were asked for, so one that becomes free again and
\* again is obtained: that is the strong fairness, and only BeginTx and
\* UpsertFresh ever wait.  Neither wait has a timeout, and FailUpsert is no way
\* out of it that anybody may count on; nor is anything obliged to trap, to
\* expire, or to send a command.
FairSpec ==
    /\ Spec
    /\ \A w \in Workers : SF_vars(Work(w))
    /\ WF_vars(\E c \in Conns : Release(c))

-----------------------------------------------------------------------------
(* Properties *)

TypeOK ==
    /\ backend \in {"kevy", "redis"} /\ program \in Programs
    /\ language \in {"rust", "typescript"} /\ overlap \in BOOLEAN
    /\ gateKind \in {"none", "causal", "dedup"}
    /\ conns \in [Conns -> Connections]
    /\ watermark \in [Entities -> Stamps \cup {NoStamp}]
    /\ row \in [Entities -> Commands \cup {NoCommand}]
    /\ pool \in Seq(Instances) /\ Len(pool) <= MaxInstances
    /\ inst \in [Workers -> Instances]
    /\ checkpoints \in [Scopes -> Commands \cup {NoCommand}]
    /\ counter \in Nat /\ counted \in Nat /\ unsure \in Nat
    /\ guest \in [Workers -> Invocations]
    /\ \A cmd \in Commands : tries[cmd] \in 0..MaxDeliveries[cmd]
    /\ effects \in [Commands -> 0..2]
    /\ settled \subseteq Commands /\ lost \subseteq Scopes

\* The handle in an invocation's Transaction leads to a connection that works
\* for the same command, and every connection that a transaction holds is in
\* the table of exactly one instance in use: none leaks through a trap, an
\* early return or the pool of instances, and none is reached by two guests.
HandlesAreOwn ==
    /\ \A w \in Workers : Tx(w) # 0 =>
          /\ Held(w, Tx(w))
          /\ conns[HostConn(w, Tx(w))].at = "tx"
          /\ conns[HostConn(w, Tx(w))].for = Cmd(w)
    /\ \A c \in Conns :
          conns[c].at = "tx" <=> \E w \in Workers : c \in OpenConns(inst[w])
    /\ \A v, w \in Workers : v # w => OpenConns(inst[v]) \cap OpenConns(inst[w]) = {}
    /\ \A i \in 1..Len(pool) : OpenConns(pool[i]) = {}

\* A gate remembers no more keys than its capacity, and its map and its queue
\* know the same ones, after any sequence of calls: otherwise it would grow
\* without bound, or forget a key and never evict it.
GateInBounds(g) ==
    /\ Len(g.queue) <= AtLeastOne(Capacity)
    /\ {g.queue[i] : i \in DOMAIN g.queue} = Tracked(g)
    /\ Cardinality(Tracked(g)) = Len(g.queue)
GatesInBounds ==
    /\ \A w \in Workers : GateInBounds(inst[w].gate)
    /\ \A i \in 1..Len(pool) : GateInBounds(pool[i].gate)

\* A command that was acknowledged, or ignored because the database knew its
\* stamp as old, is one that the watermark has reached: no answer is given for
\* work that a failed commit, a pooled instance or a rollback then loses.
AnsweredMeansDurable ==
    \A cmd \in settled :
        /\ watermark[EntityOf[cmd]] # NoStamp
        /\ ~(Evaluate("rust", StampOf[cmd], watermark[EntityOf[cmd]]) = "Fresh")

\* The committed watermark of an entity only moves to newer stamps, whichever
\* transactions overlap and whatever their SELECT saw.
WatermarkGrows ==
    [][\A e \in Entities :
          \/ watermark'[e] = watermark[e]
          \/ watermark[e] = NoStamp
          \/ Evaluate("rust", watermark'[e], watermark[e]) = "Fresh"]_vars

\* With the Rust SDK, and invocations in turns, the row of an entity is always
\* the one of its newest stamp, through retries, traps and rollbacks that are
\* still under way.  (Overlapping transactions can both be told Fresh, and the
\* AssemblyScript port is told nothing else.)
NewestWinsInTurns ==
    language = "rust" /\ ~overlap =>
        \A e \in Entities :
            watermark[e] = IF row[e] = NoCommand THEN NoStamp ELSE StampOf[row[e]]

\* Invocations in turns: a durable step's effect runs a second time for a
\* command only if the checkpoint of its scope was lost (not saved, not
\* readable, expired), whoever shares that scope.
ChargedAgainOnlyIfLost ==
    ~overlap => \A cmd \in Commands : effects[cmd] > 1 => ScopeOf[cmd] \in lost

\* What a step returns to a command that has an id is the result of that
\* command's own effect, whichever pooled instance it runs on.
StepOfIdentifiedIsOwn ==
    \A w \in Workers :
        /\ guest[w].result # NoCommand
        /\ ScopeOf[Cmd(w)] # "default"
        => guest[w].result = Cmd(w)

\* The promise of the SDK's documentation ("chk:<cmd_id>:<step_name>"): what a step returns is what it did for this command.
StepIsOwn ==
    \A w \in Workers : guest[w].result # NoCommand => guest[w].result = Cmd(w)

\* The counter never counts what nobody asked for: beyond the increments that
\* were answered there are at most those of a Redis server whose answer was
\* lost.  And every one that was answered is in it, if Redis counts or the
\* increments take turns (the embedded store loses some of those that overlap).
CountsKept ==
    /\ counter <= counted + unsure
    /\ backend = "redis" \/ ~overlap => counted <= counter

\* Every invocation ends: whoever waits for a connection or a row gets it, as
\* the ones that hold them finish, trap, or are rolled back behind their back.
EveryInvocationEnds ==
    \A w \in Workers : ~At(w, "idle") ~> At(w, "idle")
=============================================================================
