---------------------------- MODULE HostDatabase ----------------------------
(***************************************************************************)
(* The database pool of runtime/src/db/mod.rs, and as much of PostgreSQL   *)
(* as the cells of one chassis can tell: a bounded pool of connections,    *)
(* READ COMMITTED transactions, row locks, and statements that fail and    *)
(* leave their transaction aborted.                                        *)
(*                                                                         *)
(* Two tables: the watermark of each entity (sdks, ENSURE_WATERMARK_TABLE) *)
(* and the row that the cells maintain for it, which tells the command     *)
(* that wrote it last.  A transaction works for one command, on the rows   *)
(* of that command's entity.                                               *)
(*                                                                         *)
(* The actions are parts of a host call: the module that makes the call    *)
(* conjoins them with what it does to the guest.                           *)
(***************************************************************************)
EXTENDS Causality

CONSTANTS Conns,        \* slots of the pool (max_connections.max(1))
          Commands, NoCommand,
          Entities,
          EntityOf,     \* [Commands -> Entities]
          StampOf       \* [Commands -> Stamps], their HLC

ASSUME DatabaseAssumption ==
    /\ Conns # {}
    /\ NoCommand \notin Commands
    /\ EntityOf \in [Commands -> Entities]
    /\ StampOf \in [Commands -> Stamps]

VARIABLES conns,        \* each connection: where it is, and its transaction
          watermark,    \* committed: the stamp of each entity
          row           \* committed: the command that wrote the entity's row

database == <<conns, watermark, row>>

\* at: in the pool, held by a PostgresTx, or by the task that rolls it back.
\* mark: the watermark row is untouched, locked, or locked and rewritten.
Connections ==
    [at : {"pool", "tx", "rollback"}, for : Commands \cup {NoCommand},
     aborted : BOOLEAN, mark : {"none", "locked", "written"}, wrote : BOOLEAN]

Resting == [at |-> "pool", for |-> NoCommand, aborted |-> FALSE,
            mark |-> "none", wrote |-> FALSE]

DatabaseInit ==
    /\ conns = [c \in Conns |-> Resting]
    /\ watermark = [e \in Entities |-> NoStamp]
    /\ row = [e \in Entities |-> NoCommand]

\* An upsert waits for another transaction's lock on the row.
RowLocked(c) ==
    \E d \in Conns \ {c} :
        /\ conns[d].mark # "none"
        /\ EntityOf[conns[d].for] = EntityOf[conns[c].for]

-----------------------------------------------------------------------------
(* PostgresDb and PostgresTx *)

\* pool.get().await, then BEGIN.
Connect(c, cmd) ==
    /\ conns[c].at = "pool"
    /\ conns' = [conns EXCEPT ![c] = [Resting EXCEPT !.at = "tx", !.for = cmd]]
    /\ UNCHANGED <<watermark, row>>

\* BEGIN fails: the connection goes back as it came.
ConnectFails ==
    /\ \E c \in Conns : conns[c].at = "pool"
    /\ UNCHANGED database

\* A parameter cannot be made an SQL value: the statement is not even sent.
Refuse(c) == conns[c].at = "tx" /\ UNCHANGED database

\* A statement that raises an error aborts the transaction.
Abort(c) ==
    /\ conns' = [conns EXCEPT ![c].aborted = TRUE]
    /\ UNCHANGED <<watermark, row>>

\* INSERT ... ON CONFLICT DO UPDATE ... WHERE: the row is locked in any case,
\* and the clause sees the version committed last, not the one a SELECT saw.
UpsertWatermark(c) ==
    LET e == EntityOf[conns[c].for]
        s == StampOf[conns[c].for]
    IN  /\ ~conns[c].aborted
        /\ ~RowLocked(c)
        /\ watermark[e] # NoStamp => ~SqlCastFails(watermark[e], s)
        /\ conns' = [conns EXCEPT ![c].mark =
                        IF watermark[e] = NoStamp \/ SqlOlder(watermark[e], s)
                        THEN "written" ELSE "locked"]
        /\ UNCHANGED <<watermark, row>>

\* The cell's own statement; the lock on the watermark row covers this row.
WriteRow(c) ==
    /\ ~conns[c].aborted
    /\ conns' = [conns EXCEPT ![c].wrote = TRUE]
    /\ UNCHANGED <<watermark, row>>

\* COMMIT, which PostgreSQL answers with a rollback, and no error, if the
\* transaction is aborted.
CommitTx(c) ==
    LET t == conns[c]
        e == EntityOf[t.for]
        effective == ~t.aborted
    IN  /\ watermark' = IF effective /\ t.mark = "written"
                        THEN [watermark EXCEPT ![e] = StampOf[t.for]]
                        ELSE watermark
        /\ row' = IF effective /\ t.wrote THEN [row EXCEPT ![e] = t.for] ELSE row
        /\ conns' = [conns EXCEPT ![c] = Resting]

\* ROLLBACK, or a connection that is lost: nothing is kept.
RollbackTx(c) ==
    /\ conns' = [conns EXCEPT ![c] = Resting]
    /\ UNCHANGED <<watermark, row>>

\* PostgresTx is dropped unfinished: a spawned task takes the connection.
DropTx(cs) ==
    /\ conns' = [c \in Conns |-> IF c \in cs THEN [conns[c] EXCEPT !.at = "rollback"]
                                 ELSE conns[c]]
    /\ UNCHANGED <<watermark, row>>

FinishRollbackForgotten(c) == conns[c].at = "rollback" /\ FALSE

\* That task runs ROLLBACK, and the connection returns to the pool.
FinishRollback(c) ==
    /\ conns[c].at = "rollback"
    /\ RollbackTx(c)
=============================================================================
