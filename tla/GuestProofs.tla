----------------------------- MODULE GuestProofs -----------------------------
(***************************************************************************)
(* Guests and their transactions, for any workers, connections, commands,  *)
(* stamps and limits: every variable keeps its type, and no connection     *)
(* leaks from an invocation or is reached by two.                          *)
(*                                                                         *)
(* HandlesAreOwn is not inductive.  A connection taken from the pool goes  *)
(* under a handle that was never used (Unused), so nothing is overwritten; *)
(* no connection is under two handles (OneHandle), so a handle that is     *)
(* forgotten takes it off the table; and an instance that nobody uses, in  *)
(* the pool or with an idle worker, has no handles (Clean), so nothing is  *)
(* lost when another takes its place.                                      *)
(*                                                                         *)
(* Checkpoints and counters are right when invocations take turns: then a  *)
(* worker that is about to write is the only one, and what it looked up or *)
(* read is still so (TurnInv).                                             *)
(***************************************************************************)
EXTENDS GuestCells, TLAPS

\* A worker that is not idle works for a command; so does a transaction.
Employed ==
    /\ \A w \in Workers : guest[w].pc # "idle" => guest[w].cmd \in Commands
    /\ \A c \in Conns : conns[c].at = "tx" => conns[c].for \in Commands

TInv == TypeOK /\ Employed

Unused(i) == \A h \in Handles : h >= i.next => i.txs[h] = NoConn
OneHandle(i) ==
    \A g, h \in Handles : i.txs[g] = i.txs[h] /\ i.txs[g] # NoConn => g = h
Clean(i) == i.next = 1 /\ \A h \in Handles : i.txs[h] = NoConn

OInv ==
    /\ HandlesAreOwn
    /\ \A w \in Workers : Unused(inst[w]) /\ OneHandle(inst[w])
    /\ \A w \in Workers : guest[w].pc = "idle" => Clean(inst[w])
    /\ \A i \in 1..Len(pool) : Clean(pool[i])

-----------------------------------------------------------------------------
(* Gates *)

Gates == [marks : [Keys -> Stamps \cup {NoStamp}], queue : Seq(Keys)]

LEMMA EvictTyped ==
    ASSUME NEW g \in Gates, NEW r
    PROVE  Evict(r, g, Capacity) \in Gates
<1>1. Len(g.queue) > 0 => ForgetOldest(g) \in Gates
  <2> SUFFICES ASSUME Len(g.queue) > 0 PROVE ForgetOldest(g) \in Gates
    OBVIOUS
  <2>1. g.queue \in Seq(Keys) /\ g.queue # <<>>
    BY DEF Gates
  <2>2. Tail(g.queue) \in Seq(Keys)
    BY <2>1
  <2>3. [g.marks EXCEPT ![Head(g.queue)] = NoStamp] \in [Keys -> Stamps \cup {NoStamp}]
    BY DEF Gates
  <2> QED
    BY <2>2, <2>3 DEF ForgetOldest, Gates
<1>2. Len(g.queue) \in Nat
  BY DEF Gates
<1>3. Len(g.queue) >= AtLeastOne(Capacity) => Len(g.queue) > 0
  BY <1>2, HostAssumption DEF AtLeastOne
<1> QED
  BY <1>1, <1>3 DEF Evict, EvictRust, EvictTs

LEMMA RememberTyped ==
    ASSUME NEW g \in Gates, NEW r, NEW k \in Keys, NEW s \in Stamps
    PROVE  Remember(r, g, Capacity, k, s) \in Gates
<1>1. CASE k \in Tracked(g)
  BY <1>1 DEF Remember, Gates
<1>2. CASE k \notin Tracked(g)
  <2> DEFINE room == Evict(r, g, Capacity)
  <2>1. room \in Gates
    BY EvictTyped
  <2> HIDE DEF room
  <2>2. Append(room.queue, k) \in Seq(Keys)
    BY <2>1 DEF Gates
  <2>3. [room.marks EXCEPT ![k] = s] \in [Keys -> Stamps \cup {NoStamp}]
    BY <2>1 DEF Gates
  <2> QED
    BY <1>2, <2>2, <2>3 DEF Remember, Gates, room
<1> QED
  BY <1>1, <1>2

LEMMA InstanceFields ==
    Instances = [txs : [Handles -> Conns \cup {NoConn}], next : 1..(MaxTx + 1),
                 scope : Scopes, gate : Gates]
BY DEF Instances, Gates

LEMMA NewInstanceTyped == NewInstance \in Instances /\ Clean(NewInstance)
<1>1. NewGuard(Keys) \in Gates
  BY DEF NewGuard, Gates
<1> QED
  BY <1>1, HostAssumption, InstanceFields DEF NewInstance, Clean

-----------------------------------------------------------------------------
(* Types *)

LEMMA InitTyped == Init => TInv
<1> SUFFICES ASSUME Init PROVE TInv
  OBVIOUS
<1>1. conns \in [Conns -> Connections] /\ \A c \in Conns : conns[c].at = "pool"
  BY DEF Init, DatabaseInit, Resting, Connections
<1>2. inst \in [Workers -> Instances] /\ pool = <<>>
  BY NewInstanceTyped DEF Init, HostInit
<1>3. guest \in [Workers -> Invocations] /\ \A w \in Workers : guest[w].pc = "idle"
  BY HostAssumption DEF Init, Idle, Invocations, Locations, Answers
<1>4. pool \in Seq(Instances) /\ Len(pool) <= MaxInstances
  BY <1>2, HostAssumption
<1>5. \A cmd \in Commands : tries[cmd] \in 0..MaxDeliveries[cmd]
  BY DeliveriesAssumption DEF Init
<1>6. TypeOK
  BY <1>1, <1>2, <1>3, <1>4, <1>5 DEF TypeOK, Init, DatabaseInit, HostInit
<1> QED
  BY <1>1, <1>3, <1>6 DEF TInv, Employed

DatabaseTyped ==
    /\ conns \in [Conns -> Connections]
    /\ watermark \in [Entities -> Stamps \cup {NoStamp}]
    /\ row \in [Entities -> Commands \cup {NoCommand}]
    /\ \A c \in Conns : conns[c].at = "tx" => conns[c].for \in Commands

HostTyped ==
    /\ pool \in Seq(Instances) /\ Len(pool) <= MaxInstances
    /\ inst \in [Workers -> Instances]
    /\ checkpoints \in [Scopes -> Commands \cup {NoCommand}]
    /\ counter \in Nat

GuestTyped ==
    /\ guest \in [Workers -> Invocations]
    /\ \A w \in Workers : guest[w].pc # "idle" => guest[w].cmd \in Commands

HistoryTyped ==
    /\ backend \in {"kevy", "redis"} /\ program \in Programs
    /\ language \in {"rust", "typescript"} /\ overlap \in BOOLEAN
    /\ gateKind \in {"none", "causal", "dedup"}
    /\ \A cmd \in Commands : tries[cmd] \in 0..MaxDeliveries[cmd]
    /\ effects \in [Commands -> 0..2]
    /\ settled \subseteq Commands /\ lost \subseteq Scopes
    /\ counted \in Nat /\ unsure \in Nat

LEMMA TypedInParts ==
    /\ TInv <=> DatabaseTyped /\ HostTyped /\ GuestTyped /\ HistoryTyped
    /\ TInv' <=> DatabaseTyped' /\ HostTyped' /\ GuestTyped' /\ HistoryTyped'
BY DEF TInv, TypeOK, Employed, DatabaseTyped, HostTyped, GuestTyped, HistoryTyped

LEMMA HistoryStays == HistoryTyped /\ UNCHANGED <<settings, history>> => HistoryTyped'
BY DEF HistoryTyped, settings, history

\* What a host call leads to is a connection with an open transaction.
LEMMA HeldIsOpen ==
    ASSUME OInv, NEW w \in Workers, NEW h, Held(w, h)
    PROVE  /\ h \in Handles /\ HostConn(w, h) = inst[w].txs[h]
           /\ HostConn(w, h) \in OpenConns(inst[w])
           /\ HostConn(w, h) \in Conns => conns[HostConn(w, h)].at = "tx"
BY DEF OInv, HandlesAreOwn, Held, HostConn, OpenConns

LEMMA HeldIsConn ==
    ASSUME HostTyped, NEW w \in Workers, NEW h, Held(w, h)
    PROVE  HostConn(w, h) \in Conns
BY DEF HostTyped, Instances, Held, HostConn

(* The database *)

LEMMA ConnectTyped ==
    ASSUME DatabaseTyped, NEW c \in Conns, NEW cmd \in Commands, Connect(c, cmd)
    PROVE  DatabaseTyped'
BY DEF DatabaseTyped, Connect, Resting, Connections

LEMMA StatementTyped ==
    ASSUME DatabaseTyped, NEW c \in Conns,
           UpsertWatermark(c) \/ WriteRow(c) \/ Refuse(c) \/ Abort(c) \/ UNCHANGED database
    PROVE  /\ DatabaseTyped'
           /\ \A d \in Conns : conns'[d].at = conns[d].at /\ conns'[d].for = conns[d].for
<1>1. CASE UNCHANGED database \/ Refuse(c)
  BY <1>1 DEF DatabaseTyped, Refuse, database
<1>2. CASE Abort(c)
  BY <1>2 DEF DatabaseTyped, Abort, Connections
<1>3. CASE UpsertWatermark(c)
  BY <1>3 DEF DatabaseTyped, UpsertWatermark, Connections
<1>4. CASE WriteRow(c)
  BY <1>4 DEF DatabaseTyped, WriteRow, Connections
<1> QED
  BY <1>1, <1>2, <1>3, <1>4

LEMMA RestingTyped == Resting \in Connections /\ Resting.at = "pool"
BY DEF Resting, Connections

LEMMA CommitTyped ==
    ASSUME DatabaseTyped, NEW c \in Conns, conns[c].at = "tx",
           CommitTx(c) \/ RollbackTx(c)
    PROVE  DatabaseTyped' /\ conns' = [conns EXCEPT ![c] = Resting]
<1>1. conns' = [conns EXCEPT ![c] = Resting]
  BY DEF CommitTx, RollbackTx
<1>2. /\ conns[c].for \in Commands
      /\ StampOf[conns[c].for] \in Stamps
  BY DatabaseAssumption DEF DatabaseTyped
<1>3. watermark' \in [Entities -> Stamps \cup {NoStamp}]
  BY <1>2 DEF DatabaseTyped, CommitTx, RollbackTx
<1>4. row' \in [Entities -> Commands \cup {NoCommand}]
  BY <1>2 DEF DatabaseTyped, CommitTx, RollbackTx
<1>5. conns' \in [Conns -> Connections]
  BY <1>1, RestingTyped DEF DatabaseTyped
<1>6. \A d \in Conns : conns'[d].at = "tx" => conns'[d].for \in Commands
  BY <1>1, RestingTyped DEF DatabaseTyped
<1> QED
  BY <1>1, <1>3, <1>4, <1>5, <1>6 DEF DatabaseTyped

LEMMA DropTyped ==
    ASSUME DatabaseTyped, NEW cs, DropTx(cs)
    PROVE  /\ DatabaseTyped'
           /\ \A c \in Conns : /\ c \in cs => conns'[c].at = "rollback"
                               /\ c \notin cs => conns'[c] = conns[c]
BY DEF DatabaseTyped, DropTx, Connections

(* The guest *)

\* An invocation goes on, for its command, with its transaction.
Moves(w) ==
    /\ GuestTyped'
    /\ guest[w].pc # "idle" /\ guest'[w].pc # "idle"
    /\ guest'[w].cmd = guest[w].cmd /\ guest'[w].tx = guest[w].tx
    /\ \A v \in Workers \ {w} : guest'[v] = guest[v]

LEMMA GotoMoves ==
    ASSUME GuestTyped, NEW w \in Workers, guest[w].pc # "idle",
           NEW pc \in Locations \ {"idle"}, Goto(w, pc)
    PROVE  Moves(w)
BY DEF GuestTyped, Goto, Moves, Invocations

LEMMA FinishMoves ==
    ASSUME GuestTyped, NEW w \in Workers, guest[w].pc # "idle",
           NEW answer \in Answers, Finish(w, answer)
    PROVE  Moves(w)
<1>1. PICK pc \in {"drop", "return"} :
        guest' = [guest EXCEPT ![w].answer = answer, ![w].pc = pc]
  BY DEF Finish
<1> QED
  BY <1>1 DEF GuestTyped, Moves, Invocations, Locations

LEMMA RaiseMoves ==
    ASSUME GuestTyped, NEW w \in Workers, guest[w].pc # "idle", Raise(w)
    PROVE  Moves(w)
BY GotoMoves, FinishMoves DEF Raise, Err, Throw, Answers, Locations

LEMMA ReturnsMoves ==
    ASSUME GuestTyped, NEW w \in Workers, guest[w].pc # "idle",
           NEW result \in Commands \cup {NoCommand}, StepReturns(w, result)
    PROVE  Moves(w)
<1>1. PICK x : x = [guest[w] EXCEPT !.result = result, !.answer = "ack", !.pc = "return"]
  OBVIOUS
<1>2. /\ x \in Invocations
      /\ x.cmd = guest[w].cmd /\ x.tx = guest[w].tx /\ x.pc = "return"
  BY <1>1 DEF GuestTyped, Invocations, Locations, Answers
<1>3. guest' = [guest EXCEPT ![w] = x]
  BY <1>1 DEF StepReturns
<1> QED
  BY <1>2, <1>3 DEF GuestTyped, Moves

-----------------------------------------------------------------------------
(* Who holds which connection *)

IInv == TInv /\ OInv

Owns(w) ==
    Tx(w) # 0 => /\ Held(w, Tx(w))
                 /\ conns[HostConn(w, Tx(w))].at = "tx"
                 /\ conns[HostConn(w, Tx(w))].for = Cmd(w)
Listed == \A c \in Conns :
             conns[c].at = "tx" <=> \E w \in Workers : c \in OpenConns(inst[w])
Apart == \A v, w \in Workers : v # w => OpenConns(inst[v]) \cap OpenConns(inst[w]) = {}
Tidy(w) == /\ Unused(inst[w]) /\ OneHandle(inst[w])
           /\ guest[w].pc = "idle" => Clean(inst[w])

LEMMA CleanIsEmpty ==
    ASSUME NEW i, Clean(i)
    PROVE  OpenConns(i) = {} /\ Unused(i) /\ OneHandle(i)
BY DEF Clean, OpenConns, Unused, OneHandle

LEMMA OwnedInParts ==
    /\ OInv <=> /\ \A w \in Workers : Owns(w) /\ Tidy(w)
                /\ Listed /\ Apart /\ \A i \in 1..Len(pool) : Clean(pool[i])
    /\ OInv' <=> /\ \A w \in Workers : Owns(w)' /\ Tidy(w)'
                 /\ Listed' /\ Apart' /\ \A i \in 1..Len(pool') : Clean(pool'[i])
<1>1. OInv <=> /\ \A w \in Workers : Owns(w) /\ Tidy(w)
               /\ Listed /\ Apart /\ \A i \in 1..Len(pool) : Clean(pool[i])
  BY CleanIsEmpty DEF OInv, HandlesAreOwn, Owns, Tidy, Listed, Apart
<1>2. OInv' <=> /\ \A w \in Workers : Owns(w)' /\ Tidy(w)'
                /\ Listed' /\ Apart' /\ \A i \in 1..Len(pool') : Clean(pool'[i])
  BY CleanIsEmpty DEF OInv, HandlesAreOwn, Owns, Tidy, Listed, Apart
<1> QED
  BY <1>1, <1>2

LEMMA InitOwned == Init => OInv
<1> SUFFICES ASSUME Init PROVE OInv
  OBVIOUS
<1>1. /\ \A w \in Workers : guest[w].tx = 0 /\ inst[w] = NewInstance
      /\ \A c \in Conns : conns[c].at = "pool"
      /\ pool = <<>>
  BY DEF Init, HostInit, DatabaseInit, Idle, Resting
<1>2. Clean(NewInstance)
  BY NewInstanceTyped
<1>3. Unused(NewInstance) /\ OneHandle(NewInstance) /\ OpenConns(NewInstance) = {}
  BY <1>2, CleanIsEmpty
<1>4. \A w \in Workers : Owns(w) /\ Tidy(w)
  BY <1>1, <1>2, <1>3 DEF Owns, Tidy, Tx
<1>5. Listed /\ Apart
  BY <1>1, <1>3 DEF Listed, Apart
<1> QED
  BY <1>1, <1>4, <1>5, OwnedInParts

\* A worker whose table, handle and connections stay as they are.
LEMMA WorkerKeeps ==
    ASSUME NEW w \in Workers, Owns(w),
           inst'[w].txs = inst[w].txs,
           guest'[w].tx = guest[w].tx, guest'[w].cmd = guest[w].cmd,
           \A c \in OpenConns(inst[w]) :
               conns'[c].at = conns[c].at /\ conns'[c].for = conns[c].for
    PROVE  Owns(w)'
<1>1. CASE guest[w].tx = 0
  BY <1>1 DEF Owns, Tx
<1>2. CASE guest[w].tx # 0
  <2> DEFINE c == HostConn(w, guest[w].tx)
  <2>1. /\ c # NoConn /\ guest[w].tx \in Handles /\ c = inst[w].txs[guest[w].tx]
        /\ conns[c].at = "tx" /\ conns[c].for = guest[w].cmd
    BY <1>2 DEF Owns, Tx, Cmd, Held, HostConn
  <2>2. c \in OpenConns(inst[w])
    BY <2>1 DEF OpenConns
  <2>3. conns'[c].at = "tx" /\ conns'[c].for = guest'[w].cmd
    BY <2>1, <2>2
  <2>4. HostConn(w, Tx(w))' = c
    BY <2>1 DEF HostConn, Tx
  <2> HIDE DEF c
  <2> QED
    BY <2>1, <2>3, <2>4 DEF Owns, Held, Cmd
<1> QED
  BY <1>1, <1>2

LEMMA OwnedStays ==
    ASSUME OInv, UNCHANGED <<conns, guest, inst, pool>>
    PROVE  OInv'
<1>1. \A w \in Workers : Owns(w)'
  BY WorkerKeeps, OwnedInParts
<1>2. Listed' /\ Apart' /\ \A w \in Workers : Tidy(w)'
  BY OwnedInParts DEF Listed, Apart, Tidy
<1> QED
  BY <1>1, <1>2, OwnedInParts

\* A step that leaves the tables and the connections as they are.
LEMMA MovesKeeps ==
    ASSUME IInv, NEW w \in Workers, Moves(w), UNCHANGED pool,
           \A v \in Workers : inst'[v].txs = inst[v].txs /\ inst'[v].next = inst[v].next,
           \A c \in Conns : conns'[c].at = conns[c].at /\ conns'[c].for = conns[c].for
    PROVE  OInv'
<1>1. \A v \in Workers :
        /\ guest'[v].cmd = guest[v].cmd /\ guest'[v].tx = guest[v].tx
        /\ guest'[v].pc = "idle" <=> guest[v].pc = "idle"
  BY DEF Moves
<1>2. \A v \in Workers : OpenConns(inst'[v]) = OpenConns(inst[v])
  BY DEF OpenConns
<1>3. \A v \in Workers : OpenConns(inst[v]) \subseteq Conns
  BY TypedInParts DEF IInv, HostTyped, Instances, OpenConns
<1>4. \A v \in Workers : Owns(v)'
  BY <1>1, <1>3, WorkerKeeps, OwnedInParts DEF IInv
<1>5. \A v \in Workers : Tidy(v)
  BY OwnedInParts DEF IInv
<1>6. \A v \in Workers : Tidy(v)'
  BY <1>1, <1>5 DEF Tidy, Unused, OneHandle, Clean
<1>7. Listed' /\ Apart'
  BY <1>2, OwnedInParts DEF IInv, Listed, Apart
<1> QED
  BY <1>4, <1>6, <1>7, OwnedInParts DEF IInv

\* A connection goes from the pool to a handle of its own.
LEMMA BeginKeeps ==
    ASSUME IInv, NEW w \in Workers, guest[w].pc # "idle", NEW c \in Conns,
           HostBegin(w, c, guest[w].cmd), UNCHANGED pool,
           guest' = [guest EXCEPT ![w].pc = "select", ![w].tx = inst[w].next]
    PROVE  OInv'
<1> DEFINE h == inst[w].next
<1>1. /\ h \in Handles /\ conns[c].at = "pool"
      /\ conns' = [conns EXCEPT ![c] = [Resting EXCEPT !.at = "tx", !.for = guest[w].cmd]]
  BY DEF HostBegin, Connect
<1>2. /\ inst \in [Workers -> Instances]
      /\ inst' = [inst EXCEPT ![w].txs[h] = c, ![w].next = @ + 1]
  BY TypedInParts DEF HostBegin, IInv, HostTyped
<1>3. /\ \A v \in Workers \ {w} : inst'[v] = inst[v]
      /\ inst'[w].next = h + 1
      /\ inst'[w].txs = [inst[w].txs EXCEPT ![h] = c]
      /\ inst[w].txs \in [Handles -> Conns \cup {NoConn}]
  BY <1>2 DEF Instances
<1>4. /\ \A v \in Workers \ {w} : guest'[v] = guest[v]
      /\ guest'[w].pc = "select" /\ guest'[w].tx = h /\ guest'[w].cmd = guest[w].cmd
  BY TypedInParts DEF IInv, GuestTyped, Invocations
<1>5. /\ \A d \in Conns \ {c} : conns'[d] = conns[d]
      /\ conns'[c].at = "tx" /\ conns'[c].for = guest[w].cmd
  BY <1>1, TypedInParts DEF IInv, DatabaseTyped, Resting
<1>6. \A v \in Workers : Owns(v) /\ Tidy(v)
  BY OwnedInParts DEF IInv
<1>7. inst[w].txs[h] = NoConn /\ h \in Nat /\ \A g \in Handles : g >= h => inst[w].txs[g] = NoConn
  BY <1>1, <1>6 DEF Tidy, Unused, Handles
<1>8. Listed /\ Apart
  BY OwnedInParts DEF IInv
<1>9. \A v \in Workers : c \notin OpenConns(inst[v]) /\ OpenConns(inst[v]) \subseteq Conns
  <2>1. \A v \in Workers : OpenConns(inst[v]) \subseteq Conns
    BY <1>2 DEF Instances, OpenConns
  <2> QED
    BY <1>1, <1>8, <2>1 DEF Listed
<1>10. /\ OpenConns(inst'[w]) = OpenConns(inst[w]) \cup {c}
       /\ \A v \in Workers \ {w} : OpenConns(inst'[v]) = OpenConns(inst[v])
  BY <1>1, <1>3, <1>7, HostAssumption DEF OpenConns
<1> HIDE DEF h
<1>11. Tidy(w)'
  <2>1. Unused(inst'[w])
    BY <1>1, <1>3, <1>7 DEF Unused, Handles
  <2>2. \A g \in Handles : inst[w].txs[g] # c
    BY <1>9, HostAssumption DEF OpenConns
  <2>3. OneHandle(inst'[w])
    BY <1>1, <1>3, <1>6, <2>2 DEF Tidy, OneHandle
  <2> QED
    BY <1>4, <2>1, <2>3 DEF Tidy
<1>12. Owns(w)'
  <2>1. HostConn(w, Tx(w))' = c /\ c # NoConn
    BY <1>1, <1>3, <1>4, HostAssumption DEF HostConn, Tx
  <2> QED
    BY <1>4, <1>5, <2>1 DEF Owns, Held, Cmd
<1>13. ASSUME NEW v \in Workers \ {w} PROVE Owns(v)' /\ Tidy(v)'
  <2>1. inst'[v] = inst[v] /\ guest'[v] = guest[v]
    BY <1>3, <1>4
  <2>2. \A d \in OpenConns(inst[v]) : conns'[d] = conns[d]
    BY <1>5, <1>9
  <2>3. Owns(v)'
    BY <1>6, <2>1, <2>2, WorkerKeeps
  <2> QED
    BY <1>6, <2>1, <2>3 DEF Tidy
<1>14. Listed'
  BY <1>5, <1>8, <1>10 DEF Listed
<1>15. Apart'
  BY <1>8, <1>9, <1>10 DEF Apart
<1> QED
  BY <1>11, <1>12, <1>13, <1>14, <1>15, OwnedInParts DEF IInv

\* A handle is forgotten and its connection is back in the pool.
LEMMA CloseKeeps ==
    ASSUME IInv, NEW w \in Workers, guest[w].pc # "idle", NEW h, Held(w, h),
           conns' = [conns EXCEPT ![HostConn(w, h)] = Resting],
           Forget(w, h), UNCHANGED pool,
           guest'[w].tx = 0, guest'[w].pc # "idle",
           \A v \in Workers \ {w} : guest'[v] = guest[v]
    PROVE  OInv'
<1> DEFINE c == HostConn(w, h)
<1>1. /\ h \in Handles /\ c = inst[w].txs[h] /\ c \in OpenConns(inst[w]) /\ c \in Conns
      /\ c # NoConn
  BY HeldIsOpen, HeldIsConn, TypedInParts DEF IInv, Held
<1>2. /\ \A v \in Workers \ {w} : inst'[v] = inst[v]
      /\ inst'[w].next = inst[w].next
      /\ inst'[w].txs = [inst[w].txs EXCEPT ![h] = NoConn]
      /\ inst[w].txs \in [Handles -> Conns \cup {NoConn}]
  BY <1>1, TypedInParts DEF Forget, IInv, HostTyped, Instances
<1>3. /\ \A d \in Conns \ {c} : conns'[d] = conns[d]
      /\ conns'[c].at = "pool"
  BY <1>1, RestingTyped, TypedInParts DEF IInv, DatabaseTyped
<1> HIDE DEF c
<1>4. Listed /\ Apart /\ \A v \in Workers : Owns(v) /\ Tidy(v)
  BY OwnedInParts DEF IInv
<1>5. OneHandle(inst[w]) /\ Unused(inst[w])
  BY <1>4 DEF Tidy
<1>6. OpenConns(inst'[w]) = OpenConns(inst[w]) \ {c}
  <2>1. \A g \in Handles \ {h} : inst[w].txs[g] # c
    BY <1>1, <1>5 DEF OneHandle
  <2> QED
    BY <1>1, <1>2, <2>1 DEF OpenConns
<1>7. ASSUME NEW v \in Workers \ {w} PROVE OpenConns(inst'[v]) = OpenConns(inst[v])
                                           /\ c \notin OpenConns(inst[v])
  BY <1>1, <1>2, <1>4 DEF Apart
<1>8. Tidy(w)'
  <2>1. Unused(inst'[w]) /\ OneHandle(inst'[w])
    BY <1>1, <1>2, <1>5 DEF Unused, OneHandle
  <2> QED
    BY <2>1 DEF Tidy
<1>9. ASSUME NEW v \in Workers \ {w} PROVE Owns(v)' /\ Tidy(v)'
  <2>1. inst'[v] = inst[v] /\ guest'[v] = guest[v]
    BY <1>2
  <2>2. OpenConns(inst[v]) \subseteq Conns \ {c}
    BY <1>7, TypedInParts DEF IInv, HostTyped, Instances, OpenConns
  <2>3. Owns(v)'
    BY <1>3, <1>4, <2>1, <2>2, WorkerKeeps
  <2> QED
    BY <1>4, <2>1, <2>3 DEF Tidy
<1>10. Owns(w)'
  BY DEF Owns, Tx
<1>11. Listed'
  BY <1>3, <1>4, <1>6, <1>7 DEF Listed
<1>12. Apart'
  BY <1>4, <1>6, <1>7 DEF Apart
<1> QED
  BY <1>8, <1>9, <1>10, <1>11, <1>12, OwnedInParts DEF IInv

\* An invocation is over, and its instance kept clean or not at all.
LEMMA LeaveKeeps ==
    ASSUME IInv, NEW w \in Workers, NEW kept, Clean(kept),
           DropTx(OpenConns(inst[w])),
           inst' = [inst EXCEPT ![w] = NewInstance],
           guest' = [guest EXCEPT ![w] = Idle],
           pool' = pool \/ pool' = <<kept>> \o pool
    PROVE  OInv'
<1>1. Listed /\ Apart /\ \A v \in Workers : Owns(v) /\ Tidy(v)
  BY OwnedInParts DEF IInv
<1>2. /\ inst'[w] = NewInstance /\ guest'[w] = Idle
      /\ \A v \in Workers \ {w} : inst'[v] = inst[v] /\ guest'[v] = guest[v]
  BY TypedInParts DEF IInv, HostTyped, GuestTyped
<1>3. Clean(NewInstance) /\ OpenConns(NewInstance) = {}
  BY NewInstanceTyped, CleanIsEmpty
<1>4. \A c \in Conns : /\ c \in OpenConns(inst[w]) => conns'[c].at = "rollback"
                       /\ c \notin OpenConns(inst[w]) => conns'[c] = conns[c]
  <2> DEFINE cs == OpenConns(inst[w])
  <2>1. DatabaseTyped /\ DropTx(cs)
    BY TypedInParts DEF IInv
  <2> HIDE DEF cs
  <2>2. \A c \in Conns : /\ c \in cs => conns'[c].at = "rollback"
                         /\ c \notin cs => conns'[c] = conns[c]
    BY <2>1, DropTyped
  <2> QED
    BY <2>2 DEF cs
<1>5. Owns(w)' /\ Tidy(w)'
  BY <1>2, <1>3, CleanIsEmpty DEF Owns, Tidy, Tx, Idle
<1>6. ASSUME NEW v \in Workers \ {w} PROVE Owns(v)' /\ Tidy(v)'
  <2>1. OpenConns(inst[v]) \subseteq Conns \ OpenConns(inst[w])
    <3>1. OpenConns(inst[v]) \subseteq Conns
      BY TypedInParts DEF IInv, HostTyped, Instances, OpenConns
    <3> QED
      BY <1>1, <3>1 DEF Apart
  <2>2. Owns(v)'
    BY <1>1, <1>2, <1>4, <2>1, WorkerKeeps
  <2> QED
    BY <1>1, <1>2, <2>2 DEF Tidy
<1>7. Listed'
  <2> SUFFICES ASSUME NEW c \in Conns
               PROVE  conns'[c].at = "tx" <=> \E v \in Workers : c \in OpenConns(inst'[v])
    BY DEF Listed
  <2>1. CASE c \in OpenConns(inst[w])
    <3>1. \A v \in Workers \ {w} : c \notin OpenConns(inst[v])
      BY <1>1, <2>1 DEF Apart
    <3> QED
      BY <1>2, <1>3, <1>4, <2>1, <3>1
  <2>2. CASE c \notin OpenConns(inst[w])
    BY <1>1, <1>2, <1>3, <1>4, <2>2 DEF Listed
  <2> QED
    BY <2>1, <2>2
<1>8. Apart'
  BY <1>1, <1>2, <1>3 DEF Apart
<1>9. \A i \in 1..Len(pool') : Clean(pool'[i])
  <2>1. pool \in Seq(Instances) /\ \A i \in 1..Len(pool) : Clean(pool[i])
    BY TypedInParts, OwnedInParts DEF IInv, HostTyped
  <2>2. ASSUME pool' = <<kept>> \o pool, NEW i \in 1..Len(pool')
        PROVE  pool'[i] = kept \/ \E j \in 1..Len(pool) : pool'[i] = pool[j]
    <3>1. Len(pool) \in Nat /\ Len(pool') = 1 + Len(pool)
      BY <2>1, <2>2
    <3>2. CASE i = 1
      BY <2>1, <2>2, <3>2
    <3>3. CASE i # 1
      <4>1. i - 1 \in 1..Len(pool) /\ pool'[i] = pool[i - 1]
        BY <2>1, <2>2, <3>1, <3>3
      <4> QED
        BY <4>1
    <3> QED
      BY <3>2, <3>3
  <2> QED
    BY <2>1, <2>2
<1> QED
  BY <1>5, <1>6, <1>7, <1>8, <1>9, OwnedInParts

\* An idle worker takes an instance that has no transactions.
LEMMA TakeKeeps ==
    ASSUME IInv, NEW w \in Workers, guest[w].pc = "idle", UNCHANGED conns,
           NEW top \in Instances, Clean(top), inst' = [inst EXCEPT ![w] = top],
           guest'[w].tx = 0,
           \A v \in Workers \ {w} : guest'[v] = guest[v],
           \A i \in 1..Len(pool') : Clean(pool'[i])
    PROVE  OInv'
<1>1. Listed /\ Apart /\ \A v \in Workers : Owns(v) /\ Tidy(v)
  BY OwnedInParts DEF IInv
<1>2. inst'[w] = top /\ \A v \in Workers \ {w} : inst'[v] = inst[v]
  BY TypedInParts DEF IInv, HostTyped
<1>3. OpenConns(top) = {} /\ OpenConns(inst[w]) = {}
  BY <1>1, CleanIsEmpty DEF Tidy
<1>4. \A v \in Workers : OpenConns(inst'[v]) = OpenConns(inst[v])
  BY <1>2, <1>3
<1>5. Owns(w)' /\ Tidy(w)'
  BY <1>2, CleanIsEmpty DEF Owns, Tidy, Tx
<1>6. ASSUME NEW v \in Workers \ {w} PROVE Owns(v)' /\ Tidy(v)'
  <2>1. Owns(v)'
    BY <1>1, <1>2, WorkerKeeps
  <2> QED
    BY <1>1, <1>2, <2>1 DEF Tidy
<1>7. Listed' /\ Apart'
  BY <1>1, <1>4 DEF Listed, Apart
<1> QED
  BY <1>5, <1>6, <1>7, OwnedInParts

\* A connection that was rolled back returns to the pool.
LEMMA ReleaseKeeps ==
    ASSUME IInv, NEW c \in Conns, conns[c].at # "tx",
           conns' = [conns EXCEPT ![c] = Resting], UNCHANGED <<guest, inst, pool>>
    PROVE  OInv'
<1>1. Listed /\ Apart /\ \A v \in Workers : Owns(v) /\ Tidy(v)
  BY OwnedInParts DEF IInv
<1>2. conns'[c].at = "pool" /\ \A d \in Conns \ {c} : conns'[d] = conns[d]
  BY RestingTyped, TypedInParts DEF IInv, DatabaseTyped
<1>3. ASSUME NEW v \in Workers PROVE Owns(v)' /\ Tidy(v)'
  <2>1. OpenConns(inst[v]) \subseteq Conns \ {c}
    <3>1. OpenConns(inst[v]) \subseteq Conns
      BY TypedInParts DEF IInv, HostTyped, Instances, OpenConns
    <3> QED
      BY <1>1, <3>1 DEF Listed
  <2>2. Owns(v)'
    BY <1>1, <1>2, <2>1, WorkerKeeps
  <2> QED
    BY <1>1, <2>2 DEF Tidy
<1>4. Listed'
  BY <1>1, <1>2 DEF Listed
<1>5. Apart'
  BY <1>1 DEF Apart
<1> QED
  BY <1>3, <1>4, <1>5, OwnedInParts DEF IInv

-----------------------------------------------------------------------------
(* Every action *)

LEMMA TypedFields ==
    ASSUME HostTyped, NEW w \in Workers
    PROVE  /\ inst[w].txs \in [Handles -> Conns \cup {NoConn}]
           /\ inst[w].next \in 1..(MaxTx + 1)
           /\ inst[w].scope \in Scopes
           /\ inst[w].gate \in Gates
BY InstanceFields DEF HostTyped

\* A step of the program that touches no transaction.
LEMMA QuietStep ==
    ASSUME IInv, NEW w \in Workers, Moves(w), UNCHANGED <<settings, database, pool, inst>>,
           checkpoints' \in [Scopes -> Commands \cup {NoCommand}],
           counter' \in Nat, HistoryTyped'
    PROVE  IInv'
<1>1. DatabaseTyped' /\ HostTyped' /\ GuestTyped'
  BY TypedInParts DEF IInv, DatabaseTyped, HostTyped, Moves, database
<1>2. OInv'
  BY MovesKeeps DEF database
<1> QED
  BY <1>1, <1>2, TypedInParts DEF IInv

LEMMA InvokeStep ==
    ASSUME IInv, NEW w \in Workers, NEW cmd \in Commands, Invoke(w, cmd)
    PROVE  IInv'
<1> DEFINE top == IF pool = <<>> THEN NewInstance ELSE Head(pool)
           taken == [top EXCEPT !.scope = ScopeOf[cmd]]
<1>1. DatabaseTyped /\ HostTyped /\ GuestTyped /\ HistoryTyped
  BY TypedInParts DEF IInv
<1>2. /\ inst' = [inst EXCEPT ![w] = taken]
      /\ pool' = IF pool = <<>> THEN pool ELSE Tail(pool)
  BY DEF Invoke, Checkout
<1>3. /\ pool' \in Seq(Instances) /\ Len(pool') <= MaxInstances
      /\ \A i \in 1..Len(pool') : Clean(pool'[i])
  <2>1. \A i \in 1..Len(pool) : Clean(pool[i])
    BY OwnedInParts DEF IInv
  <2>2. CASE pool # <<>>
    <3>1. pool' = Tail(pool)
      BY <1>2, <2>2
    <3>2. /\ Len(pool') = Len(pool) - 1 /\ pool' \in Seq(Instances)
          /\ \A i \in 1..Len(pool') : i + 1 \in 1..Len(pool) /\ pool'[i] = pool[i + 1]
      BY <1>1, <2>2, <3>1 DEF HostTyped
    <3> QED
      BY <1>1, <2>1, <3>2, HostAssumption DEF HostTyped
  <2> QED
    BY <1>1, <1>2, <2>1, <2>2 DEF HostTyped
<1>4. top \in Instances /\ Clean(top)
  <2>1. CASE pool = <<>>
    BY <2>1, NewInstanceTyped
  <2>2. CASE pool # <<>>
    <3>1. Head(pool) = pool[1] /\ 1 \in 1..Len(pool) /\ pool[1] \in Instances
      BY <1>1, <2>2 DEF HostTyped
    <3> QED
      BY <2>2, <3>1, OwnedInParts DEF IInv
  <2> QED
    BY <2>1, <2>2
<1>5. ScopeOf[cmd] \in Scopes
  BY HostAssumption
<1> HIDE DEF top
<1>6. taken \in Instances /\ Clean(taken)
  BY <1>4, <1>5, InstanceFields DEF Clean
<1>7. Entry \in Locations \ {"idle"}
  BY <1>1 DEF Entry, Locations, HistoryTyped, Programs
<1>8. [Idle EXCEPT !.pc = Entry, !.cmd = cmd] \in Invocations
  <2>1. Idle \in Invocations
    BY HostAssumption DEF Idle, Invocations, Locations, Answers
  <2> QED
    BY <1>7, <2>1 DEF Invocations
<1>9. /\ guest' \in [Workers -> Invocations]
      /\ guest'[w] = [Idle EXCEPT !.pc = Entry, !.cmd = cmd]
      /\ \A v \in Workers \ {w} : guest'[v] = guest[v]
  BY <1>1, <1>8 DEF Invoke, GuestTyped
<1>10. guest'[w].tx = 0 /\ guest'[w].cmd = cmd
  BY <1>9 DEF Idle
<1>11. GuestTyped'
  BY <1>1, <1>9, <1>10 DEF GuestTyped
<1>12. DatabaseTyped' /\ UNCHANGED conns
  BY <1>1 DEF Invoke, DatabaseTyped, database
<1> HIDE DEF taken
<1>13. HostTyped'
  BY <1>1, <1>2, <1>3, <1>6 DEF Invoke, HostTyped
<1>14. HistoryTyped'
  BY <1>1, DeliveriesAssumption DEF Invoke, HistoryTyped, settings
<1>15. OInv'
  BY <1>2, <1>3, <1>6, <1>9, <1>10, <1>12, TakeKeeps DEF Invoke, At
<1> QED
  BY <1>11, <1>12, <1>13, <1>14, <1>15, TypedInParts DEF IInv

\* What Return and Trap have in common.
LEMMA LeaveStep ==
    ASSUME IInv, NEW w \in Workers, NEW kept \in Instances, Clean(kept),
           DropTx(OpenConns(inst[w])),
           inst' = [inst EXCEPT ![w] = NewInstance],
           guest' = [guest EXCEPT ![w] = Idle],
           \/ pool' = pool
           \/ pool' = <<kept>> \o pool /\ Len(pool) < MaxInstances,
           UNCHANGED <<checkpoints, counter>>
    PROVE  DatabaseTyped' /\ HostTyped' /\ GuestTyped' /\ OInv'
<1>1. DatabaseTyped /\ HostTyped /\ GuestTyped
  BY TypedInParts DEF IInv
<1>2. DatabaseTyped'
  BY <1>1, DropTyped
<1>3. OInv'
  BY LeaveKeeps
<1>4. pool' \in Seq(Instances) /\ Len(pool') <= MaxInstances
  <2>1. CASE pool' = <<kept>> \o pool /\ Len(pool) < MaxInstances
    <3>1. <<kept>> \in Seq(Instances) /\ Len(<<kept>>) = 1
      OBVIOUS
    <3>2. pool' \in Seq(Instances) /\ Len(pool') = 1 + Len(pool) /\ Len(pool) \in Nat
      BY <1>1, <2>1, <3>1 DEF HostTyped
    <3> QED
      BY <2>1, <3>2, HostAssumption
  <2> QED
    BY <1>1, <2>1 DEF HostTyped
<1>5. inst' \in [Workers -> Instances]
  BY <1>1, NewInstanceTyped DEF HostTyped
<1>6. HostTyped'
  BY <1>1, <1>4, <1>5 DEF HostTyped
<1>7. Idle \in Invocations /\ Idle.pc = "idle"
  BY HostAssumption DEF Idle, Invocations, Locations, Answers
<1>8. GuestTyped'
  BY <1>1, <1>7 DEF GuestTyped
<1> QED
  BY <1>2, <1>3, <1>6, <1>8

LEMMA ReturnStep ==
    ASSUME IInv, NEW w \in Workers, Return(w)
    PROVE  IInv'
<1> DEFINE kept == [NewInstance EXCEPT !.gate = inst[w].gate]
<1>1. HostTyped /\ GuestTyped /\ HistoryTyped
  BY TypedInParts DEF IInv
<1>2. kept \in Instances /\ Clean(kept)
  BY <1>1, NewInstanceTyped, TypedFields, InstanceFields DEF Clean
<1>3. guest[w].cmd \in Commands
  BY <1>1 DEF Return, At, GuestTyped
<1>4. HistoryTyped'
  BY <1>1, <1>3 DEF Return, HistoryTyped, settings, Cmd
<1>5. /\ DropTx(OpenConns(inst[w]))
      /\ inst' = [inst EXCEPT ![w] = NewInstance]
      /\ guest' = [guest EXCEPT ![w] = Idle]
      /\ UNCHANGED <<checkpoints, counter>>
      /\ \/ pool' = pool
         \/ pool' = <<kept>> \o pool /\ Len(pool) < MaxInstances
  BY DEF Return, PutBack
<1> HIDE DEF kept
<1>6. DatabaseTyped' /\ HostTyped' /\ GuestTyped' /\ OInv'
  BY <1>2, <1>5, LeaveStep
<1> QED
  BY <1>4, <1>6, TypedInParts DEF IInv

LEMMA TrapStep ==
    ASSUME IInv, NEW w \in Workers, Trap(w)
    PROVE  IInv'
<1>1. GuestTyped /\ HistoryTyped
  BY TypedInParts DEF IInv
<1>2. guest[w].cmd \in Commands
  BY <1>1 DEF Trap, At, GuestTyped
<1>3. HistoryTyped'
  BY <1>1, <1>2, HostAssumption DEF Trap, HistoryTyped, settings, Cmd
<1>4. DatabaseTyped' /\ HostTyped' /\ GuestTyped' /\ OInv'
  BY NewInstanceTyped, LeaveStep DEF Trap, Discard
<1> QED
  BY <1>3, <1>4, TypedInParts DEF IInv

LEMMA ReleaseStep ==
    ASSUME IInv, NEW c \in Conns, Release(c)
    PROVE  IInv'
<1>1. DatabaseTyped /\ HostTyped /\ GuestTyped /\ HistoryTyped
  BY TypedInParts DEF IInv
<1>2. /\ conns[c].at = "rollback" /\ conns' = [conns EXCEPT ![c] = Resting]
      /\ UNCHANGED <<watermark, row, guest, inst, pool, checkpoints, counter>>
      /\ UNCHANGED <<settings, history>>
  BY DEF Release, FinishRollback, RollbackTx, host
<1>3. DatabaseTyped'
  BY <1>1, <1>2, RestingTyped DEF DatabaseTyped
<1>4. HostTyped' /\ GuestTyped' /\ HistoryTyped'
  BY <1>1, <1>2, HistoryStays DEF HostTyped, GuestTyped
<1>5. OInv'
  BY <1>2, ReleaseKeeps
<1> QED
  BY <1>3, <1>4, <1>5, TypedInParts DEF IInv

LEMMA GateStep ==
    ASSUME IInv, NEW w \in Workers, Gate(w)
    PROVE  IInv'
<1>1. DatabaseTyped /\ HostTyped /\ GuestTyped /\ HistoryTyped
  BY TypedInParts DEF IInv
<1>2. PICK verdict \in BOOLEAN : IF verdict THEN Goto(w, "begin") ELSE Finish(w, "discarded")
  BY DEF Gate, CausalGate, DedupGate
<1>3. guest[w].pc # "idle"
  BY DEF Gate, At
<1>4. guest[w].cmd \in Commands
  BY <1>1, <1>3 DEF GuestTyped
<1>5. Moves(w)
  BY <1>1, <1>2, <1>3, GotoMoves, FinishMoves DEF Locations, Answers
<1>6. PICK g \in Gates : inst' = [inst EXCEPT ![w].gate = g]
  <2>1. inst[w].gate \in Gates
    BY <1>1, TypedFields
  <2>2. /\ StampOf[guest[w].cmd] \in Stamps /\ guest[w].cmd \in Keys
        /\ EntityOf[guest[w].cmd] \in Keys
    BY <1>4, DatabaseAssumption DEF Keys
  <2>3. CASE CausalGate(w)
    <3>1. Advance(language, inst[w].gate, Capacity, EntityOf[guest[w].cmd],
                  StampOf[guest[w].cmd]) \in Gates
      BY <2>1, <2>2, RememberTyped DEF Advance
    <3> QED
      BY <2>3, <3>1 DEF CausalGate, Cmd
  <2>4. CASE DedupGate(w)
    <3>1. CheckAndUpdate(language, inst[w].gate, Capacity, guest[w].cmd,
                         StampOf[guest[w].cmd]) \in Gates
      BY <2>1, <2>2, RememberTyped DEF CheckAndUpdate
    <3> QED
      BY <2>4, <3>1 DEF DedupGate, Cmd
  <2> QED
    BY <2>3, <2>4 DEF Gate
<1>7. inst' \in [Workers -> Instances]
  BY <1>1, <1>6, InstanceFields DEF HostTyped
<1>8. \A v \in Workers : inst'[v].txs = inst[v].txs /\ inst'[v].next = inst[v].next
  BY <1>1, <1>6, InstanceFields DEF HostTyped
<1>9. /\ UNCHANGED <<conns, watermark, row, pool, checkpoints, counter>>
      /\ UNCHANGED <<settings, history>>
  BY DEF Gate, database
<1>10. OInv'
  BY <1>5, <1>8, <1>9, MovesKeeps
<1>11. DatabaseTyped' /\ HostTyped' /\ GuestTyped' /\ HistoryTyped'
  BY <1>1, <1>5, <1>7, <1>9, HistoryStays DEF DatabaseTyped, HostTyped, Moves
<1> QED
  BY <1>10, <1>11, TypedInParts DEF IInv

\* A statement, that succeeds or fails.
LEMMA StatementStep ==
    ASSUME IInv, NEW w \in Workers, Moves(w),
           \/ UNCHANGED database
           \/ /\ Held(w, Tx(w))
              /\ LET c == HostConn(w, Tx(w))
                 IN  UpsertWatermark(c) \/ WriteRow(c) \/ Refuse(c) \/ Abort(c),
           UNCHANGED <<settings, inst, pool, checkpoints, counter, history>>
    PROVE  IInv'
<1>1. DatabaseTyped /\ HostTyped /\ GuestTyped /\ HistoryTyped
  BY TypedInParts DEF IInv
<1>2. /\ DatabaseTyped'
      /\ \A d \in Conns : conns'[d].at = conns[d].at /\ conns'[d].for = conns[d].for
  <2>1. CASE UNCHANGED database
    BY <1>1, <2>1 DEF DatabaseTyped, database
  <2>2. CASE ~UNCHANGED database
    <3>1. HostConn(w, Tx(w)) \in Conns
      BY <1>1, <2>2, HeldIsConn
    <3> QED
      BY <1>1, <2>2, <3>1, StatementTyped
  <2> QED
    BY <2>1, <2>2
<1>3. OInv'
  BY <1>2, MovesKeeps
<1>4. HostTyped' /\ GuestTyped' /\ HistoryTyped'
  BY <1>1, HistoryStays DEF HostTyped, Moves
<1> QED
  BY <1>2, <1>3, <1>4, TypedInParts DEF IInv

LEMMA BeginTxStep ==
    ASSUME IInv, NEW w \in Workers, BeginTx(w)
    PROVE  IInv'
<1>1. DatabaseTyped /\ HostTyped /\ GuestTyped /\ HistoryTyped
  BY TypedInParts DEF IInv
<1>2. guest[w].pc # "idle"
  BY DEF BeginTx, At
<1>3. ASSUME TxBegun(w) PROVE IInv'
  <2>1. PICK c \in Conns :
          /\ HostBegin(w, c, guest[w].cmd)
          /\ guest' = [guest EXCEPT ![w].pc = "select", ![w].tx = inst[w].next]
    BY <1>3 DEF TxBegun, Cmd
  <2>2. UNCHANGED <<settings, pool, checkpoints, counter, history>>
    BY DEF BeginTx
  <2>3. guest[w].cmd \in Commands
    BY <1>1, <1>2 DEF GuestTyped
  <2>4. DatabaseTyped'
    BY <1>1, <2>1, <2>3, ConnectTyped DEF HostBegin
  <2>5. inst' \in [Workers -> Instances]
    <3>1. /\ inst[w].next \in Handles
          /\ inst' = [inst EXCEPT ![w].txs[inst[w].next] = c, ![w].next = @ + 1]
      BY <2>1 DEF HostBegin
    <3>2. inst[w].next + 1 \in 1..(MaxTx + 1)
      BY <3>1, HostAssumption DEF Handles
    <3>3. [inst[w].txs EXCEPT ![inst[w].next] = c] \in [Handles -> Conns \cup {NoConn}]
      BY <1>1, TypedFields
    <3>4. PICK x \in Instances : inst' = [inst EXCEPT ![w] = x]
      <4> DEFINE x == [inst[w] EXCEPT !.txs = [inst[w].txs EXCEPT ![inst[w].next] = c],
                                      !.next = inst[w].next + 1]
      <4>1. x \in Instances
        BY <1>1, <3>2, <3>3 DEF HostTyped, Instances
      <4>2. inst' = [inst EXCEPT ![w] = x]
        BY <1>1, <3>1 DEF HostTyped, Instances
      <4> QED
        BY <4>1, <4>2
    <3> QED
      BY <1>1, <3>4 DEF HostTyped
  <2>6. GuestTyped'
    <3>1. inst[w].next \in 0..MaxTx
      BY <2>1, HostAssumption DEF HostBegin, Handles
    <3> DEFINE x == [guest[w] EXCEPT !.pc = "select", !.tx = inst[w].next]
    <3>2. x \in Invocations /\ x.cmd = guest[w].cmd
      BY <1>1, <3>1 DEF GuestTyped, Invocations, Locations
    <3>3. guest' = [guest EXCEPT ![w] = x]
      BY <2>1
    <3> HIDE DEF x
    <3> QED
      BY <1>1, <2>3, <3>2, <3>3 DEF GuestTyped
  <2>7. HostTyped' /\ HistoryTyped'
    BY <1>1, <2>2, <2>5, HistoryStays DEF HostTyped
  <2>8. OInv'
    BY <1>2, <2>1, <2>2, BeginKeeps
  <2> QED
    BY <2>4, <2>6, <2>7, <2>8, TypedInParts DEF IInv
<1>4. ASSUME ConnectFails, Raise(w), UNCHANGED inst PROVE IInv'
  <2>1. Moves(w)
    BY <1>1, <1>2, <1>4, RaiseMoves
  <2> QED
    BY <1>4, <2>1, StatementStep DEF BeginTx, ConnectFails
<1> QED
  BY <1>3, <1>4 DEF BeginTx

LEMMA FailedStep ==
    ASSUME IInv, NEW w \in Workers, guest[w].pc # "idle", StatementFails(w),
           UNCHANGED <<settings, pool, checkpoints, counter, history>>
    PROVE  IInv'
<1>1. Moves(w)
  BY RaiseMoves, TypedInParts DEF IInv, StatementFails
<1> QED
  BY <1>1, StatementStep DEF StatementFails, HostStatementFails

LEMMA SelectStep ==
    ASSUME IInv, NEW w \in Workers, SelectWatermark(w)
    PROVE  IInv'
<1>1. GuestTyped /\ guest[w].pc # "idle"
  BY TypedInParts DEF IInv, SelectWatermark, At
<1>2. CASE HostQuery(w, Tx(w)) /\ (Goto(w, "upsert") \/ Finish(w, "ignored"))
  <2>1. Moves(w)
    BY <1>1, <1>2, GotoMoves, FinishMoves DEF Locations, Answers
  <2> QED
    BY <1>2, <2>1, StatementStep DEF SelectWatermark, HostQuery
<1>3. CASE StatementFails(w)
  BY <1>1, <1>3, FailedStep DEF SelectWatermark
<1> QED
  BY <1>2, <1>3 DEF SelectWatermark

LEMMA UpsertStep ==
    ASSUME IInv, NEW w \in Workers, UpsertFresh(w)
    PROVE  IInv'
<1>1. GuestTyped /\ guest[w].pc # "idle"
  BY TypedInParts DEF IInv, UpsertFresh, At
<1>2. CASE HostUpsert(w, Tx(w)) /\ Goto(w, "apply")
  <2>1. Moves(w)
    BY <1>1, <1>2, GotoMoves DEF Locations
  <2> QED
    BY <1>2, <2>1, StatementStep DEF UpsertFresh, HostUpsert
<1>3. CASE StatementFails(w)
  BY <1>1, <1>3, FailedStep DEF UpsertFresh
<1> QED
  BY <1>2, <1>3 DEF UpsertFresh

LEMMA FailUpsertStep ==
    ASSUME IInv, NEW w \in Workers, FailUpsert(w)
    PROVE  IInv'
<1>1. GuestTyped /\ guest[w].pc # "idle"
  BY TypedInParts DEF IInv, FailUpsert, At
<1> QED
  BY <1>1, FailedStep DEF FailUpsert

LEMMA ApplyStep ==
    ASSUME IInv, NEW w \in Workers, Apply(w)
    PROVE  IInv'
<1>1. GuestTyped /\ guest[w].pc # "idle"
  BY TypedInParts DEF IInv, Apply, At
<1>2. CASE HostWrite(w, Tx(w)) /\ Goto(w, "commit")
  <2>1. Moves(w)
    BY <1>1, <1>2, GotoMoves DEF Locations
  <2> QED
    BY <1>2, <2>1, StatementStep DEF Apply, HostWrite
<1>3. CASE StatementFails(w)
  BY <1>1, <1>3, FailedStep DEF Apply
<1> QED
  BY <1>2, <1>3 DEF Apply

\* COMMIT or ROLLBACK, after which the handle is forgotten.
LEMMA CloseStep ==
    ASSUME IInv, NEW w \in Workers, guest[w].pc # "idle", Held(w, Tx(w)),
           CommitTx(HostConn(w, Tx(w))) \/ RollbackTx(HostConn(w, Tx(w))),
           Forget(w, Tx(w)),
           NEW x \in Invocations, guest' = [guest EXCEPT ![w] = x],
           x.cmd = guest[w].cmd, x.tx = 0, x.pc # "idle",
           UNCHANGED <<settings, pool, checkpoints, counter, history>>
    PROVE  IInv'
<1> DEFINE h == Tx(w)
           c == HostConn(w, h)
<1>1. DatabaseTyped /\ HostTyped /\ GuestTyped /\ HistoryTyped
  BY TypedInParts DEF IInv
<1>2. c \in Conns /\ conns[c].at = "tx" /\ h \in Handles
  BY <1>1, HeldIsOpen, HeldIsConn DEF IInv
<1>3. DatabaseTyped' /\ conns' = [conns EXCEPT ![c] = Resting]
  BY <1>1, <1>2, CommitTyped
<1>4. inst' \in [Workers -> Instances]
  <2> DEFINE y == [inst[w] EXCEPT !.txs = [inst[w].txs EXCEPT ![h] = NoConn]]
  <2>1. y \in Instances
    BY <1>1, <1>2 DEF HostTyped, Instances
  <2>2. inst' = [inst EXCEPT ![w] = y]
    BY <1>1 DEF Forget, HostTyped, Instances
  <2> HIDE DEF y
  <2> QED
    BY <1>1, <2>1, <2>2 DEF HostTyped
<1>5. HostTyped' /\ HistoryTyped'
  BY <1>1, <1>4, HistoryStays DEF HostTyped
<1>6. /\ guest'[w] = x /\ \A v \in Workers \ {w} : guest'[v] = guest[v]
      /\ guest' \in [Workers -> Invocations]
  BY <1>1 DEF GuestTyped
<1>7. GuestTyped'
  BY <1>1, <1>6 DEF GuestTyped
<1>8. OInv'
  BY <1>3, <1>6, CloseKeeps
<1> QED
  BY <1>3, <1>5, <1>7, <1>8, TypedInParts DEF IInv

LEMMA CommitStep ==
    ASSUME IInv, NEW w \in Workers, Commit(w)
    PROVE  IInv'
<1>1. GuestTyped /\ guest[w].pc # "idle"
  BY TypedInParts DEF IInv, Commit, At
<1>2. /\ Held(w, Tx(w)) /\ Forget(w, Tx(w))
      /\ CommitTx(HostConn(w, Tx(w))) \/ RollbackTx(HostConn(w, Tx(w)))
  BY DEF Commit, HostCommit, HostCommitLost
<1>3. PICK error \in BOOLEAN :
        guest' = [guest EXCEPT ![w].tx = 0, ![w].answer = CommitAnswer(error),
                     ![w].pc = IF error /\ language = "typescript" THEN "throw"
                               ELSE "return"]
  BY DEF Commit
<1> DEFINE pc == IF error /\ language = "typescript" THEN "throw" ELSE "return"
           x == [guest[w] EXCEPT !.tx = 0, !.answer = CommitAnswer(error), !.pc = pc]
<1>4. pc \in Locations /\ pc # "idle" /\ CommitAnswer(error) \in Answers
  BY DEF Locations, Answers, CommitAnswer
<1>5. guest' = [guest EXCEPT ![w] = x]
  BY <1>3
<1> HIDE DEF pc
<1>6. x \in Invocations /\ x.cmd = guest[w].cmd /\ x.tx = 0 /\ x.pc # "idle"
  <2>1. 0 \in 0..MaxTx
    BY HostAssumption
  <2>2. guest[w] \in Invocations
    BY <1>1 DEF GuestTyped
  <2> QED
    BY <1>4, <2>1, <2>2 DEF Invocations
<1> HIDE DEF x
<1> QED
  BY <1>1, <1>2, <1>5, <1>6, CloseStep DEF Commit

LEMMA DropTransactionStep ==
    ASSUME IInv, NEW w \in Workers, DropTransaction(w)
    PROVE  IInv'
<1>1. GuestTyped /\ guest[w].pc # "idle"
  BY TypedInParts DEF IInv, DropTransaction, At
<1>2. Held(w, Tx(w)) /\ Forget(w, Tx(w)) /\ RollbackTx(HostConn(w, Tx(w)))
  BY DEF DropTransaction, HostRollback
<1>3. PICK pc \in {"return", "begin"} : guest' = [guest EXCEPT ![w].tx = 0, ![w].pc = pc]
  BY DEF DropTransaction
<1> DEFINE x == [guest[w] EXCEPT !.tx = 0, !.pc = pc]
<1>4. x \in Invocations /\ x.cmd = guest[w].cmd /\ x.tx = 0 /\ x.pc # "idle"
  <2>1. 0 \in 0..MaxTx
    BY HostAssumption
  <2>2. guest[w] \in Invocations /\ pc \in Locations \ {"idle"}
    BY <1>1 DEF GuestTyped, Locations
  <2> QED
    BY <2>1, <2>2 DEF Invocations
<1>5. guest' = [guest EXCEPT ![w] = x]
  BY <1>3
<1> HIDE DEF x
<1> QED
  BY <1>1, <1>2, <1>4, <1>5, CloseStep DEF DropTransaction

LEMMA LeaveOpenStep ==
    ASSUME IInv, NEW w \in Workers, LeaveOpen(w)
    PROVE  IInv'
<1>1. GuestTyped /\ HistoryTyped /\ HostTyped /\ guest[w].pc # "idle"
  BY TypedInParts DEF IInv, LeaveOpen, At
<1>2. Moves(w)
  BY <1>1, FinishMoves DEF LeaveOpen, Answers
<1>3. /\ UNCHANGED <<settings, database, pool, inst, checkpoints, counter>>
      /\ HistoryTyped'
  BY <1>1, HistoryStays DEF LeaveOpen, host
<1> QED
  BY <1>1, <1>2, <1>3, QuietStep DEF HostTyped

-----------------------------------------------------------------------------
(* Checkpoints and counters *)

LEMMA LookupStep ==
    ASSUME IInv, NEW w \in Workers, Lookup(w)
    PROVE  IInv'
<1>1. GuestTyped /\ HistoryTyped /\ HostTyped /\ guest[w].pc # "idle"
  BY TypedInParts DEF IInv, Lookup, At
<1>2. guest[w].cmd \in Commands /\ CheckpointHit(w) \in Commands \cup {NoCommand}
  BY <1>1, TypedFields DEF GuestTyped, HostTyped, CheckpointHit
<1>3. Moves(w)
  BY <1>1, <1>2, GotoMoves, ReturnsMoves DEF Lookup, StepKnown, Locations
<1>4. HistoryTyped'
  BY <1>1, <1>2, HostAssumption DEF Lookup, HistoryTyped, settings, Cmd
<1>5. UNCHANGED <<settings, database, pool, inst, checkpoints, counter>>
  BY DEF Lookup, host
<1> QED
  BY <1>1, <1>3, <1>4, <1>5, QuietStep DEF HostTyped

LEMMA ActStep ==
    ASSUME IInv, NEW w \in Workers, Act(w)
    PROVE  IInv'
<1>1. GuestTyped /\ HistoryTyped /\ HostTyped /\ guest[w].pc # "idle"
  BY TypedInParts DEF IInv, Act, At
<1>2. Moves(w)
  BY <1>1, GotoMoves, RaiseMoves DEF Act, Locations
<1>3. effects' \in [Commands -> 0..2]
  BY <1>1 DEF Act, HistoryTyped
<1>4. HistoryTyped'
  BY <1>1, <1>3 DEF Act, HistoryTyped, settings
<1>5. UNCHANGED <<settings, database, pool, inst, checkpoints, counter>>
  BY DEF Act, host
<1> QED
  BY <1>1, <1>2, <1>4, <1>5, QuietStep DEF HostTyped

LEMMA SaveStep ==
    ASSUME IInv, NEW w \in Workers, Save(w)
    PROVE  IInv'
<1>1. GuestTyped /\ HistoryTyped /\ HostTyped /\ guest[w].pc # "idle"
  BY TypedInParts DEF IInv, Save, At
<1>2. guest[w].cmd \in Commands
  BY <1>1 DEF GuestTyped
<1>3. Moves(w)
  BY <1>1, <1>2, ReturnsMoves DEF Save, Cmd
<1>4. checkpoints' \in [Scopes -> Commands \cup {NoCommand}]
  BY <1>1, <1>2 DEF Save, CheckpointSave, HostTyped, Cmd
<1>5. HistoryTyped'
  BY <1>1, <1>2, HostAssumption DEF Save, HistoryTyped, settings, Cmd
<1>6. UNCHANGED <<settings, database, pool, inst, counter>>
  BY DEF Save
<1> QED
  BY <1>1, <1>3, <1>4, <1>5, <1>6, QuietStep DEF HostTyped

LEMMA ExpireStep ==
    ASSUME IInv, NEW s \in Scopes, ExpireCheckpoint(s)
    PROVE  IInv'
<1>1. DatabaseTyped /\ HostTyped /\ GuestTyped /\ HistoryTyped
  BY TypedInParts DEF IInv
<1>2. checkpoints[s] \in Commands
  BY <1>1 DEF HostTyped, ExpireCheckpoint, Expire
<1>3. HistoryTyped'
  BY <1>1, <1>2 DEF ExpireCheckpoint, HistoryTyped, settings
<1>4. checkpoints' \in [Scopes -> Commands \cup {NoCommand}]
  BY <1>1 DEF HostTyped, ExpireCheckpoint, Expire
<1>5. DatabaseTyped' /\ HostTyped' /\ GuestTyped'
  BY <1>1, <1>4 DEF ExpireCheckpoint, DatabaseTyped, HostTyped, GuestTyped, database
<1>6. OInv'
  BY OwnedStays DEF ExpireCheckpoint, database, IInv
<1> QED
  BY <1>3, <1>5, <1>6, TypedInParts DEF IInv

LEMMA IncrStep ==
    ASSUME IInv, NEW w \in Workers, Incr(w)
    PROVE  IInv'
<1>1. GuestTyped /\ HistoryTyped /\ HostTyped /\ guest[w].pc # "idle"
  BY TypedInParts DEF IInv, Incr, At
<1>2. counter \in Nat
  BY <1>1 DEF HostTyped
<1>3. Moves(w) /\ counter' \in Nat
  <2>1. CASE IncrAtomically /\ Finish(w, "ack")
    BY <1>1, <1>2, <2>1, FinishMoves DEF IncrAtomically, Answers
  <2>2. CASE Raise(w) /\ IncrFails
    BY <1>1, <1>2, <2>2, RaiseMoves DEF IncrFails, IncrAtomically
  <2>3. CASE /\ guest' = [guest EXCEPT ![w].read = counter, ![w].pc = "store"]
             /\ UNCHANGED <<counter, counted>>
    <3> DEFINE x == [guest[w] EXCEPT !.read = counter, !.pc = "store"]
    <3>1. /\ x \in Invocations /\ x.pc # "idle"
          /\ x.cmd = guest[w].cmd /\ x.tx = guest[w].tx
      BY <1>1, <1>2 DEF GuestTyped, Invocations, Locations
    <3>2. guest' = [guest EXCEPT ![w] = x]
      BY <2>3
    <3> HIDE DEF x
    <3> QED
      BY <1>1, <1>2, <2>3, <3>1, <3>2 DEF GuestTyped, Moves
  <2> QED
    BY <2>1, <2>2, <2>3 DEF Incr
<1>4. HistoryTyped'
  <2>1. counted' \in {counted, counted + 1} /\ unsure' \in {unsure, unsure + 1}
    BY DEF Incr
  <2> QED
    BY <1>1, <2>1 DEF Incr, HistoryTyped, settings
<1>5. UNCHANGED <<settings, database, pool, inst, checkpoints>>
  BY DEF Incr
<1> QED
  BY <1>1, <1>3, <1>4, <1>5, QuietStep DEF HostTyped

LEMMA StoreIncrStep ==
    ASSUME IInv, NEW w \in Workers, StoreIncr(w)
    PROVE  IInv'
<1>1. GuestTyped /\ HistoryTyped /\ HostTyped /\ guest[w].pc # "idle"
  BY TypedInParts DEF IInv, StoreIncr, At
<1>2. counter \in Nat /\ guest[w].read \in Nat
  BY <1>1 DEF HostTyped, GuestTyped, Invocations
<1>3. Moves(w) /\ counter' \in Nat /\ (counted' = counted + 1 \/ counted' = counted)
  BY <1>1, <1>2, FinishMoves, RaiseMoves DEF StoreIncr, IncrWrite, Answers
<1>4. HistoryTyped'
  BY <1>1, <1>3 DEF StoreIncr, HistoryTyped, settings
<1>5. UNCHANGED <<settings, database, pool, inst, checkpoints>>
  BY DEF StoreIncr
<1> QED
  BY <1>1, <1>3, <1>4, <1>5, QuietStep DEF HostTyped

-----------------------------------------------------------------------------
(* Theorems *)

LEMMA Inductive == Spec => []IInv
<1>1. Init => IInv
  BY InitTyped, InitOwned DEF IInv
<1>2. IInv /\ [Next]_vars => IInv'
  <2> SUFFICES ASSUME IInv, [Next]_vars PROVE IInv'
    OBVIOUS
  <2>1. ASSUME NEW w \in Workers,
                Work(w) \/ FailUpsert(w) \/ Trap(w) \/ LeaveOpen(w)
         PROVE  IInv'
    BY <2>1, ReturnStep, GateStep, BeginTxStep, SelectStep, UpsertStep, ApplyStep,
       FailUpsertStep, CommitStep, DropTransactionStep, LookupStep, ActStep, SaveStep, IncrStep,
       StoreIncrStep, TrapStep, LeaveOpenStep DEF Work
  <2>2. CASE UNCHANGED vars
    <3>1. DatabaseTyped' /\ HostTyped' /\ GuestTyped' /\ HistoryTyped'
      BY <2>2, TypedInParts, HistoryStays
      DEF vars, database, host, IInv, DatabaseTyped, HostTyped, GuestTyped
    <3>2. OInv'
      BY <2>2, OwnedStays DEF vars, database, host, IInv
    <3> QED
      BY <3>1, <3>2, TypedInParts DEF IInv
  <2> QED
    BY <2>1, <2>2, InvokeStep, ReleaseStep, ExpireStep DEF Next
<1> QED
  BY <1>1, <1>2, PTL DEF Spec

\* The variables of a chassis that runs cells keep their types: no queue of a
\* gate holds a foreign key, no handle leads outside the connection pool, and
\* the pool of instances never exceeds max_instances.
THEOREM GuestsTyped == Spec => []TypeOK
<1>1. IInv => TypeOK
  BY DEF IInv, TInv
<1> QED
  BY <1>1, Inductive, PTL

\* No database connection leaks from an invocation, through a trap, an early
\* return, a failed commit or the pool of instances, and none is reached by
\* two guests, however many workers, connections and commands there are.
THEOREM ConnectionsOwned == Spec => []HandlesAreOwn
<1>1. IInv => HandlesAreOwn
  BY DEF IInv, OInv
<1> QED
  BY <1>1, Inductive, PTL

-----------------------------------------------------------------------------
(* Invocations in turns.  What one has read or looked up is still so when it *)
(* writes, because no other worker is there to change it.                    *)

Turns ==
    ~overlap => \A v, w \in Workers : ~At(v, "idle") /\ ~At(w, "idle") => v = w

\* A new instance has another command's id, or none, until Invoke sets it.
Scoped == \A w \in Workers : ~At(w, "idle") => inst[w].scope = ScopeOf[Cmd(w)]

Exact ==
    /\ counter <= counted + unsure
    /\ backend = "redis" \/ ~overlap => counted <= counter
    /\ \A w \in Workers :
          At(w, "store") => /\ backend = "kevy"
                            /\ guest[w].read <= counted + unsure
                            /\ ~overlap => guest[w].read = counter

\* An effect that ran is remembered, or about to be, unless it was lost; and
\* an effect runs only where nothing is remembered.
Remembered ==
    ~overlap =>
        /\ \A cmd \in Commands : ScopeOf[cmd] \notin lost =>
              /\ effects[cmd] <= 1
              /\ effects[cmd] # 0 =>
                    \/ checkpoints[ScopeOf[cmd]] # NoCommand
                    \/ \E w \in Workers : At(w, "save") /\ Cmd(w) = cmd
        /\ \A w \in Workers : At(w, "act") =>
              \/ checkpoints[ScopeOf[Cmd(w)]] = NoCommand
              \/ ScopeOf[Cmd(w)] \in lost

TurnInv == TypeOK /\ Turns /\ Scoped /\ Exact /\ Remembered

\* A worker goes on to, or leaves, a point where none of this is at stake.
Aside(v) ==
    \/ /\ guest'[v] = guest[v]
       /\ inst'[v].scope = inst[v].scope
    \/ guest'[v].pc = "idle" /\ guest[v].pc # "save"
    \/ /\ guest[v].pc \notin {"idle", "save"}
       /\ guest'[v].pc \notin {"idle", "store", "act", "save"}
       /\ guest'[v].cmd = guest[v].cmd /\ inst'[v].scope = inst[v].scope

LEMMA AsideKeeps ==
    ASSUME TurnInv, TypeOK', \A v \in Workers : Aside(v),
           UNCHANGED <<settings, checkpoints, counter, effects, lost, counted, unsure>>
    PROVE  TurnInv'
<1> USE DEF settings
<1>1. Turns'
  BY DEF TurnInv, Turns, Aside, At
<1>2. Scoped'
  BY DEF TurnInv, Scoped, Aside, At, Cmd
<1>3. Exact'
  BY DEF TurnInv, Exact, Aside, At
<1>4. Remembered'
  <2> SUFFICES ASSUME ~overlap PROVE Remembered'
    BY DEF Remembered
  <2>1. \A w \in Workers : At(w, "act")' => At(w, "act") /\ Cmd(w)' = Cmd(w)
    BY DEF Aside, At, Cmd
  <2>2. \A w \in Workers : At(w, "save") => At(w, "save")' /\ Cmd(w)' = Cmd(w)
    BY DEF Aside, At, Cmd
  <2>3. ASSUME NEW cmd \in Commands, ScopeOf[cmd] \notin lost
        PROVE  /\ effects[cmd] <= 1
               /\ effects[cmd] # 0 => \/ checkpoints[ScopeOf[cmd]] # NoCommand
                                      \/ \E w \in Workers : At(w, "save") /\ Cmd(w) = cmd
    BY <2>3 DEF TurnInv, Remembered
  <2>4. \A w \in Workers : At(w, "act") => \/ checkpoints[ScopeOf[Cmd(w)]] = NoCommand
                                           \/ ScopeOf[Cmd(w)] \in lost
    BY DEF TurnInv, Remembered
  <2> QED
    BY <2>1, <2>2, <2>3, <2>4 DEF Remembered
<1> QED
  BY <1>1, <1>2, <1>3, <1>4 DEF TurnInv

\* The steps of a program other than the four that are at stake.
LEMMA GotoAside ==
    ASSUME TypeOK, NEW w \in Workers, guest[w].pc \notin {"idle", "save"},
           NEW pc \in Locations \ {"idle", "store", "act", "save"}, Goto(w, pc),
           UNCHANGED inst
    PROVE  \A v \in Workers : Aside(v)
BY DEF TypeOK, Goto, Aside, Invocations

LEMMA FinishAside ==
    ASSUME TypeOK, NEW w \in Workers, guest[w].pc \notin {"idle", "save"},
           NEW answer, Finish(w, answer),
           \A v \in Workers : inst'[v].scope = inst[v].scope
    PROVE  \A v \in Workers : Aside(v)
BY DEF TypeOK, Finish, Aside, Invocations

LEMMA RaiseAside ==
    ASSUME TypeOK, NEW w \in Workers, guest[w].pc \notin {"idle", "save"}, Raise(w),
           UNCHANGED inst
    PROVE  \A v \in Workers : Aside(v)
BY GotoAside, FinishAside DEF Raise, Err, Throw, Locations

LEMMA OthersAside ==
    ASSUME TypeOK, NEW w \in Workers, guest[w].pc \notin {"idle", "save"}, NEW x,
           guest' = [guest EXCEPT ![w] = x], x.cmd = guest[w].cmd,
           x.pc \notin {"idle", "store", "act", "save"},
           \A v \in Workers : inst'[v].scope = inst[v].scope
    PROVE  \A v \in Workers : Aside(v)
BY DEF TypeOK, Aside

LEMMA InitTurns == Init => TurnInv
<1> SUFFICES ASSUME Init PROVE TurnInv
  OBVIOUS
<1>1. TypeOK
  BY InitTyped DEF TInv
<1>2. \A w \in Workers : guest[w].pc = "idle"
  BY DEF Init, Idle
<1>3. counter = 0 /\ counted = 0 /\ unsure = 0
  BY DEF Init, HostInit
<1>4. \A cmd \in Commands : effects[cmd] = 0
  BY DEF Init
<1> QED
  BY <1>1, <1>2, <1>3, <1>4 DEF TurnInv, Turns, Scoped, Exact, Remembered, At

LEMMA OrdersAside ==
    ASSUME TypeOK, NEW w \in Workers,
           \/ Gate(w) \/ BeginTx(w) \/ SelectWatermark(w) \/ UpsertFresh(w)
           \/ FailUpsert(w) \/ Apply(w)
           \/ Commit(w) \/ DropTransaction(w) \/ LeaveOpen(w)
    PROVE  \A v \in Workers : Aside(v)
<1>1. inst \in [Workers -> Instances]
  BY DEF TypeOK
<1>2. CASE Gate(w)
  <2>1. guest[w].pc \notin {"idle", "save"}
    BY <1>2 DEF Gate, At
  <2>2. PICK g : inst' = [inst EXCEPT ![w].gate = g]
    BY <1>2 DEF Gate, CausalGate, DedupGate
  <2>3. \A v \in Workers : inst'[v].scope = inst[v].scope
    BY <1>1, <2>2 DEF Instances
  <2>4. CASE Goto(w, "begin")
    <3> DEFINE x == [guest[w] EXCEPT !.pc = "begin"]
    <3>1. x.cmd = guest[w].cmd /\ x.pc = "begin"
      BY DEF TypeOK, Invocations
    <3>2. guest' = [guest EXCEPT ![w] = x]
      BY <2>4 DEF Goto
    <3> HIDE DEF x
    <3> QED
      BY <2>1, <2>3, <3>1, <3>2, OthersAside
  <2>5. CASE Finish(w, "discarded")
    BY <2>1, <2>3, <2>5, FinishAside
  <2> QED
    BY <1>2, <2>4, <2>5 DEF Gate, CausalGate, DedupGate
<1>3. CASE BeginTx(w)
  <2>1. guest[w].pc \notin {"idle", "save"}
    BY <1>3 DEF BeginTx, At
  <2>2. ASSUME TxBegun(w) PROVE \A v \in Workers : Aside(v)
    <3>1. PICK c \in Conns :
            /\ inst' = [inst EXCEPT ![w].txs[inst[w].next] = c, ![w].next = @ + 1]
            /\ guest' = [guest EXCEPT ![w].pc = "select", ![w].tx = inst[w].next]
      BY <2>2 DEF TxBegun, HostBegin
    <3>2. \A v \in Workers : inst'[v].scope = inst[v].scope
      BY <1>1, <3>1 DEF Instances
    <3> DEFINE x == [guest[w] EXCEPT !.pc = "select", !.tx = inst[w].next]
    <3>3. x.cmd = guest[w].cmd /\ x.pc = "select"
      BY DEF TypeOK, Invocations
    <3>4. guest' = [guest EXCEPT ![w] = x]
      BY <3>1
    <3> HIDE DEF x
    <3> QED
      BY <2>1, <3>2, <3>3, <3>4, OthersAside
  <2> QED
    BY <1>3, <2>1, <2>2, RaiseAside DEF BeginTx
<1>4. ASSUME StatementFails(w), guest[w].pc \notin {"idle", "save"}
      PROVE  \A v \in Workers : Aside(v)
  BY <1>4, RaiseAside DEF StatementFails, HostStatementFails
<1>5. CASE SelectWatermark(w)
  <2>1. guest[w].pc \notin {"idle", "save"}
    BY <1>5 DEF SelectWatermark, At
  <2> QED
    BY <1>4, <1>5, <2>1, GotoAside, FinishAside DEF SelectWatermark, Locations
<1>6. CASE UpsertFresh(w)
  <2>1. guest[w].pc \notin {"idle", "save"}
    BY <1>6 DEF UpsertFresh, At
  <2> QED
    BY <1>4, <1>6, <2>1, GotoAside DEF UpsertFresh, HostUpsert, Locations
<1>12. CASE FailUpsert(w)
  BY <1>4, <1>12 DEF FailUpsert, At
<1>7. CASE Apply(w)
  <2>1. guest[w].pc \notin {"idle", "save"}
    BY <1>7 DEF Apply, At
  <2> QED
    BY <1>4, <1>7, <2>1, GotoAside DEF Apply, HostWrite, Locations
<1>8. ASSUME Forget(w, Tx(w))
      PROVE  \A v \in Workers : inst'[v].scope = inst[v].scope
  BY <1>1, <1>8 DEF Forget, Instances
<1>9. CASE Commit(w)
  <2>1. guest[w].pc \notin {"idle", "save"} /\ Forget(w, Tx(w))
    BY <1>9 DEF Commit, At, HostCommit, HostCommitLost
  <2>2. PICK error \in BOOLEAN :
          guest' = [guest EXCEPT ![w].tx = 0, ![w].answer = CommitAnswer(error),
                       ![w].pc = IF error /\ language = "typescript" THEN "throw"
                                 ELSE "return"]
    BY <1>9 DEF Commit
  <2> DEFINE pc == IF error /\ language = "typescript" THEN "throw" ELSE "return"
             x == [guest[w] EXCEPT !.tx = 0, !.answer = CommitAnswer(error), !.pc = pc]
  <2>3. x.cmd = guest[w].cmd /\ x.pc \in {"throw", "return"}
    BY DEF TypeOK, Invocations
  <2>4. guest' = [guest EXCEPT ![w] = x]
    BY <2>2
  <2> HIDE DEF x
  <2> QED
    BY <1>8, <2>1, <2>3, <2>4, OthersAside
<1>10. CASE DropTransaction(w)
  <2>1. guest[w].pc \notin {"idle", "save"} /\ Forget(w, Tx(w))
    BY <1>10 DEF DropTransaction, At, HostRollback
  <2>2. PICK pc \in {"return", "begin"} : guest' = [guest EXCEPT ![w].tx = 0, ![w].pc = pc]
    BY <1>10 DEF DropTransaction
  <2> DEFINE x == [guest[w] EXCEPT !.tx = 0, !.pc = pc]
  <2>3. x.cmd = guest[w].cmd /\ x.pc = pc
    BY DEF TypeOK, Invocations
  <2>4. guest' = [guest EXCEPT ![w] = x]
    BY <2>2
  <2> HIDE DEF x
  <2> QED
    BY <1>8, <2>1, <2>3, <2>4, OthersAside
<1>11. CASE LeaveOpen(w)
  <2>1. guest[w].pc \notin {"idle", "save"} /\ UNCHANGED inst
    BY <1>11 DEF LeaveOpen, At, host
  <2> QED
    BY <1>11, <2>1, FinishAside DEF LeaveOpen
<1> QED
  BY <1>2, <1>3, <1>5, <1>6, <1>7, <1>9, <1>10, <1>11, <1>12

LEMMA OrdersTurns ==
    ASSUME TurnInv, TypeOK', NEW w \in Workers,
           \/ Gate(w) \/ BeginTx(w) \/ SelectWatermark(w) \/ UpsertFresh(w)
           \/ FailUpsert(w) \/ Apply(w)
           \/ Commit(w) \/ DropTransaction(w) \/ LeaveOpen(w)
    PROVE  TurnInv'
<1>1. \A v \in Workers : Aside(v)
  BY OrdersAside DEF TurnInv
<1>2. UNCHANGED <<settings, checkpoints, counter, effects, lost, counted, unsure>>
  BY DEF Gate, BeginTx, SelectWatermark, UpsertFresh, FailUpsert, Apply, Commit,
         DropTransaction, LeaveOpen, history, host
<1> QED
  BY <1>1, <1>2, AsideKeeps

LEMMA LeaveAside ==
    ASSUME TypeOK, NEW w \in Workers, guest[w].pc # "save",
           guest' = [guest EXCEPT ![w] = Idle], inst' = [inst EXCEPT ![w] = NewInstance]
    PROVE  \A v \in Workers : Aside(v)
BY DEF TypeOK, Idle, Aside

LEMMA ReturnTurns ==
    ASSUME TurnInv, TypeOK', NEW w \in Workers, Return(w)
    PROVE  TurnInv'
<1>1. \A v \in Workers : Aside(v)
  BY LeaveAside DEF TurnInv, Return, PutBack, At
<1> QED
  BY <1>1, AsideKeeps DEF Return

LEMMA InvokeTurns ==
    ASSUME TurnInv, TypeOK', NEW w \in Workers, NEW cmd \in Commands, Invoke(w, cmd)
    PROVE  TurnInv'
<1>1. /\ guest[w].pc = "idle" /\ guest'[w].pc = Entry /\ guest'[w].cmd = cmd
      /\ inst'[w].scope = ScopeOf[cmd]
  <2>1. /\ guest[w].pc = "idle" /\ guest'[w].pc = Entry /\ guest'[w].cmd = cmd
    BY DEF TurnInv, TypeOK, Invoke, At, Idle
  <2>2. inst' \in [Workers -> Instances]
    BY DEF TypeOK
  <2>3. inst \in [Workers -> Instances]
    BY DEF TurnInv, TypeOK
  <2>4. PICK top : inst' = [inst EXCEPT ![w] = [top EXCEPT !.scope = ScopeOf[cmd]]]
    BY DEF Invoke, Checkout
  <2> QED
    BY <2>1, <2>2, <2>3, <2>4 DEF Instances
<1>2. \A v \in Workers \ {w} : guest'[v] = guest[v] /\ inst'[v] = inst[v]
  BY DEF TurnInv, TypeOK, Invoke, Checkout
<1>3. Entry \notin {"store", "act", "save"}
  BY DEF TurnInv, TypeOK, Entry, Programs
<1>4. UNCHANGED <<settings, checkpoints, counter, effects, lost, counted, unsure>>
  BY DEF Invoke
<1>5. overlap \/ \A v \in Workers : guest[v].pc = "idle"
  BY DEF Invoke, At
<1>6. Turns'
  BY <1>2, <1>4, <1>5 DEF Turns, At, settings
<1>7. Scoped'
  BY <1>1, <1>2 DEF TurnInv, Scoped, At, Cmd
<1>8. Exact'
  BY <1>1, <1>2, <1>3, <1>4 DEF TurnInv, Exact, At, settings
<1>9. Remembered'
  <2> SUFFICES ASSUME ~overlap PROVE Remembered'
    BY <1>4 DEF Remembered, settings
  <2>1. \A v \in Workers : ~At(v, "act")'
    BY <1>1, <1>2, <1>3, <1>5 DEF At
  <2>2. \A v \in Workers : ~At(v, "save")
    BY <1>5 DEF At
  <2> QED
    BY <1>4, <2>1, <2>2 DEF TurnInv, Remembered
<1> QED
  BY <1>6, <1>7, <1>8, <1>9 DEF TurnInv

\* What the steps around a checkpoint leave to be shown: that it is remembered.
LEMMA StepTurns ==
    ASSUME TurnInv, TypeOK', NEW w \in Workers, ~At(w, "idle"),
           guest'[w].pc # "store",
           guest'[w].pc # "idle" =>
               guest'[w].cmd = guest[w].cmd /\ inst'[w].scope = inst[w].scope,
           \A v \in Workers \ {w} : guest'[v] = guest[v] /\ inst'[v] = inst[v],
           UNCHANGED <<settings, counter, counted, unsure>>,
           Remembered'
    PROVE  TurnInv'
<1>1. Turns'
  BY DEF TurnInv, Turns, At, settings
<1>2. Scoped'
  BY DEF TurnInv, Scoped, At, Cmd
<1>3. Exact'
  BY DEF TurnInv, Exact, At, settings
<1> QED
  BY <1>1, <1>2, <1>3 DEF TurnInv

\* A checkpoint is lost while no worker saves one, or by the one that does.
LEMMA LossRemembered ==
    ASSUME TurnInv, ~overlap, NEW s \in Scopes, lost' = lost \cup {s},
           UNCHANGED <<overlap, effects>>,
           \A c \in Scopes \ {s} : checkpoints'[c] = checkpoints[c],
           \A w \in Workers : At(w, "save") =>
               \/ At(w, "save")' /\ Cmd(w)' = Cmd(w)
               \/ ScopeOf[Cmd(w)] = s,
           \A w \in Workers : At(w, "act")' =>
               \/ At(w, "act") /\ Cmd(w)' = Cmd(w)
               \/ ScopeOf[Cmd(w)'] = s
    PROVE  Remembered'
<1>1. ASSUME NEW cmd \in Commands, ScopeOf[cmd] \notin lost'
      PROVE  /\ effects[cmd] <= 1
             /\ effects[cmd] # 0 =>
                   \/ checkpoints'[ScopeOf[cmd]] # NoCommand
                   \/ \E w \in Workers : At(w, "save")' /\ Cmd(w)' = cmd
  <2>1. ScopeOf[cmd] \in Scopes \ {s} /\ ScopeOf[cmd] \notin lost
    BY <1>1, HostAssumption
  <2>2. /\ effects[cmd] <= 1
        /\ effects[cmd] # 0 =>
              \/ checkpoints[ScopeOf[cmd]] # NoCommand
              \/ \E w \in Workers : At(w, "save") /\ Cmd(w) = cmd
    BY <2>1 DEF TurnInv, Remembered
  <2>3. ASSUME NEW w \in Workers, At(w, "save"), Cmd(w) = cmd
        PROVE  At(w, "save")' /\ Cmd(w)' = cmd
    BY <2>1, <2>3
  <2>4. checkpoints'[ScopeOf[cmd]] = checkpoints[ScopeOf[cmd]]
    BY <2>1
  <2> QED
    BY <2>2, <2>3, <2>4
<1>2. ASSUME NEW w \in Workers, At(w, "act")'
      PROVE  \/ checkpoints'[ScopeOf[Cmd(w)']] = NoCommand
             \/ ScopeOf[Cmd(w)'] \in lost'
  <2>1. CASE At(w, "act") /\ Cmd(w)' = Cmd(w)
    <3>1. guest[w].cmd \in Commands \cup {NoCommand}
      BY DEF TurnInv, TypeOK, Invocations
    <3>2. checkpoints[ScopeOf[Cmd(w)]] = NoCommand \/ ScopeOf[Cmd(w)] \in lost
      BY <2>1 DEF TurnInv, Remembered
    <3>3. inst[w].scope = ScopeOf[Cmd(w)] /\ inst[w].scope \in Scopes
      BY <2>1 DEF TurnInv, Scoped, At, TypeOK, Instances
    <3> QED
      BY <2>1, <3>2, <3>3
  <2> QED
    BY <1>2, <2>1
<1> QED
  BY <1>1, <1>2 DEF Remembered

LEMMA LookupTurns ==
    ASSUME TurnInv, TypeOK', NEW w \in Workers, Lookup(w)
    PROVE  TurnInv'
<1>1. /\ guest[w].pc = "lookup"
      /\ UNCHANGED <<settings, inst, checkpoints, counter, effects, counted, unsure>>
  BY DEF Lookup, At, host
<1>2. guest \in [Workers -> Invocations]
  BY DEF TurnInv, TypeOK
<1>3. CASE StepKnown(w) /\ UNCHANGED lost
  <2>1. PICK result : StepReturns(w, result)
    BY <1>3 DEF StepKnown
  <2> DEFINE x == [guest[w] EXCEPT !.result = result, !.answer = "ack", !.pc = "return"]
  <2>2. x.cmd = guest[w].cmd /\ x.pc = "return"
    BY <1>2 DEF Invocations
  <2>3. guest' = [guest EXCEPT ![w] = x]
    BY <2>1 DEF StepReturns
  <2> HIDE DEF x
  <2>4. \A v \in Workers : Aside(v)
    BY <1>1, <2>2, <2>3, OthersAside DEF TurnInv
  <2> QED
    BY <1>1, <1>3, <2>4, AsideKeeps
<1>4. CASE /\ Goto(w, "act")
           /\ lost' = IF CheckpointHit(w) = NoCommand THEN lost
                      ELSE lost \cup {ScopeOf[Cmd(w)]}
  <2>1. /\ guest'[w].pc = "act" /\ guest'[w].cmd = guest[w].cmd
        /\ \A v \in Workers \ {w} : guest'[v] = guest[v]
    BY <1>2, <1>4 DEF Goto, Invocations
  <2>2. inst[w].scope = ScopeOf[Cmd(w)] /\ inst[w].scope \in Scopes
    BY <1>1 DEF TurnInv, Scoped, At, TypeOK, Instances
  <2>3. ASSUME ~overlap PROVE Remembered'
    <3>1. CASE CheckpointHit(w) = NoCommand
      <4>1. lost' = lost /\ checkpoints[ScopeOf[Cmd(w)]] = NoCommand
        BY <1>4, <2>2, <3>1 DEF CheckpointHit
      <4>2. \A v \in Workers : At(v, "save") <=> At(v, "save")'
        BY <1>1, <2>1 DEF At
      <4>3. \A v \in Workers : Cmd(v)' = Cmd(v)
        BY <2>1 DEF Cmd
      <4>4. \A v \in Workers \ {w} : At(v, "act")' <=> At(v, "act")
        BY <2>1 DEF At
      <4> QED
        BY <1>1, <2>3, <4>1, <4>2, <4>3, <4>4 DEF TurnInv, Remembered
    <3>2. CASE CheckpointHit(w) # NoCommand
      <4>1. lost' = lost \cup {ScopeOf[Cmd(w)]}
        BY <1>4, <3>2
      <4>2. \A v \in Workers : At(v, "save") => At(v, "save")' /\ Cmd(v)' = Cmd(v)
        BY <1>1, <2>1 DEF At, Cmd
      <4>3. \A v \in Workers : At(v, "act")' =>
              (At(v, "act") /\ Cmd(v)' = Cmd(v)) \/ ScopeOf[Cmd(v)'] = ScopeOf[Cmd(w)]
        BY <2>1 DEF At, Cmd
      <4> QED
        BY <1>1, <2>2, <2>3, <4>1, <4>2, <4>3, LossRemembered DEF settings
    <3> QED
      BY <3>1, <3>2
  <2>4. Remembered'
    BY <1>1, <2>3 DEF Remembered, settings
  <2> QED
    BY <1>1, <2>1, <2>4, StepTurns DEF At
<1> QED
  BY <1>3, <1>4 DEF Lookup

LEMMA ActTurns ==
    ASSUME TurnInv, TypeOK', NEW w \in Workers, Act(w)
    PROVE  TurnInv'
<1>1. /\ guest[w].pc = "act"
      /\ UNCHANGED <<settings, inst, checkpoints, counter, lost, counted, unsure>>
  BY DEF Act, At, host
<1>2. CASE Raise(w) /\ UNCHANGED effects
  BY <1>1, <1>2, RaiseAside, AsideKeeps DEF TurnInv
<1>3. CASE /\ Goto(w, "save")
           /\ effects' = [effects EXCEPT ![Cmd(w)] = IF @ < 2 THEN @ + 1 ELSE @]
  <2>1. /\ guest'[w].pc = "save" /\ guest'[w].cmd = guest[w].cmd
        /\ \A v \in Workers \ {w} : guest'[v] = guest[v]
    BY <1>3 DEF TurnInv, TypeOK, Goto, Invocations
  <2>2. ASSUME ~overlap PROVE Remembered'
    <3>1. \A v \in Workers : ~At(v, "idle") => v = w
      BY <1>1, <2>2 DEF TurnInv, Turns, At
    <3>2. /\ \A v \in Workers : ~At(v, "save") /\ ~At(v, "act")'
          /\ At(w, "save")' /\ Cmd(w)' = Cmd(w)
      BY <1>1, <2>1, <3>1 DEF At, Cmd
    <3>3. ASSUME NEW cmd \in Commands, ScopeOf[cmd] \notin lost
          PROVE  /\ effects'[cmd] <= 1
                 /\ effects'[cmd] # 0 =>
                       \/ checkpoints[ScopeOf[cmd]] # NoCommand
                       \/ \E v \in Workers : At(v, "save")' /\ Cmd(v)' = cmd
      <4>1. /\ effects[cmd] <= 1
            /\ effects[cmd] # 0 => checkpoints[ScopeOf[cmd]] # NoCommand
        BY <2>2, <3>2, <3>3 DEF TurnInv, Remembered
      <4>2. effects \in [Commands -> 0..2]
        BY DEF TurnInv, TypeOK
      <4>3. CASE cmd = Cmd(w)
        <5>1. effects[cmd] = 0
          BY <1>1, <2>2, <3>3, <4>1, <4>3 DEF TurnInv, Remembered, At
        <5> QED
          BY <1>3, <3>2, <4>2, <4>3, <5>1
      <4>4. CASE cmd # Cmd(w)
        BY <1>3, <4>1, <4>2, <4>4
      <4> QED
        BY <4>3, <4>4
    <3> QED
      BY <1>1, <3>2, <3>3 DEF Remembered
  <2>3. Remembered'
    BY <1>1, <2>2 DEF Remembered, settings
  <2> QED
    BY <1>1, <2>1, <2>3, StepTurns DEF At
<1> QED
  BY <1>2, <1>3 DEF Act

LEMMA SaveTurns ==
    ASSUME TurnInv, TypeOK', Employed, NEW w \in Workers, Save(w)
    PROVE  TurnInv'
<1>1. /\ guest[w].pc = "save" /\ UNCHANGED <<settings, inst, counter, effects, counted, unsure>>
      /\ StepReturns(w, Cmd(w))
  BY DEF Save, At
<1>2. /\ guest'[w].pc = "return" /\ guest'[w].cmd = guest[w].cmd
      /\ \A v \in Workers \ {w} : guest'[v] = guest[v]
  BY <1>1 DEF TurnInv, TypeOK, StepReturns, Invocations
<1>3. inst[w].scope = ScopeOf[Cmd(w)] /\ inst[w].scope \in Scopes
  BY <1>1 DEF TurnInv, Scoped, At, TypeOK, Instances
<1>4. \A v \in Workers : At(v, "act")' => At(v, "act") /\ Cmd(v)' = Cmd(v)
  BY <1>1, <1>2 DEF At, Cmd
<1>5. \A v \in Workers : At(v, "save") => (At(v, "save")' /\ Cmd(v)' = Cmd(v)) \/ v = w
  BY <1>1, <1>2 DEF At, Cmd
<1>6. ASSUME ~overlap PROVE Remembered'
  <2>1. CASE lost' = lost \cup {ScopeOf[Cmd(w)]} /\ UNCHANGED checkpoints
    BY <1>1, <1>3, <1>4, <1>5, <1>6, <2>1, LossRemembered DEF settings
  <2>2. CASE CheckpointSave(w, Cmd(w)) /\ UNCHANGED lost
    <3>1. Cmd(w) # NoCommand
      BY <1>1, HostAssumption, DatabaseAssumption DEF Employed, Cmd
    <3>2. \A v \in Workers : ~At(v, "idle") => v = w
      BY <1>1, <1>6 DEF TurnInv, Turns, At
    <3>3. /\ \A v \in Workers : At(v, "save") => v = w
          /\ \A v \in Workers : ~At(v, "act")'
      BY <1>1, <1>4, <3>2 DEF At
    <3>4. /\ checkpoints' = [checkpoints EXCEPT ![ScopeOf[Cmd(w)]] = Cmd(w)]
          /\ checkpoints \in [Scopes -> Commands \cup {NoCommand}]
      BY <1>3, <2>2 DEF CheckpointSave, TurnInv, TypeOK
    <3>5. ASSUME NEW cmd \in Commands, ScopeOf[cmd] \notin lost
          PROVE  /\ effects[cmd] <= 1
                 /\ effects[cmd] # 0 => checkpoints'[ScopeOf[cmd]] # NoCommand
      <4>1. /\ effects[cmd] <= 1
            /\ effects[cmd] # 0 => \/ checkpoints[ScopeOf[cmd]] # NoCommand
                                   \/ cmd = Cmd(w)
        BY <1>6, <3>3, <3>5 DEF TurnInv, Remembered
      <4>2. ScopeOf[cmd] \in Scopes
        BY HostAssumption
      <4> QED
        BY <1>3, <3>1, <3>4, <4>1, <4>2
    <3> QED
      BY <1>1, <2>2, <3>3, <3>5 DEF Remembered
  <2> QED
    BY <2>1, <2>2 DEF Save
<1>7. Remembered'
  BY <1>1, <1>6 DEF Remembered, settings
<1> QED
  BY <1>1, <1>2, <1>7, StepTurns DEF At

LEMMA TrapTurns ==
    ASSUME TurnInv, TypeOK', NEW w \in Workers, Trap(w)
    PROVE  TurnInv'
<1>1. /\ guest[w].pc # "idle"
      /\ inst' = [inst EXCEPT ![w] = NewInstance]
      /\ guest' = [guest EXCEPT ![w] = Idle]
      /\ UNCHANGED <<settings, checkpoints, counter, effects, counted, unsure>>
  BY DEF Trap, At, Discard
<1>2. CASE guest[w].pc # "save"
  BY <1>1, <1>2, LeaveAside, AsideKeeps DEF TurnInv, Trap, At
<1>3. CASE guest[w].pc = "save"
  <2>1. /\ guest'[w].pc = "idle"
        /\ \A v \in Workers \ {w} : guest'[v] = guest[v] /\ inst'[v] = inst[v]
    BY <1>1 DEF TurnInv, TypeOK, Idle
  <2>2. lost' = lost \cup {ScopeOf[Cmd(w)]}
    BY <1>3 DEF Trap, At
  <2>3. inst[w].scope = ScopeOf[Cmd(w)] /\ inst[w].scope \in Scopes
    BY <1>1 DEF TurnInv, Scoped, At, TypeOK, Instances
  <2>4. \A v \in Workers : At(v, "act")' => At(v, "act") /\ Cmd(v)' = Cmd(v)
    BY <2>1 DEF At, Cmd
  <2>5. \A v \in Workers : At(v, "save") => (At(v, "save")' /\ Cmd(v)' = Cmd(v)) \/ v = w
    BY <2>1 DEF At, Cmd
  <2>6. ASSUME ~overlap PROVE Remembered'
    BY <1>1, <2>2, <2>3, <2>4, <2>5, <2>6, LossRemembered DEF settings
  <2>7. Remembered'
    BY <1>1, <2>6 DEF Remembered, settings
  <2> QED
    BY <1>1, <2>1, <2>7, StepTurns DEF At
<1> QED
  BY <1>2, <1>3

LEMMA ExpireTurns ==
    ASSUME TurnInv, TypeOK', NEW s \in Scopes, ExpireCheckpoint(s)
    PROVE  TurnInv'
<1>1. /\ UNCHANGED <<settings, inst, guest, counter, effects, counted, unsure>>
      /\ lost' = lost \cup {s}
      /\ \A c \in Scopes \ {s} : checkpoints'[c] = checkpoints[c]
  BY DEF ExpireCheckpoint, Expire, TurnInv, TypeOK
<1>2. ASSUME ~overlap PROVE Remembered'
  <2>1. \A v \in Workers : /\ At(v, "save") => At(v, "save")' /\ Cmd(v)' = Cmd(v)
                           /\ At(v, "act")' => At(v, "act") /\ Cmd(v)' = Cmd(v)
    BY <1>1 DEF At, Cmd
  <2> QED
    BY <1>1, <1>2, <2>1, LossRemembered DEF settings
<1>3. Remembered'
  BY <1>1, <1>2 DEF Remembered, settings
<1>4. Turns' /\ Scoped' /\ Exact'
  BY <1>1 DEF TurnInv, Turns, Scoped, Exact, At, Cmd, settings
<1> QED
  BY <1>3, <1>4 DEF TurnInv

\* A counter: what is at stake is that it says what was counted.
LEMMA CountTurns ==
    ASSUME TurnInv, TypeOK', NEW w \in Workers, guest[w].pc \in {"count", "store"},
           guest'[w].pc \notin {"idle", "act", "save"}, guest'[w].cmd = guest[w].cmd,
           \A v \in Workers \ {w} : guest'[v] = guest[v],
           UNCHANGED <<settings, inst, checkpoints, effects, lost>>,
           guest'[w].pc = "store" => backend = "kevy",
           \/ /\ UNCHANGED <<counter, counted, unsure>>
              /\ guest'[w].pc = "store" => guest'[w].read = counter
           \/ /\ counted' = counted + 1 /\ unsure' = unsure
              /\ guest'[w].pc # "store"
              /\ \/ backend = "redis" /\ counter' = counter + 1
                 \/ backend = "kevy" /\ guest[w].pc = "store"
                    /\ counter' = guest[w].read + 1
           \/ /\ counted' = counted /\ unsure' = unsure + 1
              /\ guest'[w].pc # "store"
              /\ backend = "redis" /\ counter' \in {counter, counter + 1}
    PROVE  TurnInv'
<1>1. Turns' /\ Scoped'
  BY DEF TurnInv, Turns, Scoped, At, Cmd, settings
<1>2. Remembered'
  <2> SUFFICES ASSUME ~overlap PROVE Remembered'
    BY DEF Remembered, settings
  <2>1. \A v \in Workers : /\ At(v, "save") => At(v, "save")' /\ Cmd(v)' = Cmd(v)
                           /\ At(v, "act")' => At(v, "act") /\ Cmd(v)' = Cmd(v)
    BY DEF At, Cmd
  <2> QED
    BY <2>1 DEF TurnInv, Remembered
<1>3. Exact'
  <2>0. counter \in Nat /\ counted \in Nat /\ unsure \in Nat
        /\ \A v \in Workers : guest[v].read \in Nat
    BY DEF TurnInv, TypeOK, Invocations
  <2>1. ASSUME NEW v \in Workers \ {w}, At(v, "store")
        PROVE  overlap /\ backend = "kevy" /\ guest[v].read <= counted + unsure
    BY <2>1 DEF TurnInv, Turns, Exact, At
  <2>2. CASE UNCHANGED <<counter, counted, unsure>>
    BY <2>0, <2>1, <2>2 DEF TurnInv, Exact, At, settings
  <2>3. CASE counted' = counted + 1 /\ backend = "redis"
    BY <2>0, <2>1, <2>3 DEF TurnInv, Exact, At, settings
  <2>4. CASE counted' = counted + 1 /\ backend = "kevy"
    BY <2>0, <2>1, <2>4 DEF TurnInv, Exact, At, settings
  <2>5. CASE counted' = counted /\ unsure' = unsure + 1
    BY <2>0, <2>1, <2>5 DEF TurnInv, Exact, At, settings
  <2> QED
    BY <2>2, <2>3, <2>4, <2>5
<1> QED
  BY <1>1, <1>2, <1>3 DEF TurnInv

LEMMA IncrTurns ==
    ASSUME TurnInv, TypeOK', NEW w \in Workers, Incr(w) \/ StoreIncr(w)
    PROVE  TurnInv'
<1>1. /\ guest[w].pc \in {"count", "store"}
      /\ UNCHANGED <<settings, inst, checkpoints, effects, lost>>
      /\ guest \in [Workers -> Invocations]
  BY DEF Incr, StoreIncr, At, TurnInv, TypeOK
<1>2. CASE Raise(w) /\ UNCHANGED <<counter, counted, unsure>>
  BY <1>1, <1>2, RaiseAside, AsideKeeps DEF TurnInv
<1>3. ASSUME Finish(w, "ack") \/ Raise(w)
      PROVE  /\ guest'[w].pc \in {"drop", "return", "throw"}
             /\ guest'[w].cmd = guest[w].cmd
             /\ \A v \in Workers \ {w} : guest'[v] = guest[v]
  BY <1>1, <1>3 DEF Finish, Raise, Err, Throw, Goto, Invocations
<1>4. CASE Finish(w, "ack") /\ IncrAtomically /\ counted' = counted + 1 /\ UNCHANGED unsure
  BY <1>1, <1>3, <1>4, CountTurns DEF IncrAtomically
<1>5. CASE /\ At(w, "store") /\ Finish(w, "ack")
           /\ IncrWrite(guest[w].read) /\ counted' = counted + 1 /\ UNCHANGED unsure
  <2>1. backend = "kevy"
    BY <1>5 DEF TurnInv, Exact
  <2> QED
    BY <1>1, <1>3, <1>5, <2>1, CountTurns DEF IncrWrite, At
<1>6. CASE /\ IncrRead
           /\ guest' = [guest EXCEPT ![w].read = counter, ![w].pc = "store"]
           /\ UNCHANGED <<counter, counted, unsure>>
  <2> DEFINE x == [guest[w] EXCEPT !.read = counter, !.pc = "store"]
  <2>1. x.cmd = guest[w].cmd /\ x.pc = "store" /\ x.read = counter
    BY <1>1 DEF Invocations
  <2>2. guest' = [guest EXCEPT ![w] = x]
    BY <1>6
  <2> HIDE DEF x
  <2>3. guest'[w] = x /\ \A v \in Workers \ {w} : guest'[v] = guest[v]
    BY <1>1, <2>2
  <2> QED
    BY <1>1, <1>6, <2>1, <2>3, CountTurns DEF IncrRead
<1>7. CASE /\ Raise(w) /\ IncrFails /\ UNCHANGED counted
           /\ unsure' = IF backend = "redis" THEN unsure + 1 ELSE unsure
  <2>1. CASE backend = "redis"
    <3>1. counter' \in {counter, counter + 1} /\ unsure' = unsure + 1 /\ counted' = counted
      BY <1>7, <2>1 DEF IncrFails, IncrAtomically
    <3> QED
      BY <1>1, <1>3, <1>7, <2>1, <3>1, CountTurns
  <2>2. CASE backend # "redis"
    BY <1>2, <1>7, <2>2 DEF IncrFails, IncrAtomically
  <2> QED
    BY <2>1, <2>2
<1> QED
  BY <1>2, <1>4, <1>5, <1>6, <1>7 DEF Incr, StoreIncr

LEMMA InductiveInTurns == Spec => []TurnInv
<1>1. IInv => TypeOK /\ Employed
  BY DEF IInv, TInv
<1>2. TurnInv /\ TypeOK' /\ Employed /\ [Next]_vars => TurnInv'
  <2> SUFFICES ASSUME TurnInv, TypeOK', Employed, [Next]_vars PROVE TurnInv'
    OBVIOUS
  <2>1. ASSUME NEW w \in Workers, Work(w) \/ FailUpsert(w) \/ Trap(w) \/ LeaveOpen(w)
        PROVE  TurnInv'
    BY <2>1, ReturnTurns, OrdersTurns, LookupTurns, ActTurns, SaveTurns, IncrTurns,
       TrapTurns DEF Work
  <2>2. ASSUME UNCHANGED vars \/ \E c \in Conns : Release(c) PROVE TurnInv'
    <3>1. UNCHANGED <<settings, guest, inst, checkpoints, counter, effects, lost, counted, unsure>>
      BY <2>2 DEF vars, Release, host, history
    <3>2. \A v \in Workers : Aside(v)
      BY <3>1 DEF Aside
    <3> QED
      BY <3>1, <3>2, AsideKeeps
  <2> QED
    BY <2>1, <2>2, InvokeTurns, ExpireTurns DEF Next
<1> QED
  BY <1>1, <1>2, InitTurns, Inductive, PTL DEF Spec

\* A durable step's effect runs again for a command only if the checkpoint of
\* its scope was lost, through retries, traps between effect and checkpoint,
\* expiry, and commands that share a scope, as long as invocations take turns.
THEOREM EffectsRemembered == Spec => []ChargedAgainOnlyIfLost
<1>1. TurnInv => ChargedAgainOnlyIfLost
  <2> SUFFICES ASSUME TurnInv, ~overlap, NEW cmd \in Commands, effects[cmd] > 1,
                      ScopeOf[cmd] \notin lost
               PROVE  FALSE
    BY DEF ChargedAgainOnlyIfLost
  <2>1. effects[cmd] <= 1 /\ effects[cmd] \in 0..2
    BY DEF TurnInv, TypeOK, Remembered
  <2> QED
    BY <2>1
<1> QED
  BY <1>1, InductiveInTurns, PTL

\* No increment that was answered is missing from the counter, with Redis
\* however invocations overlap, and with the embedded store if they do not; and
\* none is in it that nobody asked for, beyond those of a Redis server whose
\* answer was lost.
THEOREM CountersKeepAnswers == Spec => []CountsKept
<1>1. TurnInv => CountsKept
  BY DEF TurnInv, Exact, CountsKept
<1> QED
  BY <1>1, InductiveInTurns, PTL
=============================================================================
