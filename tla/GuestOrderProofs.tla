-------------------------- MODULE GuestOrderProofs --------------------------
(***************************************************************************)
(* What guests keep in order, for any workers, connections, commands and   *)
(* limits: the bounded gates in their memory, the checkpoints of their     *)
(* durable steps, and the watermarks of their entities.                    *)
(***************************************************************************)
EXTENDS GuestProofs, FiniteSetTheorems

-----------------------------------------------------------------------------
(* Gates.  That a gate's queue has as many places as its map has marks needs *)
(* no key to be queued twice, which is the part that is inductive.           *)

QueuedKeys(q) == {q[i] : i \in DOMAIN q}
OnceEach(q) == \A i, j \in DOMAIN q : q[i] = q[j] => i = j

GateOK(g) ==
    /\ g \in Gates
    /\ Len(g.queue) <= AtLeastOne(Capacity)
    /\ QueuedKeys(g.queue) = Tracked(g)
    /\ OnceEach(g.queue)

AllGatesOK ==
    /\ \A w \in Workers : GateOK(inst[w].gate)
    /\ \A i \in 1..Len(pool) : GateOK(pool[i].gate)

LEMMA QueueTail ==
    ASSUME NEW q \in Seq(Keys), q # <<>>, OnceEach(q)
    PROVE  /\ Tail(q) \in Seq(Keys) /\ Len(Tail(q)) = Len(q) - 1
           /\ OnceEach(Tail(q))
           /\ QueuedKeys(Tail(q)) = QueuedKeys(q) \ {Head(q)}
<1>1. /\ Tail(q) \in Seq(Keys) /\ Len(Tail(q)) = Len(q) - 1 /\ Head(q) = q[1]
      /\ Len(q) \in Nat /\ Len(q) > 0
      /\ DOMAIN q = 1..Len(q) /\ DOMAIN Tail(q) = 1..(Len(q) - 1)
      /\ \A i \in 1..(Len(q) - 1) : Tail(q)[i] = q[i + 1]
  OBVIOUS
<1> DEFINE t == Tail(q)
<1>2. OnceEach(t)
  <2> SUFFICES ASSUME NEW i \in 1..(Len(q) - 1), NEW j \in 1..(Len(q) - 1), t[i] = t[j]
               PROVE  i = j
    BY <1>1 DEF OnceEach
  <2>1. i + 1 \in DOMAIN q /\ j + 1 \in DOMAIN q /\ q[i + 1] = q[j + 1]
    BY <1>1
  <2>2. i + 1 = j + 1
    BY <2>1 DEF OnceEach
  <2> QED
    BY <2>2
<1>3. QueuedKeys(t) \subseteq QueuedKeys(q) \ {Head(q)}
  <2> SUFFICES ASSUME NEW i \in 1..(Len(q) - 1)
               PROVE  t[i] \in QueuedKeys(q) /\ t[i] # q[1]
    BY <1>1 DEF QueuedKeys
  <2>1. i + 1 \in DOMAIN q /\ 1 \in DOMAIN q /\ i + 1 # 1
    BY <1>1
  <2> QED
    BY <1>1, <2>1 DEF OnceEach, QueuedKeys
<1>4. QueuedKeys(q) \ {Head(q)} \subseteq QueuedKeys(t)
  <2> SUFFICES ASSUME NEW i \in DOMAIN q, q[i] # q[1]
               PROVE  q[i] \in QueuedKeys(t)
    BY <1>1 DEF QueuedKeys
  <2>1. i - 1 \in 1..(Len(q) - 1) /\ t[i - 1] = q[i]
    BY <1>1
  <2> QED
    BY <1>1, <2>1 DEF QueuedKeys
<1> QED
  BY <1>1, <1>2, <1>3, <1>4

LEMMA QueueAppend ==
    ASSUME NEW q \in Seq(Keys), OnceEach(q), NEW k \in Keys, k \notin QueuedKeys(q)
    PROVE  /\ Append(q, k) \in Seq(Keys) /\ Len(Append(q, k)) = Len(q) + 1
           /\ OnceEach(Append(q, k))
           /\ QueuedKeys(Append(q, k)) = QueuedKeys(q) \cup {k}
<1> DEFINE a == Append(q, k)
<1>1. /\ a \in Seq(Keys) /\ Len(a) = Len(q) + 1 /\ Len(q) \in Nat
      /\ DOMAIN q = 1..Len(q) /\ DOMAIN a = 1..(Len(q) + 1)
      /\ a[Len(q) + 1] = k /\ \A i \in 1..Len(q) : a[i] = q[i]
  OBVIOUS
<1> HIDE DEF a
<1>2. \A i \in DOMAIN a : i \in DOMAIN q \/ i = Len(q) + 1
  BY <1>1
<1>3. \A i \in DOMAIN q : q[i] # k /\ i \in DOMAIN a
  BY <1>1 DEF QueuedKeys
<1>4. OnceEach(a)
  BY <1>1, <1>2, <1>3 DEF OnceEach
<1>5. QueuedKeys(a) = QueuedKeys(q) \cup {k}
  <2>1. Len(q) + 1 \in DOMAIN a
    BY <1>1
  <2> QED
    BY <1>1, <1>2, <1>3, <2>1 DEF QueuedKeys
<1> QED
  BY <1>1, <1>4, <1>5 DEF a

\* Eviction makes room for one more key.
LEMMA EvictOK ==
    ASSUME NEW g, GateOK(g), NEW r
    PROVE  /\ GateOK(Evict(r, g, Capacity))
           /\ Len(Evict(r, g, Capacity).queue) < AtLeastOne(Capacity)
           /\ Tracked(Evict(r, g, Capacity)) \subseteq Tracked(g)
<1>1. /\ g.queue \in Seq(Keys) /\ Len(g.queue) \in Nat
      /\ AtLeastOne(Capacity) \in Nat \ {0} /\ Capacity \in Nat
      /\ Capacity > 0 => AtLeastOne(Capacity) = Capacity
      /\ Capacity = 0 => AtLeastOne(Capacity) = 1
  BY HostAssumption DEF GateOK, Gates, AtLeastOne
<1>2. ASSUME Len(g.queue) > 0
      PROVE  /\ GateOK(ForgetOldest(g))
             /\ Len(ForgetOldest(g).queue) < AtLeastOne(Capacity)
             /\ Tracked(ForgetOldest(g)) \subseteq Tracked(g)
  <2> DEFINE f == ForgetOldest(g)
  <2>1. g.queue # <<>> /\ OnceEach(g.queue)
    BY <1>2 DEF GateOK
  <2>2. /\ f.queue \in Seq(Keys) /\ Len(f.queue) = Len(g.queue) - 1
        /\ OnceEach(f.queue)
        /\ QueuedKeys(f.queue) = QueuedKeys(g.queue) \ {Head(g.queue)}
    BY <1>1, <2>1, QueueTail DEF ForgetOldest
  <2>3. f.marks = [g.marks EXCEPT ![Head(g.queue)] = NoStamp] /\ DOMAIN f.marks = Keys
        /\ f = [marks |-> f.marks, queue |-> f.queue]
    BY DEF ForgetOldest, GateOK, Gates
  <2>4. f \in Gates
    BY <2>2, <2>3 DEF GateOK, Gates
  <2>5. Tracked(f) = Tracked(g) \ {Head(g.queue)}
    BY <2>3 DEF Tracked, GateOK, Gates
  <2> HIDE DEF f
  <2>6. QueuedKeys(f.queue) = Tracked(f)
    BY <2>2, <2>5 DEF GateOK
  <2>7. Len(f.queue) < AtLeastOne(Capacity)
    BY <1>1, <2>2 DEF GateOK
  <2>8. GateOK(f)
    BY <1>1, <2>2, <2>4, <2>6, <2>7 DEF GateOK
  <2> QED
    BY <2>5, <2>7, <2>8 DEF f
<1>3. CASE Evict(r, g, Capacity) = g
  <2>1. Len(g.queue) < AtLeastOne(Capacity)
    <3>1. CASE r = "rust" /\ ~(Len(g.queue) >= AtLeastOne(Capacity))
      BY <1>1, <3>1
    <3>2. CASE r # "rust" /\ ~(Len(g.queue) >= Capacity /\ Len(g.queue) > 0)
      BY <1>1, <3>2
    <3>3. CASE Len(g.queue) > 0 /\ ForgetOldest(g) = g
      BY <1>2, <3>3
    <3> QED
      BY <1>1, <1>3, <3>1, <3>2, <3>3 DEF Evict, EvictRust, EvictTs
  <2> QED
    BY <1>3, <2>1
<1>4. CASE Evict(r, g, Capacity) # g
  <2>1. Evict(r, g, Capacity) = ForgetOldest(g) /\ Len(g.queue) > 0
    BY <1>1, <1>4 DEF Evict, EvictRust, EvictTs
  <2> QED
    BY <1>2, <2>1
<1> QED
  BY <1>3, <1>4

LEMMA RememberOK ==
    ASSUME NEW g, GateOK(g), NEW r, NEW k \in Keys, NEW s \in Stamps
    PROVE  GateOK(Remember(r, g, Capacity, k, s))
<1>1. Remember(r, g, Capacity, k, s) \in Gates
  BY RememberTyped DEF GateOK
<1>2. CASE k \in Tracked(g)
  <2> DEFINE h == [g EXCEPT !.marks[k] = s]
  <2>1. Remember(r, g, Capacity, k, s) = h /\ h.queue = g.queue
        /\ h.marks = [g.marks EXCEPT ![k] = s]
    BY <1>2 DEF Remember, GateOK, Gates
  <2>2. Tracked(h) = Tracked(g)
    BY <1>2, <2>1, StampAssumption DEF Tracked, GateOK, Gates
  <2> QED
    BY <1>1, <2>1, <2>2 DEF GateOK
<1>3. CASE k \notin Tracked(g)
  <2> DEFINE room == Evict(r, g, Capacity)
             h == Remember(r, g, Capacity, k, s)
  <2>1. /\ GateOK(room) /\ Len(room.queue) < AtLeastOne(Capacity)
        /\ Tracked(room) \subseteq Tracked(g)
    BY EvictOK
  <2>2. h = [marks |-> [room.marks EXCEPT ![k] = s], queue |-> Append(room.queue, k)]
    BY <1>3 DEF Remember
  <2> HIDE DEF room, h
  <2>3. /\ room.queue \in Seq(Keys) /\ OnceEach(room.queue)
        /\ k \notin QueuedKeys(room.queue)
        /\ QueuedKeys(room.queue) = Tracked(room)
    BY <1>3, <2>1 DEF GateOK, Gates
  <2>4. /\ Len(h.queue) = Len(room.queue) + 1 /\ OnceEach(h.queue)
        /\ QueuedKeys(h.queue) = QueuedKeys(room.queue) \cup {k}
    BY <2>2, <2>3, QueueAppend
  <2>5. Tracked(h) = Tracked(room) \cup {k}
    BY <2>1, <2>2, StampAssumption DEF Tracked, GateOK, Gates
  <2>6. Len(h.queue) <= AtLeastOne(Capacity)
    BY <2>1, <2>3, <2>4, HostAssumption DEF AtLeastOne
  <2> QED
    BY <1>1, <2>3, <2>4, <2>5, <2>6 DEF GateOK, h
<1> QED
  BY <1>2, <1>3

LEMMA NewGateOK == GateOK(NewInstance.gate)
<1>1. NewInstance.gate = NewGuard(Keys)
  BY DEF NewInstance
<1>2. NewGuard(Keys) \in Gates /\ NewGuard(Keys).queue = <<>>
      /\ Tracked(NewGuard(Keys)) = {}
  BY DEF NewGuard, Gates, Tracked
<1>3. QueuedKeys(<<>>) = {} /\ OnceEach(<<>>) /\ Len(<<>>) = 0
  BY DEF QueuedKeys, OnceEach
<1> QED
  BY <1>1, <1>2, <1>3, HostAssumption DEF GateOK, AtLeastOne

LEMMA GateOKInBounds ==
    ASSUME NEW g, GateOK(g)
    PROVE  GateInBounds(g)
<1> DEFINE q == g.queue
           f == [i \in 1..Len(q) |-> q[i]]
<1>1. q \in Seq(Keys) /\ Len(q) \in Nat /\ DOMAIN q = 1..Len(q)
  BY DEF GateOK, Gates
<1>2. f \in Bijection(1..Len(q), Tracked(g))
  <2>1. f \in [1..Len(q) -> Tracked(g)]
    BY <1>1 DEF GateOK, QueuedKeys
  <2>2. \A i, j \in 1..Len(q) : f[i] = f[j] => i = j
    BY <1>1 DEF GateOK, OnceEach
  <2>3. \A k \in Tracked(g) : \E i \in 1..Len(q) : f[i] = k
    BY <1>1 DEF GateOK, QueuedKeys
  <2> QED
    BY <2>1, <2>2, <2>3 DEF Bijection, Injection, Surjection, IsInjective
<1>3. Cardinality(Tracked(g)) = Len(q)
  BY <1>1, <1>2, FS_CountingElements DEF ExistsBijection
<1> QED
  BY <1>3 DEF GateOK, GateInBounds, QueuedKeys

-----------------------------------------------------------------------------
(* The steps of a chassis that touch a gate: three, and Invoke, Return and   *)
(* Trap, which move it with its instance.                                    *)

LEMMA GatesUnmoved ==
    ASSUME AllGatesOK, pool' = pool,
           \A w \in Workers : inst'[w].gate = inst[w].gate
    PROVE  AllGatesOK'
BY DEF AllGatesOK

LEMMA InvokeGates ==
    ASSUME TypeOK, AllGatesOK, NEW w \in Workers, NEW cmd \in Commands, Checkout(w, cmd)
    PROVE  AllGatesOK'
<1> DEFINE top == IF pool = <<>> THEN NewInstance ELSE Head(pool)
           x == [top EXCEPT !.scope = ScopeOf[cmd]]
<1>1. pool \in Seq(Instances) /\ inst \in [Workers -> Instances]
  BY DEF TypeOK
<1>2. top \in Instances /\ GateOK(top.gate)
  <2>1. CASE pool = <<>>
    BY <2>1, NewGateOK, NewInstanceTyped
  <2>2. CASE pool # <<>>
    <3>1. Head(pool) = pool[1] /\ 1 \in 1..Len(pool) /\ Head(pool) \in Instances
      BY <1>1, <2>2
    <3> QED
      BY <2>2, <3>1 DEF AllGatesOK
  <2> QED
    BY <2>1, <2>2
<1>3. /\ inst' = [inst EXCEPT ![w] = x]
      /\ pool' = IF pool = <<>> THEN pool ELSE Tail(pool)
  BY DEF Checkout
<1> HIDE DEF top
<1>4. x.gate = top.gate
  BY <1>2 DEF Instances
<1> HIDE DEF x
<1>5. \A v \in Workers : GateOK(inst'[v].gate)
  BY <1>1, <1>2, <1>3, <1>4 DEF AllGatesOK
<1>6. \A i \in 1..Len(pool') : GateOK(pool'[i].gate)
  <2>1. CASE pool = <<>>
    BY <1>3, <2>1 DEF AllGatesOK
  <2>2. CASE pool # <<>>
    <3>1. \A i \in 1..Len(pool') : i + 1 \in 1..Len(pool) /\ pool'[i] = pool[i + 1]
      BY <1>1, <1>3, <2>2
    <3> QED
      BY <3>1 DEF AllGatesOK
  <2> QED
    BY <2>1, <2>2
<1> QED
  BY <1>5, <1>6 DEF AllGatesOK

LEMMA LeaveGates ==
    ASSUME TypeOK, AllGatesOK, NEW w \in Workers, PutBack(w) \/ Discard(w)
    PROVE  AllGatesOK'
<1> DEFINE kept == [NewInstance EXCEPT !.gate = inst[w].gate]
<1>1. pool \in Seq(Instances) /\ inst \in [Workers -> Instances]
  BY DEF TypeOK
<1>2. \A v \in Workers : GateOK(inst'[v].gate)
  BY <1>1, NewGateOK DEF AllGatesOK, PutBack, Discard
<1>3. pool' = pool \/ pool' = <<kept>> \o pool
  BY DEF PutBack, Discard
<1>4. kept.gate = inst[w].gate
  BY DEF NewInstance
<1> HIDE DEF kept
<1>5. \A i \in 1..Len(pool') : GateOK(pool'[i].gate)
  <2>1. CASE pool' = <<kept>> \o pool
    <3>1. \A i \in 1..Len(pool') : \/ i = 1 /\ pool'[i] = kept
                                   \/ i - 1 \in 1..Len(pool) /\ pool'[i] = pool[i - 1]
      BY <1>1, <2>1
    <3> QED
      BY <1>4, <3>1 DEF AllGatesOK
  <2> QED
    BY <1>3, <2>1 DEF AllGatesOK
<1> QED
  BY <1>2, <1>5 DEF AllGatesOK

LEMMA GateGates ==
    ASSUME IInv, AllGatesOK, NEW w \in Workers, Gate(w)
    PROVE  AllGatesOK'
<1>1. /\ inst \in [Workers -> Instances] /\ guest[w].cmd \in Commands
      /\ GateOK(inst[w].gate)
  BY DEF IInv, TInv, TypeOK, Employed, Gate, At, AllGatesOK
<1>2. /\ StampOf[guest[w].cmd] \in Stamps /\ guest[w].cmd \in Keys
      /\ EntityOf[guest[w].cmd] \in Keys
  BY <1>1, DatabaseAssumption DEF Keys
<1>3. PICK g : GateOK(g) /\ inst' = [inst EXCEPT ![w].gate = g]
  <2>1. CASE CausalGate(w)
    <3>1. GateOK(Advance(language, inst[w].gate, Capacity, EntityOf[guest[w].cmd],
                         StampOf[guest[w].cmd]))
      BY <1>1, <1>2, RememberOK DEF Advance
    <3> QED
      BY <2>1, <3>1 DEF CausalGate, Cmd
  <2>2. CASE DedupGate(w)
    <3>1. GateOK(CheckAndUpdate(language, inst[w].gate, Capacity, guest[w].cmd,
                                StampOf[guest[w].cmd]))
      BY <1>1, <1>2, RememberOK DEF CheckAndUpdate
    <3> QED
      BY <2>2, <3>1 DEF DedupGate, Cmd
  <2> QED
    BY <2>1, <2>2 DEF Gate
<1>4. pool' = pool
  BY DEF Gate
<1> QED
  BY <1>1, <1>3, <1>4 DEF AllGatesOK, Instances

LEMMA HandleGates ==
    ASSUME TypeOK, AllGatesOK, NEW w \in Workers,
           BeginTx(w) \/ Commit(w) \/ DropTransaction(w)
    PROVE  AllGatesOK'
<1>1. inst \in [Workers -> Instances]
  BY DEF TypeOK
<1>2. pool' = pool
  BY DEF BeginTx, Commit, DropTransaction
<1>3. \/ inst' = inst
      \/ \E t, n : inst' = [inst EXCEPT ![w].txs = t, ![w].next = n]
      \/ \E t : inst' = [inst EXCEPT ![w].txs = t]
  BY DEF BeginTx, TxBegun, HostBegin, Commit, DropTransaction, HostCommit,
         HostCommitLost, HostRollback, Forget
<1>4. \A v \in Workers : inst'[v].gate = inst[v].gate
  <2>1. ASSUME NEW t, NEW n, inst' = [inst EXCEPT ![w].txs = t, ![w].next = n]
        PROVE  \A v \in Workers : inst'[v].gate = inst[v].gate
    BY <1>1, <2>1 DEF Instances
  <2>2. ASSUME NEW t, inst' = [inst EXCEPT ![w].txs = t]
        PROVE  \A v \in Workers : inst'[v].gate = inst[v].gate
    BY <1>1, <2>2 DEF Instances
  <2> QED
    BY <1>3, <2>1, <2>2
<1> QED
  BY <1>2, <1>4, GatesUnmoved

LEMMA GatesStep == IInv /\ AllGatesOK /\ [Next]_vars => AllGatesOK'
<1> SUFFICES ASSUME IInv, AllGatesOK, [Next]_vars PROVE AllGatesOK'
  OBVIOUS
<1>1. TypeOK
  BY DEF IInv, TInv
<1>2. ASSUME UNCHANGED <<pool, inst>> PROVE AllGatesOK'
  BY <1>2, GatesUnmoved
<1>3. ASSUME NEW w \in Workers, Work(w) \/ FailUpsert(w) \/ Trap(w) \/ LeaveOpen(w)
      PROVE  AllGatesOK'
  <2>1. CASE Gate(w)
    BY <2>1, GateGates
  <2>2. CASE Return(w) \/ Trap(w)
    BY <1>1, <2>2, LeaveGates DEF Return, Trap
  <2>3. CASE BeginTx(w) \/ Commit(w) \/ DropTransaction(w)
    BY <1>1, <2>3, HandleGates
  <2>4. CASE SelectWatermark(w) \/ LeaveOpen(w) \/ Lookup(w) \/ Act(w) \/ Save(w)
             \/ Incr(w) \/ StoreIncr(w)
    BY <1>2, <2>4 DEF SelectWatermark, LeaveOpen, Lookup, Act, Save, Incr, StoreIncr, host
  <2>5. CASE UpsertFresh(w) \/ FailUpsert(w) \/ Apply(w)
    BY <1>2, <2>5 DEF UpsertFresh, FailUpsert, Apply, HostUpsert, HostWrite, StatementFails,
                      HostStatementFails
  <2> QED
    BY <1>3, <2>1, <2>2, <2>3, <2>4, <2>5 DEF Work
<1>4. ASSUME NEW w \in Workers, NEW cmd \in Commands, Invoke(w, cmd) PROVE AllGatesOK'
  BY <1>1, <1>4, InvokeGates DEF Invoke
<1>5. ASSUME NEW c \in Conns, Release(c) PROVE AllGatesOK'
  BY <1>2, <1>5 DEF Release, host
<1>6. ASSUME NEW s \in Scopes, ExpireCheckpoint(s) PROVE AllGatesOK'
  BY <1>2, <1>6 DEF ExpireCheckpoint
<1> QED
  BY <1>2, <1>3, <1>4, <1>5, <1>6 DEF Next, vars, host

\* No gate outgrows its capacity, and its map and its queue know the same keys,
\* each once, for any capacity, language and sequence of calls: each key that
\* is remembered will be evicted in its turn, and none is leaked.
THEOREM GatesBounded == Spec => []GatesInBounds
<1>1. Init => AllGatesOK
  BY NewGateOK DEF Init, HostInit, AllGatesOK
<1>2. AllGatesOK => GatesInBounds
  BY GateOKInBounds DEF AllGatesOK, GatesInBounds
<1> QED
  BY <1>1, <1>2, Inductive, GatesStep, PTL DEF Spec

-----------------------------------------------------------------------------
(* Checkpoints.  What is saved under a command id is the result of a command *)
(* with that id, because the host scopes an instance before the guest runs.  *)

\* Two commands have the same id only if they are sent without one.
IdsAreOwn ==
    \A c, d \in Commands : ScopeOf[c] = ScopeOf[d] /\ ScopeOf[c] # "default" => c = d

SavedInScope ==
    \A s \in Scopes : checkpoints[s] # NoCommand => ScopeOf[checkpoints[s]] = s

ResultInScope ==
    \A w \in Workers :
        guest[w].result # NoCommand =>
            Cmd(w) \in Commands /\ ScopeOf[guest[w].result] = ScopeOf[Cmd(w)]

StepInv == SavedInScope /\ ResultInScope

\* A step that produces no result: the worker keeps the one it has, or starts
\* or ends its invocation.
NoResult(v) ==
    \/ guest'[v].result = NoCommand
    \/ guest'[v].result = guest[v].result /\ guest'[v].cmd = guest[v].cmd

LEMMA NoResultKeeps ==
    ASSUME StepInv, \A v \in Workers : NoResult(v), UNCHANGED checkpoints
    PROVE  StepInv'
BY DEF StepInv, SavedInScope, ResultInScope, NoResult, Cmd

LEMMA GotoNoResult ==
    ASSUME TypeOK, NEW w \in Workers, NEW pc, Goto(w, pc)
    PROVE  \A v \in Workers : NoResult(v)
BY DEF TypeOK, Goto, NoResult, Invocations

LEMMA FinishNoResult ==
    ASSUME TypeOK, NEW w \in Workers, NEW answer, Finish(w, answer)
    PROVE  \A v \in Workers : NoResult(v)
BY DEF TypeOK, Finish, NoResult, Invocations

LEMMA RaiseNoResult ==
    ASSUME TypeOK, NEW w \in Workers, Raise(w)
    PROVE  \A v \in Workers : NoResult(v)
BY GotoNoResult, FinishNoResult DEF Raise, Err, Throw

LEMMA OrdersNoResult ==
    ASSUME TypeOK, NEW w \in Workers,
           \/ Gate(w) \/ BeginTx(w) \/ SelectWatermark(w) \/ UpsertFresh(w)
           \/ FailUpsert(w) \/ Apply(w)
           \/ Commit(w) \/ DropTransaction(w) \/ LeaveOpen(w)
    PROVE  \A v \in Workers : NoResult(v)
<1>1. CASE Gate(w)
  BY <1>1, GotoNoResult, FinishNoResult DEF Gate, CausalGate, DedupGate
<1>2. CASE BeginTx(w)
  <2>1. CASE TxBegun(w)
    BY <2>1 DEF TxBegun, TypeOK, NoResult, Invocations
  <2> QED
    BY <1>2, <2>1, RaiseNoResult DEF BeginTx
<1>3. CASE SelectWatermark(w)
  BY <1>3, GotoNoResult, FinishNoResult, RaiseNoResult DEF SelectWatermark, StatementFails
<1>4. CASE UpsertFresh(w) \/ FailUpsert(w) \/ Apply(w)
  BY <1>4, GotoNoResult, RaiseNoResult DEF UpsertFresh, FailUpsert, Apply, StatementFails
<1>5. CASE Commit(w)
  <2>1. PICK answer, pc : guest' = [guest EXCEPT ![w].tx = 0, ![w].answer = answer,
                                                 ![w].pc = pc]
    BY <1>5 DEF Commit
  <2> QED
    BY <2>1 DEF TypeOK, NoResult, Invocations
<1>6. CASE DropTransaction(w)
  <2>1. PICK pc : guest' = [guest EXCEPT ![w].tx = 0, ![w].pc = pc]
    BY <1>6 DEF DropTransaction
  <2> QED
    BY <2>1 DEF TypeOK, NoResult, Invocations
<1>7. CASE LeaveOpen(w)
  BY <1>7, FinishNoResult DEF LeaveOpen
<1> QED
  BY <1>1, <1>2, <1>3, <1>4, <1>5, <1>6, <1>7

LEMMA IdleNoResult ==
    ASSUME TypeOK, NEW w \in Workers, NEW x, x.result = NoCommand,
           guest' = [guest EXCEPT ![w] = x]
    PROVE  \A v \in Workers : NoResult(v)
BY DEF TypeOK, NoResult

LEMMA CountNoResult ==
    ASSUME TypeOK, NEW w \in Workers, Act(w) \/ Incr(w) \/ StoreIncr(w)
    PROVE  \A v \in Workers : NoResult(v)
<1>1. CASE Act(w)
  BY <1>1, GotoNoResult, RaiseNoResult DEF Act
<1>2. CASE Incr(w)
  <2>1. CASE guest' = [guest EXCEPT ![w].read = counter, ![w].pc = "store"]
    BY <2>1 DEF TypeOK, NoResult, Invocations
  <2> QED
    BY <1>2, <2>1, FinishNoResult, RaiseNoResult DEF Incr
<1>3. CASE StoreIncr(w)
  BY <1>3, FinishNoResult, RaiseNoResult DEF StoreIncr
<1> QED
  BY <1>1, <1>2, <1>3

\* A step returns a result of its own scope, its own or a saved one.
LEMMA ResultKeeps ==
    ASSUME TypeOK, StepInv, NEW w \in Workers, Cmd(w) \in Commands,
           NEW result, ScopeOf[result] = ScopeOf[Cmd(w)], StepReturns(w, result)
    PROVE  ResultInScope'
<1>1. /\ guest'[w].result = result /\ guest'[w].cmd = guest[w].cmd
      /\ \A v \in Workers \ {w} : guest'[v] = guest[v]
  BY DEF TypeOK, StepReturns, Invocations
<1> QED
  BY <1>1 DEF StepInv, ResultInScope, Cmd

LEMMA LookupOwn ==
    ASSUME IInv, TurnInv, StepInv, NEW w \in Workers, Lookup(w)
    PROVE  StepInv'
<1>1. UNCHANGED checkpoints /\ TypeOK /\ Cmd(w) \in Commands
  BY DEF Lookup, host, TurnInv, IInv, TInv, Employed, At, Cmd
<1>2. CASE StepKnown(w)
  <2>1. inst[w].scope = ScopeOf[Cmd(w)] /\ inst[w].scope \in Scopes
    BY <1>1 DEF Lookup, At, TurnInv, Scoped, TypeOK, Instances
  <2>2. ScopeOf[CheckpointHit(w)] = ScopeOf[Cmd(w)]
    BY <1>2, <2>1 DEF StepKnown, CheckpointHit, StepInv, SavedInScope
  <2>3. ResultInScope'
    BY <1>1, <1>2, <2>2, ResultKeeps DEF StepKnown
  <2> QED
    BY <1>1, <2>3 DEF StepInv, SavedInScope
<1>3. CASE Goto(w, "act")
  BY <1>1, <1>3, GotoNoResult, NoResultKeeps
<1> QED
  BY <1>2, <1>3 DEF Lookup

LEMMA SaveOwn ==
    ASSUME IInv, TurnInv, StepInv, NEW w \in Workers, Save(w)
    PROVE  StepInv'
<1>1. TypeOK /\ inst[w].scope = ScopeOf[Cmd(w)] /\ Cmd(w) \in Commands
  BY DEF Save, At, TurnInv, Scoped, IInv, TInv, Employed, Cmd
<1>2. ResultInScope'
  BY <1>1, ResultKeeps DEF Save
<1>3. SavedInScope'
  BY <1>1 DEF Save, CheckpointSave, StepInv, SavedInScope, TypeOK
<1> QED
  BY <1>2, <1>3 DEF StepInv

LEMMA StepsStep == IInv /\ TurnInv /\ StepInv /\ [Next]_vars => StepInv'
<1> SUFFICES ASSUME IInv, TurnInv, StepInv, [Next]_vars PROVE StepInv'
  OBVIOUS
<1>1. TypeOK
  BY DEF TurnInv
<1>2. ASSUME NEW w \in Workers, Work(w) \/ FailUpsert(w) \/ Trap(w) \/ LeaveOpen(w)
      PROVE  StepInv'
  <2>1. CASE \/ Gate(w) \/ BeginTx(w) \/ SelectWatermark(w) \/ UpsertFresh(w)
             \/ FailUpsert(w) \/ Apply(w)
             \/ Commit(w) \/ DropTransaction(w) \/ LeaveOpen(w)
    <3>1. UNCHANGED checkpoints
      BY <2>1 DEF Gate, BeginTx, SelectWatermark, UpsertFresh, FailUpsert, Apply, Commit,
                  DropTransaction, LeaveOpen, host
    <3> QED
      BY <1>1, <2>1, <3>1, OrdersNoResult, NoResultKeeps
  <2>2. CASE Return(w) \/ Trap(w)
    <3>1. guest' = [guest EXCEPT ![w] = Idle] /\ UNCHANGED checkpoints
      BY <2>2 DEF Return, Trap
    <3>2. Idle.result = NoCommand
      BY DEF Idle
    <3> HIDE DEF Idle
    <3> QED
      BY <1>1, <3>1, <3>2, IdleNoResult, NoResultKeeps
  <2>3. CASE Act(w) \/ Incr(w) \/ StoreIncr(w)
    <3>1. UNCHANGED checkpoints
      BY <2>3 DEF Act, Incr, StoreIncr, host
    <3> QED
      BY <1>1, <2>3, <3>1, CountNoResult, NoResultKeeps
  <2> QED
    BY <1>2, <2>1, <2>2, <2>3, LookupOwn, SaveOwn DEF Work
<1>3. ASSUME NEW w \in Workers, NEW cmd \in Commands, Invoke(w, cmd) PROVE StepInv'
  <2> DEFINE x == [Idle EXCEPT !.pc = Entry, !.cmd = cmd]
  <2>1. guest' = [guest EXCEPT ![w] = x] /\ UNCHANGED checkpoints
    BY <1>3 DEF Invoke
  <2>2. x.result = NoCommand
    BY DEF Idle
  <2> HIDE DEF x
  <2> QED
    BY <1>1, <2>1, <2>2, IdleNoResult, NoResultKeeps
<1>4. ASSUME NEW s \in Scopes, ExpireCheckpoint(s) PROVE StepInv'
  BY <1>1, <1>4 DEF ExpireCheckpoint, Expire, StepInv, SavedInScope, ResultInScope,
                    TypeOK, Cmd
<1>5. ASSUME UNCHANGED <<guest, checkpoints>> PROVE StepInv'
  BY <1>5 DEF StepInv, SavedInScope, ResultInScope, Cmd
<1>6. ASSUME NEW c \in Conns, Release(c) PROVE StepInv'
  BY <1>5, <1>6 DEF Release, host
<1> QED
  BY <1>2, <1>3, <1>4, <1>5, <1>6 DEF Next, vars, host

LEMMA StepsInScope == Spec => []StepInv
<1>1. Init => StepInv
  BY DEF Init, HostInit, Idle, StepInv, SavedInScope, ResultInScope
<1> QED
  BY <1>1, Inductive, InductiveInTurns, StepsStep, PTL DEF Spec

\* If command ids are their own, a durable step of a command that has one gives
\* it the result of its own effect, whatever ran on the pooled instance before,
\* however often the command comes again, and whichever workers overlap.
THEOREM StepsAreOwn ==
    ASSUME IdsAreOwn
    PROVE  Spec => []StepOfIdentifiedIsOwn
<1>1. TypeOK /\ TurnInv /\ StepInv => StepOfIdentifiedIsOwn
  <2> SUFFICES ASSUME TypeOK, TurnInv, StepInv, NEW w \in Workers,
                      guest[w].result # NoCommand, ScopeOf[Cmd(w)] # "default"
               PROVE  guest[w].result = Cmd(w)
    BY DEF StepOfIdentifiedIsOwn
  <2>1. /\ guest[w].result \in Commands /\ Cmd(w) \in Commands
        /\ ScopeOf[guest[w].result] = ScopeOf[Cmd(w)]
    BY DEF TypeOK, Invocations, StepInv, ResultInScope
  <2> QED
    BY <2>1 DEF IdsAreOwn
<1>2. TurnInv => TypeOK
  BY DEF TurnInv
<1> QED
  BY <1>1, <1>2, InductiveInTurns, StepsInScope, PTL

-----------------------------------------------------------------------------
(* Stamps and watermarks.  The verdict of evaluate_causality on a stamp and  *)
(* the WHERE clause of the upsert agree on stamps that all readers parse to  *)
(* the same pair, and order them as pairs of numbers.                        *)

\* Every stamp is one that an HLC prints: digits, a dot, digits, in range.
StampsAgree ==
    /\ Stamps \subseteq Dotted
    /\ \A s \in Stamps : Parses("rust", s) /\ Clock["sql"][s] = Clock["rust"][s]

Newer(s, t) == Evaluate("rust", s, t) = "Fresh"

Reached(cmd) ==
    /\ watermark[EntityOf[cmd]] # NoStamp
    /\ ~Newer(StampOf[cmd], watermark[EntityOf[cmd]])

\* What a step may do to a watermark.
Grown(e) ==
    \/ watermark'[e] = watermark[e]
    \/ /\ watermark'[e] \in Stamps
       /\ watermark[e] = NoStamp \/ Newer(watermark'[e], watermark[e])

Marked(c) == conns[c].mark # "none"

\* A transaction that has upserted the watermark has its row for itself, so
\* that what the upsert found stands until the transaction ends.
Locks ==
    \A c \in Conns : Marked(c) =>
        /\ conns[c].for \in Commands
        /\ conns[c].mark = "written" <=> ~Reached(conns[c].for)
        /\ \A d \in Conns : Marked(d) /\ EntityOf[conns[d].for] = EntityOf[conns[c].for]
                            => d = c

RustInTurns == language = "rust" /\ ~overlap
OwnConn(w) == conns[HostConn(w, Tx(w))]

\* What a worker's place in the program says of its transaction and its answer.
Claim(w) ==
    /\ guest[w].pc = "idle" => guest[w].answer = "none"
    /\ guest[w].pc \in {"apply", "commit"} =>
          Held(w, Tx(w)) /\ ~OwnConn(w).aborted /\ OwnConn(w).mark # "none"
    /\ program = "orders" =>
          /\ guest[w].pc \notin {"lookup", "act", "save", "count", "store"}
          /\ guest[w].answer \in {"ack", "ignored"} => Reached(Cmd(w))
    /\ RustInTurns =>
          /\ guest[w].pc \in {"upsert", "apply", "commit"} => ~Reached(Cmd(w))
          /\ guest[w].pc = "commit" => OwnConn(w).wrote

OrderInv ==
    /\ Locks
    /\ \A w \in Workers : Claim(w)
    /\ \A cmd \in settled : Reached(cmd)
    /\ NewestWinsInTurns

LEMMA NewerIsBefore ==
    ASSUME StampsAgree, NEW s \in Stamps, NEW t \in Stamps
    PROVE  /\ Newer(s, t) <=> Before(Clock["rust"][t], Clock["rust"][s])
           /\ SqlOlder(t, s) <=> Newer(s, t)
<1> DEFINE a == Clock["rust"][s]
           b == Clock["rust"][t]
<1>1. a \in Nat \X Nat /\ b \in Nat \X Nat
  BY StampAssumption DEF StampsAgree, Parses, Readers
<1>2. Parses("rust", s) /\ Parses("rust", t)
  BY DEF StampsAgree
<1>3. Newer(s, t) <=> (CASE Before(a, b) -> "Stale"
                        [] Before(b, a) -> "Fresh"
                        [] OTHER -> "Duplicate") = "Fresh"
  BY <1>2 DEF Newer, Evaluate
<1>4. SqlOlder(t, s) <=> Before(b, a)
  BY DEF SqlOlder, StampsAgree
<1> HIDE DEF a, b
<1>5. ~(Before(a, b) /\ Before(b, a))
  BY <1>1 DEF Before
<1>6. Newer(s, t) <=> Before(b, a)
  BY <1>3, <1>5
<1> QED
  BY <1>4, <1>6 DEF a, b

\* A strict order in which incomparable stamps are equal: Newer is irreflexive,
\* and what is not newer than one stamp is not newer than one that is newer.
LEMMA NewerOrders ==
    ASSUME StampsAgree, NEW s \in Stamps
    PROVE  /\ ~Newer(s, s)
           /\ \A t, u \in Stamps : ~Newer(s, t) /\ Newer(u, t) => ~Newer(s, u)
<1>1. \A t \in Stamps : Clock["rust"][t] \in Nat \X Nat
  BY StampAssumption DEF StampsAgree, Parses, Readers
<1>2. ~Newer(s, s)
  BY <1>1, NewerIsBefore DEF Before
<1>3. ASSUME NEW t \in Stamps, NEW u \in Stamps, ~Newer(s, t), Newer(u, t)
      PROVE  ~Newer(s, u)
  BY <1>1, <1>3, NewerIsBefore DEF Before
<1> QED
  BY <1>2, <1>3

LEMMA ReachedStays ==
    ASSUME StampsAgree, DatabaseTyped, \A e \in Entities : Grown(e),
           NEW cmd \in Commands, Reached(cmd)
    PROVE  Reached(cmd)'
<1> DEFINE e == EntityOf[cmd]
           s == StampOf[cmd]
<1>1. e \in Entities /\ s \in Stamps /\ watermark[e] \in Stamps
  BY DatabaseAssumption DEF DatabaseTyped, Reached
<1>2. CASE watermark'[e] = watermark[e]
  BY <1>2 DEF Reached
<1>3. CASE watermark'[e] \in Stamps /\ Newer(watermark'[e], watermark[e])
  BY <1>1, <1>3, NewerOrders, StampAssumption DEF Reached
<1> QED
  BY <1>1, <1>2, <1>3, StampAssumption DEF Grown, Reached

-----------------------------------------------------------------------------
(* The database *)

DatabaseKeeps == Locks' /\ \A e \in Entities : Grown(e)

\* Transactions begin, go on, abort, or end without effect.
LEMMA MarksFade ==
    ASSUME Locks, UNCHANGED watermark,
           \A d \in Conns : \/ conns'[d].mark = "none"
                            \/ /\ conns'[d].mark = conns[d].mark
                               /\ conns'[d].for = conns[d].for
    PROVE  DatabaseKeeps
BY DEF Locks, Marked, Reached, DatabaseKeeps, Grown

LEMMA UpsertLocks ==
    ASSUME StampsAgree, DatabaseTyped, Locks, NEW c \in Conns, conns[c].at = "tx",
           UpsertWatermark(c)
    PROVE  /\ DatabaseKeeps
           /\ conns'[c].mark # "none" /\ ~conns'[c].aborted
           /\ conns'[c].mark = "written" <=> ~Reached(conns[c].for)
           /\ UNCHANGED watermark /\ conns'[c].for = conns[c].for
<1> DEFINE cmd == conns[c].for
           e == EntityOf[cmd]
           s == StampOf[cmd]
           mark == IF watermark[e] = NoStamp \/ SqlOlder(watermark[e], s)
                   THEN "written" ELSE "locked"
<1>1. cmd \in Commands /\ e \in Entities /\ s \in Stamps
      /\ watermark[e] \in Stamps \cup {NoStamp}
  BY DatabaseAssumption DEF DatabaseTyped
<1>2. mark = "written" <=> ~Reached(cmd)
  BY <1>1, NewerIsBefore DEF Reached
<1>3. /\ conns' = [conns EXCEPT ![c].mark = mark] /\ UNCHANGED watermark
      /\ ~conns[c].aborted
      /\ \A d \in Conns \ {c} : Marked(d) => EntityOf[conns[d].for] # e
  BY DEF UpsertWatermark, RowLocked, Marked
<1> HIDE DEF mark
<1>4. /\ conns'[c].mark = mark /\ conns'[c].for = cmd /\ ~conns'[c].aborted
      /\ \A d \in Conns \ {c} : conns'[d] = conns[d]
  BY <1>3 DEF DatabaseTyped, Connections
<1>5. mark # "none"
  BY DEF mark
<1>6. Locks'
  BY <1>1, <1>2, <1>3, <1>4 DEF Locks, Marked, Reached
<1> QED
  BY <1>2, <1>3, <1>4, <1>5, <1>6 DEF DatabaseKeeps, Grown

LEMMA CommitLocks ==
    ASSUME StampsAgree, DatabaseTyped, Locks, NEW c \in Conns, CommitTx(c),
           NEW cmd, cmd = conns[c].for
    PROVE  /\ DatabaseKeeps
           /\ ~conns[c].aborted /\ Marked(c) => Reached(cmd)'
<1> DEFINE e == EntityOf[cmd]
           s == StampOf[cmd]
<1>1. conns' = [conns EXCEPT ![c] = Resting] /\ Resting.mark = "none"
  BY DEF CommitTx, Resting
<1>2. /\ ~Marked(c)' /\ \A d \in Conns \ {c} : conns'[d] = conns[d]
  BY <1>1 DEF DatabaseTyped, Marked
<1>3. CASE ~conns[c].aborted /\ conns[c].mark = "written"
  <2>1. watermark' = [watermark EXCEPT ![e] = s]
    BY <1>3 DEF CommitTx
  <2>2. /\ cmd \in Commands /\ e \in Entities /\ s \in Stamps
        /\ watermark[e] \in Stamps \cup {NoStamp}
        /\ watermark[e] = NoStamp \/ Newer(s, watermark[e])
    BY <1>3, DatabaseAssumption DEF Locks, Marked, Reached, DatabaseTyped
  <2>3. watermark'[e] = s /\ \A d \in Entities \ {e} : watermark'[d] = watermark[d]
    BY <2>1, <2>2 DEF DatabaseTyped
  <2>4. \A d \in Entities : Grown(d)
    BY <2>2, <2>3 DEF Grown
  <2>5. Reached(cmd)'
    BY <2>2, <2>3, NewerOrders, StampAssumption DEF Reached
  <2>6. \A k \in Commands : EntityOf[k] # e => (Reached(k)' <=> Reached(k))
    BY <2>3, DatabaseAssumption DEF Reached
  <2>7. Locks'
    <3> SUFFICES ASSUME NEW d \in Conns, Marked(d)', NEW k, k = conns[d].for
                 PROVE  /\ conns'[d] = conns[d]
                        /\ k \in Commands
                        /\ conns[d].mark = "written" <=> ~Reached(k)'
                        /\ \A b \in Conns : Marked(b)' /\ EntityOf[conns'[b].for] = EntityOf[k]
                                            => b = d
      BY DEF Locks
    <3>1. d # c /\ conns'[d] = conns[d] /\ Marked(d)
      BY <1>2 DEF Marked
    <3>2. /\ k \in Commands /\ EntityOf[k] # e
          /\ conns[d].mark = "written" <=> ~Reached(k)
      BY <1>3, <3>1 DEF Locks, Marked
    <3>3. \A b \in Conns : Marked(b)' => b # c /\ conns'[b] = conns[b] /\ Marked(b)
      BY <1>2 DEF Marked
    <3> QED
      BY <2>6, <3>1, <3>2, <3>3 DEF Locks
  <2> QED
    BY <2>4, <2>5, <2>7 DEF DatabaseKeeps
<1>4. CASE conns[c].aborted \/ conns[c].mark # "written"
  <2>1. UNCHANGED watermark
    BY <1>4 DEF CommitTx
  <2>2. DatabaseKeeps
    BY <1>2, <2>1, MarksFade DEF Marked
  <2>3. ~conns[c].aborted /\ Marked(c) => Reached(cmd)
    BY <1>4 DEF Locks
  <2> QED
    BY <2>1, <2>2, <2>3 DEF Reached
<1> QED
  BY <1>3, <1>4

-----------------------------------------------------------------------------
(* The workers.  Each step is one worker's, on a connection that is its own, *)
(* so the others' transactions stand; and what they answered stays true,     *)
(* because watermarks only grow.                                             *)

\* Parts of the invariants that the steps below rely on.
LEMMA PartsHold ==
    ASSUME IInv, TurnInv
    PROVE  /\ DatabaseTyped /\ HostTyped /\ GuestTyped /\ HistoryTyped /\ OInv
           /\ ~overlap => \A v, w \in Workers :
                             guest[v].pc # "idle" /\ guest[w].pc # "idle" => v = w
BY TypedInParts DEF IInv, TurnInv, Turns, At

\* Worker w has done what it did: with its guest, its instance, the connections
\* of its own, and the watermarks.
Alone(w) ==
    /\ \A v \in Workers \ {w} : guest'[v] = guest[v] /\ inst'[v] = inst[v]
    /\ \A d \in Conns : conns[d].at = "tx" /\ d \notin OpenConns(inst[w])
                        => conns'[d] = conns[d]
    /\ DatabaseKeeps
    /\ UNCHANGED settings

LEMMA OthersClaim ==
    ASSUME StampsAgree, IInv, TurnInv, OrderInv, NEW w \in Workers, Alone(w),
           ~overlap => \A u \in Workers \ {w} : guest[u].pc = "idle",
           NEW v \in Workers \ {w}
    PROVE  Claim(v)'
<1>1. DatabaseTyped /\ HostTyped /\ GuestTyped /\ OInv
  BY PartsHold
<1>2. guest'[v] = guest[v] /\ inst'[v] = inst[v] /\ UNCHANGED settings
  BY DEF Alone
<1>3. Claim(v)
  BY DEF OrderInv
<1>4. HostConn(v, Tx(v))' = HostConn(v, Tx(v)) /\ Held(v, Tx(v))' = Held(v, Tx(v))
  BY <1>2 DEF HostConn, Held, Tx
<1>5. Held(v, Tx(v)) => OwnConn(v)' = OwnConn(v)
  <2> SUFFICES ASSUME Held(v, Tx(v)) PROVE OwnConn(v)' = OwnConn(v)
    OBVIOUS
  <2>1. /\ HostConn(v, Tx(v)) \in Conns /\ conns[HostConn(v, Tx(v))].at = "tx"
        /\ HostConn(v, Tx(v)) \in OpenConns(inst[v])
    BY <1>1, HeldIsConn, HeldIsOpen
  <2>2. HostConn(v, Tx(v)) \notin OpenConns(inst[w])
    BY <1>1, <2>1 DEF OInv, HandlesAreOwn
  <2> QED
    BY <1>4, <2>1, <2>2 DEF Alone, OwnConn
<1>6. ASSUME NEW k, k = Cmd(v), guest[v].answer \in {"ack", "ignored"}, program = "orders"
      PROVE  Reached(k)'
  <2>1. Reached(k)
    BY <1>3, <1>6 DEF Claim
  <2>2. k \in Commands
    BY <1>1, <1>3, <1>6 DEF Claim, GuestTyped, Cmd
  <2> QED
    BY <1>1, <2>1, <2>2, ReachedStays DEF Alone, DatabaseKeeps
<1>7. Cmd(v)' = Cmd(v)
  BY <1>2 DEF Cmd
<1>8. program = "orders" => /\ guest[v].pc \notin {"lookup", "act", "save", "count", "store"}
                            /\ guest[v].answer \in {"ack", "ignored"} => Reached(Cmd(v))'
  BY <1>3, <1>6, <1>7 DEF Claim, Reached
<1>9. RustInTurns => guest[v].pc = "idle"
  BY DEF RustInTurns
<1> QED
  BY <1>2, <1>3, <1>4, <1>5, <1>8, <1>9 DEF Claim, RustInTurns, settings

\* A step by which nothing is settled.
LEMMA AloneKeeps ==
    ASSUME StampsAgree, IInv, TurnInv, OrderInv, NEW w \in Workers, Alone(w),
           ~overlap => \A u \in Workers \ {w} : guest[u].pc = "idle",
           Claim(w)', NewestWinsInTurns',
           \/ settled' = settled
           \/ settled' = settled \cup {Cmd(w)} /\ Reached(Cmd(w)) /\ UNCHANGED watermark
    PROVE  OrderInv'
<1>1. DatabaseTyped /\ HistoryTyped
  BY PartsHold
<1>2. \A cmd \in settled : Reached(cmd)'
  <2> SUFFICES ASSUME NEW cmd \in settled PROVE Reached(cmd)'
    OBVIOUS
  <2>1. Reached(cmd) /\ cmd \in Commands
    BY <1>1 DEF OrderInv, HistoryTyped
  <2> QED
    BY <1>1, <2>1, ReachedStays DEF Alone, DatabaseKeeps
<1>3. \A cmd \in settled' : Reached(cmd)'
  <2>1. CASE settled' = settled
    BY <1>2, <2>1
  <2>2. CASE settled' = settled \cup {Cmd(w)} /\ Reached(Cmd(w)) /\ UNCHANGED watermark
    <3>1. \A k : Reached(k)' <=> Reached(k)
      BY <2>2 DEF Reached
    <3> QED
      BY <1>2, <2>2, <3>1
  <2> QED
    BY <2>1, <2>2
<1>4. \A v \in Workers : Claim(v)'
  BY OthersClaim
<1> QED
  BY <1>3, <1>4 DEF OrderInv, Alone, DatabaseKeeps

\* Nothing is committed.
LEMMA NewestStays ==
    ASSUME OrderInv, UNCHANGED <<watermark, row, settings>>
    PROVE  NewestWinsInTurns'
BY DEF OrderInv, NewestWinsInTurns, settings

\* A worker goes where nothing is claimed of its transaction, and takes no
\* answer that needs a cause.
LEMMA PlainClaim ==
    ASSUME OrderInv, NEW w \in Workers, UNCHANGED <<watermark, settings>>,
           guest'[w].cmd = guest[w].cmd,
           guest'[w].pc \notin {"idle", "upsert", "apply", "commit"},
           program = "orders" =>
              /\ guest'[w].pc \notin {"lookup", "act", "save", "count", "store"}
              /\ guest'[w].answer = guest[w].answer \/ guest'[w].answer \notin {"ack", "ignored"}
    PROVE  Claim(w)'
<1>1. Claim(w)
  BY DEF OrderInv
<1>2. Reached(Cmd(w))' <=> Reached(Cmd(w))
  BY DEF Reached, Cmd
<1> QED
  BY <1>1, <1>2 DEF Claim, RustInTurns, settings

\* A worker at work is the only one, in turns.
LEMMA BusyAlone ==
    ASSUME IInv, TurnInv, NEW w \in Workers, guest[w].pc # "idle"
    PROVE  ~overlap => \A u \in Workers \ {w} : guest[u].pc = "idle"
BY PartsHold

\* A step of a busy worker that leaves the committed tables alone.
LEMMA WorkKeeps ==
    ASSUME StampsAgree, IInv, TurnInv, OrderInv, NEW w \in Workers,
           guest[w].pc # "idle", Alone(w), Claim(w)',
           UNCHANGED <<watermark, row, settled>>
    PROVE  OrderInv'
<1>1. NewestWinsInTurns'
  BY NewestStays DEF Alone
<1> QED
  BY <1>1, BusyAlone, AloneKeeps

\* The database and the instances are left alone.
LEMMA QuietAlone ==
    ASSUME OrderInv, NEW w \in Workers,
           \A v \in Workers \ {w} : guest'[v] = guest[v],
           \A v \in Workers \ {w} : inst'[v] = inst[v],
           UNCHANGED <<conns, watermark, settings>>
    PROVE  Alone(w)
BY MarksFade DEF OrderInv, Alone

\* What the SDK calls do to a guest.
LEMMA GotoFields ==
    ASSUME GuestTyped, NEW w \in Workers, NEW pc, Goto(w, pc)
    PROVE  /\ guest'[w].pc = pc /\ guest'[w].cmd = guest[w].cmd
           /\ guest'[w].answer = guest[w].answer /\ guest'[w].tx = guest[w].tx
           /\ \A v \in Workers \ {w} : guest'[v] = guest[v]
BY DEF GuestTyped, Goto, Invocations

LEMMA FinishFields ==
    ASSUME GuestTyped, NEW w \in Workers, NEW answer, Finish(w, answer)
    PROVE  /\ guest'[w].pc \in {"drop", "return"} /\ guest'[w].cmd = guest[w].cmd
           /\ guest'[w].answer = answer
           /\ \A v \in Workers \ {w} : guest'[v] = guest[v]
BY DEF GuestTyped, Finish, Invocations

LEMMA RaiseFields ==
    ASSUME GuestTyped, NEW w \in Workers, Raise(w)
    PROVE  /\ guest'[w].pc \in {"drop", "return", "throw"} /\ guest'[w].cmd = guest[w].cmd
           /\ guest'[w].answer \in {guest[w].answer, "nack"}
           /\ \A v \in Workers \ {w} : guest'[v] = guest[v]
BY GotoFields, FinishFields DEF Raise, Err, Throw

\* The connection of a worker's transaction is its own to change.
LEMMA OwnAlone ==
    ASSUME IInv, NEW w \in Workers, Held(w, Tx(w)),
           \A d \in Conns \ {HostConn(w, Tx(w))} : conns'[d] = conns[d],
           \A v \in Workers \ {w} : guest'[v] = guest[v],
           \A v \in Workers \ {w} : inst'[v] = inst[v],
           DatabaseKeeps, UNCHANGED settings
    PROVE  Alone(w)
<1>1. HostConn(w, Tx(w)) \in OpenConns(inst[w])
  BY HeldIsOpen DEF IInv
<1> QED
  BY <1>1 DEF Alone

LEMMA FailedOrder ==
    ASSUME StampsAgree, IInv, TurnInv, OrderInv, NEW w \in Workers,
           guest[w].pc # "idle", StatementFails(w), UNCHANGED <<settings, settled>>
    PROVE  OrderInv'
<1> DEFINE c == HostConn(w, Tx(w))
<1>1. DatabaseTyped /\ HostTyped /\ GuestTyped
  BY PartsHold
<1>2. Held(w, Tx(w)) /\ (Refuse(c) \/ Abort(c)) /\ UNCHANGED inst /\ Raise(w)
  BY DEF StatementFails, HostStatementFails
<1>3. c \in Conns
  BY <1>1, <1>2, HeldIsConn
<1> HIDE DEF c
<1>4. /\ UNCHANGED <<watermark, row>>
      /\ \A d \in Conns : conns'[d].mark = conns[d].mark /\ conns'[d].for = conns[d].for
      /\ \A d \in Conns \ {c} : conns'[d] = conns[d]
  <2>1. CASE Refuse(c)
    BY <2>1 DEF Refuse, database
  <2>2. CASE Abort(c)
    BY <1>1, <1>3, <2>2 DEF Abort, DatabaseTyped, Connections
  <2> QED
    BY <1>2, <2>1, <2>2
<1>5. DatabaseKeeps
  BY <1>4, MarksFade DEF OrderInv
<1>6. Alone(w)
  BY <1>1, <1>2, <1>4, <1>5, RaiseFields, OwnAlone DEF c
<1>7. Claim(w)'
  BY <1>1, <1>2, <1>4, RaiseFields, PlainClaim
<1> QED
  BY <1>4, <1>6, <1>7, WorkKeeps

LEMMA InvokeOrder ==
    ASSUME StampsAgree, IInv, TurnInv, OrderInv, NEW w \in Workers, NEW cmd \in Commands,
           Invoke(w, cmd)
    PROVE  OrderInv'
<1>1. DatabaseTyped /\ HostTyped /\ GuestTyped /\ HistoryTyped
  BY PartsHold
<1>2. /\ guest'[w].pc = Entry /\ guest'[w].answer = "none"
      /\ \A v \in Workers \ {w} : guest'[v] = guest[v]
  BY <1>1 DEF Invoke, GuestTyped, Idle
<1>3. \A v \in Workers \ {w} : inst'[v] = inst[v]
  BY <1>1 DEF Invoke, Checkout, HostTyped
<1>4. UNCHANGED <<conns, watermark, row, settled, settings>>
  BY DEF Invoke, database
<1>5. Alone(w)
  BY <1>2, <1>3, <1>4, QuietAlone
<1>6. /\ Entry \notin {"idle", "upsert", "apply", "commit"}
      /\ program = "orders" => Entry \notin {"lookup", "act", "save", "count", "store"}
  BY <1>1 DEF Entry, HistoryTyped, Programs
<1>7. Claim(w)'
  BY <1>2, <1>4, <1>6 DEF Claim, settings
<1>8. ~overlap => \A u \in Workers \ {w} : guest[u].pc = "idle"
  BY DEF Invoke, At
<1>9. NewestWinsInTurns'
  BY <1>4, NewestStays
<1> QED
  BY <1>4, <1>5, <1>7, <1>8, <1>9, AloneKeeps

\* A worker whose invocation ends: its answer, if it settles the command, has
\* been true since it was given.
LEMMA LeaveOrder ==
    ASSUME StampsAgree, IInv, TurnInv, OrderInv, NEW w \in Workers, Return(w) \/ Trap(w)
    PROVE  OrderInv'
<1>1. DatabaseTyped /\ HostTyped /\ GuestTyped /\ guest[w].pc # "idle"
  BY PartsHold DEF Return, Trap, At
<1>2. /\ DropTx(OpenConns(inst[w])) /\ inst' = [inst EXCEPT ![w] = NewInstance]
      /\ guest' = [guest EXCEPT ![w] = Idle] /\ UNCHANGED settings
  BY DEF Return, Trap, PutBack, Discard
<1>3. /\ UNCHANGED <<watermark, row>>
      /\ \A d \in Conns : conns'[d].mark = conns[d].mark /\ conns'[d].for = conns[d].for
      /\ \A d \in Conns : d \notin OpenConns(inst[w]) => conns'[d] = conns[d]
  BY <1>1, <1>2 DEF DropTx, DatabaseTyped, Connections
<1>4. DatabaseKeeps
  BY <1>3, MarksFade DEF OrderInv
<1>5. /\ guest'[w] = Idle
      /\ \A v \in Workers \ {w} : guest'[v] = guest[v] /\ inst'[v] = inst[v]
  BY <1>1, <1>2 DEF GuestTyped, HostTyped
<1>6. Alone(w)
  BY <1>2, <1>3, <1>4, <1>5 DEF Alone
<1>7. Claim(w)'
  BY <1>5 DEF Claim, Idle
<1>8. NewestWinsInTurns'
  BY <1>2, <1>3, NewestStays
<1>9. \/ settled' = settled
      \/ settled' = settled \cup {Cmd(w)} /\ Reached(Cmd(w))
  <2>1. CASE Return(w)
    BY <2>1 DEF Return, OrderInv, Claim
  <2>2. CASE Trap(w)
    BY <2>2 DEF Trap
  <2> QED
    BY <2>1, <2>2
<1> QED
  BY <1>1, <1>3, <1>6, <1>7, <1>8, <1>9, BusyAlone, AloneKeeps

LEMMA GateOrder ==
    ASSUME StampsAgree, IInv, TurnInv, OrderInv, NEW w \in Workers, Gate(w)
    PROVE  OrderInv'
<1>1. DatabaseTyped /\ HostTyped /\ GuestTyped /\ guest[w].pc # "idle"
  BY PartsHold DEF Gate, At
<1>2. UNCHANGED <<conns, watermark, row, settled, settings>>
  BY DEF Gate, database, history
<1>3. Goto(w, "begin") \/ Finish(w, "discarded")
  BY DEF Gate, CausalGate, DedupGate
<1>4. \A v \in Workers \ {w} : inst'[v] = inst[v]
  BY <1>1 DEF Gate, CausalGate, DedupGate, HostTyped
<1>5. Alone(w)
  BY <1>1, <1>2, <1>3, <1>4, GotoFields, FinishFields, QuietAlone
<1>6. Claim(w)'
  BY <1>1, <1>2, <1>3, GotoFields, FinishFields, PlainClaim
<1> QED
  BY <1>1, <1>2, <1>5, <1>6, WorkKeeps

LEMMA BeginOrder ==
    ASSUME StampsAgree, IInv, TurnInv, OrderInv, NEW w \in Workers, BeginTx(w)
    PROVE  OrderInv'
<1>1. DatabaseTyped /\ HostTyped /\ GuestTyped /\ guest[w].pc # "idle"
  BY PartsHold DEF BeginTx, At
<1>2. UNCHANGED <<watermark, row, settled, settings>>
  BY DEF BeginTx, TxBegun, HostBegin, Connect, ConnectFails, database, history
<1>3. CASE TxBegun(w)
  <2>1. PICK c \in Conns :
          /\ HostBegin(w, c, Cmd(w))
          /\ guest' = [guest EXCEPT ![w].pc = "select", ![w].tx = inst[w].next]
    BY <1>3 DEF TxBegun
  <2>2. /\ conns[c].at = "pool" /\ conns'[c].mark = "none"
        /\ \A d \in Conns \ {c} : conns'[d] = conns[d]
    BY <1>1, <2>1 DEF HostBegin, Connect, Resting, DatabaseTyped
  <2>3. DatabaseKeeps
    BY <1>2, <2>2, MarksFade DEF OrderInv
  <2>4. /\ guest'[w].pc = "select" /\ guest'[w].cmd = guest[w].cmd
        /\ guest'[w].answer = guest[w].answer
        /\ \A v \in Workers \ {w} : guest'[v] = guest[v]
    BY <1>1, <2>1 DEF GuestTyped, Invocations
  <2>5. \A v \in Workers \ {w} : inst'[v] = inst[v]
    BY <1>1, <2>1 DEF HostBegin, HostTyped
  <2>6. Alone(w)
    BY <1>2, <2>2, <2>3, <2>4, <2>5 DEF Alone
  <2>7. Claim(w)'
    BY <1>2, <2>4, PlainClaim
  <2> QED
    BY <1>1, <1>2, <2>6, <2>7, WorkKeeps
<1>4. CASE ConnectFails /\ Raise(w) /\ UNCHANGED inst
  <2>1. UNCHANGED conns
    BY <1>4 DEF ConnectFails, database
  <2>2. Alone(w)
    BY <1>1, <1>2, <1>4, <2>1, RaiseFields, QuietAlone
  <2>3. Claim(w)'
    BY <1>1, <1>2, <1>4, RaiseFields, PlainClaim
  <2> QED
    BY <1>1, <1>2, <2>2, <2>3, WorkKeeps
<1> QED
  BY <1>3, <1>4 DEF BeginTx

\* The verdict of the SELECT is the truth, as of now.
LEMMA SelectOrder ==
    ASSUME StampsAgree, IInv, TurnInv, OrderInv, NEW w \in Workers, SelectWatermark(w)
    PROVE  OrderInv'
<1>1. DatabaseTyped /\ HostTyped /\ GuestTyped /\ HistoryTyped /\ guest[w].pc = "select"
  BY PartsHold DEF SelectWatermark, At
<1>2. UNCHANGED <<settled, settings, inst>>
  BY DEF SelectWatermark, history
<1>3. CASE StatementFails(w)
  BY <1>1, <1>2, <1>3, FailedOrder
<1>4. CASE HostQuery(w, Tx(w)) /\ IF Verdict(Cmd(w)) = "Fresh" THEN Goto(w, "upsert")
                                  ELSE Finish(w, "ignored")
  <2>1. UNCHANGED <<conns, watermark, row>>
    BY <1>4 DEF HostQuery, database
  <2>2. Alone(w)
    BY <1>1, <1>2, <1>4, <2>1, GotoFields, FinishFields, QuietAlone
  <2>3. Reached(Cmd(w))' <=> Reached(Cmd(w))
    BY <1>1, <1>4, <2>1, GotoFields, FinishFields DEF Reached, Cmd
  <2>4. CASE Verdict(Cmd(w)) = "Fresh"
    <3>1. Goto(w, "upsert")
      BY <1>4, <2>4
    <3>2. /\ guest'[w].pc = "upsert" /\ guest'[w].answer = guest[w].answer
      BY <1>1, <3>1, GotoFields
    <3>3. language = "rust" => ~Reached(Cmd(w))
      BY <2>4 DEF Verdict, Found, Reached, Newer
    <3>4. Claim(w)
      BY DEF OrderInv
    <3>5. Claim(w)'
      BY <1>2, <2>3, <3>2, <3>3, <3>4 DEF Claim, RustInTurns, settings
    <3> QED
      BY <1>1, <1>2, <2>1, <2>2, <3>5, WorkKeeps
  <2>5. CASE Verdict(Cmd(w)) # "Fresh"
    <3>1. guest'[w].pc \in {"drop", "return"}
      BY <1>1, <1>4, <2>5, FinishFields
    <3>2. Reached(Cmd(w))
      BY <2>5 DEF Verdict, Found, Reached, Newer
    <3>3. Claim(w)'
      BY <2>3, <3>1, <3>2 DEF Claim
    <3> QED
      BY <1>1, <1>2, <2>1, <2>2, <3>3, WorkKeeps
  <2> QED
    BY <2>4, <2>5
<1> QED
  BY <1>3, <1>4 DEF SelectWatermark

LEMMA UpsertOrder ==
    ASSUME StampsAgree, IInv, TurnInv, OrderInv, NEW w \in Workers, UpsertFresh(w)
    PROVE  OrderInv'
<1> DEFINE c == HostConn(w, Tx(w))
<1>1. DatabaseTyped /\ HostTyped /\ GuestTyped /\ OInv /\ guest[w].pc = "upsert"
  BY PartsHold DEF UpsertFresh, At
<1>2. UNCHANGED <<settled, settings>>
  BY DEF UpsertFresh, history
<1>3. CASE StatementFails(w)
  BY <1>1, <1>2, <1>3, FailedOrder
<1>4. CASE HostUpsert(w, Tx(w)) /\ Goto(w, "apply")
  <2>1. Held(w, Tx(w)) /\ UpsertWatermark(c) /\ UNCHANGED inst /\ Goto(w, "apply")
    BY <1>4 DEF HostUpsert
  <2>2. c \in Conns /\ conns[c].at = "tx" /\ conns[c].for = Cmd(w)
    <3>1. Tx(w) # 0
      BY <2>1, HeldIsOpen, <1>1 DEF Handles
    <3> QED
      BY <1>1, <2>1, <3>1, HeldIsConn DEF OInv, HandlesAreOwn
  <2> HIDE DEF c
  <2>3. /\ DatabaseKeeps /\ conns'[c].mark # "none" /\ ~conns'[c].aborted
        /\ UNCHANGED watermark
    BY <1>1, <2>1, <2>2, UpsertLocks DEF OrderInv
  <2>4. /\ UNCHANGED row /\ \A d \in Conns \ {c} : conns'[d] = conns[d]
    BY <1>1, <2>1 DEF UpsertWatermark, DatabaseTyped
  <2>5. /\ guest'[w].pc = "apply" /\ guest'[w].cmd = guest[w].cmd
        /\ guest'[w].answer = guest[w].answer /\ guest'[w].tx = guest[w].tx
        /\ \A v \in Workers \ {w} : guest'[v] = guest[v]
    BY <1>1, <2>1, GotoFields
  <2>6. Alone(w)
    BY <1>2, <2>1, <2>3, <2>4, <2>5, OwnAlone DEF c
  <2>7. HostConn(w, Tx(w))' = c /\ Held(w, Tx(w))'
    BY <2>1, <2>5 DEF HostConn, Held, Tx, c
  <2>8. Reached(Cmd(w))' <=> Reached(Cmd(w))
    BY <2>3, <2>5 DEF Reached, Cmd
  <2>9. Claim(w)
    BY DEF OrderInv
  <2>10. Claim(w)'
    BY <1>1, <1>2, <2>3, <2>5, <2>7, <2>8, <2>9 DEF Claim, OwnConn, RustInTurns, settings
  <2> QED
    BY <1>1, <1>2, <2>3, <2>4, <2>6, <2>10, WorkKeeps
<1> QED
  BY <1>3, <1>4 DEF UpsertFresh

LEMMA FailUpsertOrder ==
    ASSUME StampsAgree, IInv, TurnInv, OrderInv, NEW w \in Workers, FailUpsert(w)
    PROVE  OrderInv'
<1>1. DatabaseTyped /\ HostTyped /\ GuestTyped /\ OInv /\ guest[w].pc = "upsert"
  BY PartsHold DEF FailUpsert, At
<1>2. UNCHANGED <<settled, settings>> /\ StatementFails(w)
  BY DEF FailUpsert, history
<1> QED
  BY <1>1, <1>2, FailedOrder

LEMMA ApplyOrder ==
    ASSUME StampsAgree, IInv, TurnInv, OrderInv, NEW w \in Workers, Apply(w)
    PROVE  OrderInv'
<1> DEFINE c == HostConn(w, Tx(w))
<1>1. DatabaseTyped /\ HostTyped /\ GuestTyped /\ guest[w].pc = "apply"
  BY PartsHold DEF Apply, At
<1>2. UNCHANGED <<settled, settings>>
  BY DEF Apply, history
<1>3. CASE StatementFails(w)
  BY <1>1, <1>2, <1>3, FailedOrder
<1>4. CASE HostWrite(w, Tx(w)) /\ Goto(w, "commit")
  <2>1. Held(w, Tx(w)) /\ WriteRow(c) /\ UNCHANGED inst /\ Goto(w, "commit")
    BY <1>4 DEF HostWrite
  <2>2. c \in Conns
    BY <1>1, <2>1, HeldIsConn
  <2>3. Claim(w)
    BY DEF OrderInv
  <2>4. conns[c].mark # "none" /\ ~conns[c].aborted
    BY <1>1, <2>3 DEF Claim, OwnConn
  <2> HIDE DEF c
  <2>5. /\ UNCHANGED <<watermark, row>> /\ \A d \in Conns \ {c} : conns'[d] = conns[d]
        /\ conns'[c].mark = conns[c].mark /\ conns'[c].for = conns[c].for
        /\ conns'[c].wrote /\ conns'[c].aborted = conns[c].aborted
    BY <1>1, <2>1, <2>2 DEF WriteRow, DatabaseTyped, Connections
  <2>6. DatabaseKeeps
    BY <2>5, MarksFade DEF OrderInv
  <2>7. /\ guest'[w].pc = "commit" /\ guest'[w].cmd = guest[w].cmd
        /\ guest'[w].answer = guest[w].answer /\ guest'[w].tx = guest[w].tx
        /\ \A v \in Workers \ {w} : guest'[v] = guest[v]
    BY <1>1, <2>1, GotoFields
  <2>8. Alone(w)
    BY <1>2, <2>1, <2>5, <2>6, <2>7, OwnAlone DEF c
  <2>9. HostConn(w, Tx(w))' = c /\ Held(w, Tx(w))'
    BY <2>1, <2>7 DEF HostConn, Held, Tx, c
  <2>10. Reached(Cmd(w))' <=> Reached(Cmd(w))
    BY <2>5, <2>7 DEF Reached, Cmd
  <2>11. Claim(w)'
    BY <1>1, <1>2, <2>3, <2>4, <2>5, <2>7, <2>9, <2>10
    DEF Claim, OwnConn, RustInTurns, settings
  <2> QED
    BY <1>1, <1>2, <2>5, <2>8, <2>11, WorkKeeps
<1> QED
  BY <1>3, <1>4 DEF Apply

\* A transaction ends: the handle is forgotten, the connection rests.
LEMMA CloseAlone ==
    ASSUME IInv, NEW w \in Workers, NEW x, Held(w, Tx(w)), Forget(w, Tx(w)),
           guest' = [guest EXCEPT ![w] = x],
           CommitTx(HostConn(w, Tx(w))) \/ RollbackTx(HostConn(w, Tx(w))),
           DatabaseKeeps, UNCHANGED settings
    PROVE  Alone(w)
<1>1. DatabaseTyped /\ HostTyped /\ GuestTyped
  BY TypedInParts DEF IInv
<1>2. \A v \in Workers \ {w} : guest'[v] = guest[v]
  BY <1>1 DEF GuestTyped
<1>3. \A v \in Workers \ {w} : inst'[v] = inst[v]
  BY <1>1 DEF Forget, HostTyped
<1>4. \A d \in Conns \ {HostConn(w, Tx(w))} : conns'[d] = conns[d]
  BY <1>1 DEF CommitTx, RollbackTx, DatabaseTyped
<1> QED
  BY <1>2, <1>3, <1>4, OwnAlone

LEMMA RollbackKeeps ==
    ASSUME IInv, OrderInv, NEW c \in Conns, RollbackTx(c)
    PROVE  DatabaseKeeps
<1>1. DatabaseTyped
  BY TypedInParts DEF IInv
<1>2. /\ UNCHANGED watermark /\ conns'[c].mark = "none"
      /\ \A d \in Conns \ {c} : conns'[d] = conns[d]
  BY <1>1 DEF RollbackTx, Resting, DatabaseTyped
<1> QED
  BY <1>2, MarksFade DEF OrderInv

LEMMA DropOrder ==
    ASSUME StampsAgree, IInv, TurnInv, OrderInv, NEW w \in Workers, DropTransaction(w)
    PROVE  OrderInv'
<1>1. DatabaseTyped /\ HostTyped /\ GuestTyped /\ guest[w].pc # "idle"
  BY PartsHold DEF DropTransaction, At
<1>2. /\ Held(w, Tx(w)) /\ RollbackTx(HostConn(w, Tx(w))) /\ Forget(w, Tx(w))
      /\ UNCHANGED <<settings, settled, watermark, row>>
  BY DEF DropTransaction, HostRollback, RollbackTx, history
<1>3. PICK pc \in {"return", "begin"} : guest' = [guest EXCEPT ![w].tx = 0, ![w].pc = pc]
  BY DEF DropTransaction
<1> DEFINE x == [guest[w] EXCEPT !.tx = 0, !.pc = pc]
<1>4. guest' = [guest EXCEPT ![w] = x]
  BY <1>3
<1>5. x.pc = pc /\ x.cmd = guest[w].cmd /\ x.answer = guest[w].answer
  BY <1>1 DEF GuestTyped, Invocations
<1> HIDE DEF x
<1>6. DatabaseKeeps
  BY <1>1, <1>2, HeldIsConn, RollbackKeeps
<1>7. Alone(w)
  BY <1>2, <1>4, <1>6, CloseAlone
<1>8. guest'[w] = x
  BY <1>1, <1>4 DEF GuestTyped
<1>9. Claim(w)'
  BY <1>2, <1>5, <1>8, PlainClaim
<1> QED
  BY <1>1, <1>2, <1>7, <1>9, WorkKeeps

\* A commit that takes effect leaves the row and the watermark of one command.
LEMMA CommitNewest ==
    ASSUME StampsAgree, IInv, TurnInv, OrderInv, NEW w \in Workers, guest[w].pc = "commit",
           Held(w, Tx(w)), CommitTx(HostConn(w, Tx(w))), UNCHANGED settings
    PROVE  NewestWinsInTurns'
<1> DEFINE c == HostConn(w, Tx(w))
           cmd == Cmd(w)
           e == EntityOf[cmd]
<1> SUFFICES ASSUME RustInTurns PROVE NewestWinsInTurns'
  BY DEF NewestWinsInTurns, RustInTurns, settings
<1>1. DatabaseTyped /\ HostTyped /\ GuestTyped /\ OInv
  BY PartsHold
<1>2. c \in Conns /\ conns[c].for = cmd
  <2>1. Tx(w) # 0
    BY HeldIsOpen, <1>1 DEF Handles
  <2> QED
    BY <1>1, <2>1, HeldIsConn DEF OInv, HandlesAreOwn
<1>3. Claim(w)
  BY DEF OrderInv
<1>4. /\ ~conns[c].aborted /\ conns[c].mark # "none" /\ conns[c].wrote
      /\ ~Reached(cmd)
  BY <1>3 DEF Claim, OwnConn
<1>5. conns[c].mark = "written"
  BY <1>2, <1>4 DEF OrderInv, Locks, Marked
<1>6. /\ watermark' = [watermark EXCEPT ![e] = StampOf[cmd]]
      /\ row' = [row EXCEPT ![e] = cmd]
  BY <1>2, <1>4, <1>5 DEF CommitTx
<1>7. cmd \in Commands /\ e \in Entities
  BY <1>1, DatabaseAssumption DEF GuestTyped, Cmd
<1>8. /\ watermark'[e] = StampOf[cmd] /\ row'[e] = cmd
      /\ \A d \in Entities \ {e} : watermark'[d] = watermark[d] /\ row'[d] = row[d]
  BY <1>1, <1>6, <1>7 DEF DatabaseTyped
<1>9. \A d \in Entities :
        watermark[d] = IF row[d] = NoCommand THEN NoStamp ELSE StampOf[row[d]]
  BY DEF OrderInv, NewestWinsInTurns, RustInTurns
<1> HIDE DEF cmd, e
<1>10. \A d \in Entities :
         watermark'[d] = IF row'[d] = NoCommand THEN NoStamp ELSE StampOf[row'[d]]
  BY <1>7, <1>8, <1>9, DatabaseAssumption
<1> QED
  BY <1>10 DEF NewestWinsInTurns

LEMMA CommitOrder ==
    ASSUME StampsAgree, IInv, TurnInv, OrderInv, NEW w \in Workers, Commit(w)
    PROVE  OrderInv'
<1> DEFINE c == HostConn(w, Tx(w))
<1>1. DatabaseTyped /\ HostTyped /\ GuestTyped /\ OInv /\ guest[w].pc = "commit"
  BY PartsHold DEF Commit, At
<1>2. PICK error \in BOOLEAN :
        /\ HostCommit(w, Tx(w)) \/ (error /\ HostCommitLost(w, Tx(w)))
        /\ guest' = [guest EXCEPT ![w].tx = 0,
                 ![w].answer = CommitAnswer(error),
                 ![w].pc = IF error /\ language = "typescript" THEN "throw"
                           ELSE "return"]
  BY DEF Commit
<1>3. UNCHANGED <<settings, settled>>
  BY DEF Commit, history
<1> DEFINE x == [guest[w] EXCEPT !.tx = 0, !.answer = CommitAnswer(error),
                    !.pc = IF error /\ language = "typescript" THEN "throw" ELSE "return"]
<1>4. guest' = [guest EXCEPT ![w] = x]
  BY <1>2
<1>5. /\ x.pc \in {"throw", "return"} /\ x.cmd = guest[w].cmd
      /\ x.answer \in {"ack", "nack"} /\ (error => x.answer = "nack")
  BY <1>1 DEF GuestTyped, Invocations, CommitAnswer
<1> HIDE DEF x
<1>6. guest'[w] = x
  BY <1>1, <1>4 DEF GuestTyped
<1>7. /\ Held(w, Tx(w)) /\ Forget(w, Tx(w))
      /\ CommitTx(c) \/ (error /\ RollbackTx(c))
  BY <1>2 DEF HostCommit, HostCommitLost
<1>8. c \in Conns /\ conns[c].for = Cmd(w)
  <2>1. Tx(w) # 0
    BY <1>1, <1>7, HeldIsOpen DEF Handles
  <2> QED
    BY <1>1, <1>7, <2>1, HeldIsConn DEF OInv, HandlesAreOwn
<1>9. ~conns[c].aborted /\ conns[c].mark # "none"
  BY <1>1 DEF OrderInv, Claim, OwnConn
<1> HIDE DEF c
<1>10. ASSUME NEW k, k = Cmd(w), CommitTx(c)
       PROVE  DatabaseKeeps /\ Reached(k)'
  BY <1>1, <1>8, <1>9, <1>10, CommitLocks DEF OrderInv, Marked
<1>11. Cmd(w)' = Cmd(w)
  BY <1>5, <1>6 DEF Cmd
<1>12. DatabaseKeeps
  BY <1>7, <1>8, <1>10, RollbackKeeps
<1>13. x.answer = "ack" => Reached(Cmd(w))'
  BY <1>5, <1>7, <1>10, <1>11 DEF Reached
<1>14. Claim(w)'
  BY <1>5, <1>6, <1>13 DEF Claim
<1>15. Alone(w)
  BY <1>3, <1>4, <1>7, <1>12, CloseAlone DEF c
<1>16. NewestWinsInTurns'
  <2>1. CASE CommitTx(c)
    BY <1>1, <1>3, <1>7, <2>1, CommitNewest DEF c
  <2>2. CASE RollbackTx(c)
    BY <1>3, <2>2, NewestStays DEF RollbackTx
  <2> QED
    BY <1>7, <2>1, <2>2
<1> QED
  BY <1>1, <1>3, <1>14, <1>15, <1>16, BusyAlone, AloneKeeps

LEMMA LeaveOpenOrder ==
    ASSUME StampsAgree, IInv, TurnInv, OrderInv, NEW w \in Workers, LeaveOpen(w)
    PROVE  OrderInv'
<1>1. GuestTyped /\ guest[w].pc # "idle" /\ Finish(w, "nack")
  BY PartsHold DEF LeaveOpen, At
<1>2. UNCHANGED <<conns, watermark, row, inst, settled, settings>>
  BY DEF LeaveOpen, database, host, history
<1>3. Alone(w)
  BY <1>1, <1>2, FinishFields, QuietAlone
<1>4. Claim(w)'
  BY <1>1, <1>2, FinishFields, PlainClaim
<1> QED
  BY <1>1, <1>2, <1>3, <1>4, WorkKeeps

\* The other two programs use no transaction.
LEMMA OtherOrder ==
    ASSUME StampsAgree, IInv, TurnInv, OrderInv, NEW w \in Workers,
           Lookup(w) \/ Act(w) \/ Save(w) \/ Incr(w) \/ StoreIncr(w)
    PROVE  OrderInv'
<1>1. GuestTyped /\ guest[w].pc \in {"lookup", "act", "save", "count", "store"}
  BY PartsHold DEF Lookup, Act, Save, Incr, StoreIncr, At
<1>2. program # "orders"
  BY <1>1 DEF OrderInv, Claim
<1>3. UNCHANGED <<conns, watermark, row, inst, settled, settings>>
  BY DEF Lookup, Act, Save, Incr, StoreIncr, database, host
<1>4. /\ guest'[w].cmd = guest[w].cmd
      /\ guest'[w].pc \notin {"idle", "upsert", "apply", "commit"}
      /\ \A v \in Workers \ {w} : guest'[v] = guest[v]
  <2>1. ASSUME NEW r, StepReturns(w, r)
        PROVE  /\ guest'[w].cmd = guest[w].cmd /\ guest'[w].pc = "return"
               /\ \A v \in Workers \ {w} : guest'[v] = guest[v]
    BY <1>1, <2>1 DEF StepReturns, GuestTyped, Invocations
  <2>2. CASE Lookup(w)
    BY <1>1, <2>1, <2>2, GotoFields DEF Lookup, StepKnown
  <2>3. CASE Act(w)
    BY <1>1, <2>3, GotoFields, RaiseFields DEF Act
  <2>4. CASE Save(w)
    BY <2>1, <2>4 DEF Save
  <2>5. CASE Incr(w)
    <3>1. CASE guest' = [guest EXCEPT ![w].read = counter, ![w].pc = "store"]
      BY <1>1, <3>1 DEF GuestTyped, Invocations
    <3> QED
      BY <1>1, <2>5, <3>1, FinishFields, RaiseFields DEF Incr
  <2>6. CASE StoreIncr(w)
    BY <1>1, <2>6, FinishFields, RaiseFields DEF StoreIncr
  <2> QED
    BY <2>2, <2>3, <2>4, <2>5, <2>6
<1>5. Alone(w)
  BY <1>3, <1>4, QuietAlone
<1>6. Claim(w)'
  BY <1>2, <1>3, <1>4, PlainClaim
<1> QED
  BY <1>1, <1>3, <1>5, <1>6, WorkKeeps

\* Nobody's step: a rollback that ends, a checkpoint that expires.
LEMMA NobodyOrder ==
    ASSUME StampsAgree, IInv, TurnInv, OrderInv,
           (\E c \in Conns : Release(c)) \/ (\E s \in Scopes : ExpireCheckpoint(s))
              \/ UNCHANGED vars
    PROVE  OrderInv' /\ \A e \in Entities : Grown(e)
<1>1. DatabaseTyped /\ HostTyped /\ GuestTyped /\ OInv
  BY PartsHold
<1>2. UNCHANGED <<guest, inst, watermark, row, settled, settings>>
  BY DEF Release, ExpireCheckpoint, FinishRollback, RollbackTx, host, database, history,
         vars
<1>3. /\ DatabaseKeeps
      /\ \A d \in Conns : conns[d].at = "tx" => conns'[d] = conns[d]
  <2>1. ASSUME NEW c \in Conns, Release(c)
        PROVE  /\ DatabaseKeeps
               /\ \A d \in Conns : conns[d].at = "tx" => conns'[d] = conns[d]
    <3>1. conns[c].at = "rollback" /\ RollbackTx(c)
      BY <2>1 DEF Release, FinishRollback
    <3> QED
      BY <1>1, <3>1, RollbackKeeps DEF RollbackTx, DatabaseTyped
  <2>2. CASE UNCHANGED conns
    BY <1>2, <2>2, MarksFade DEF OrderInv
  <2> QED
    BY <2>1, <2>2 DEF ExpireCheckpoint, database, vars
<1>4. ASSUME NEW w \in Workers PROVE Claim(w)'
  <2>1. Claim(w)
    BY DEF OrderInv
  <2>2. Held(w, Tx(w)) => HostConn(w, Tx(w)) \in Conns /\ OwnConn(w)' = OwnConn(w)
    BY <1>1, <1>2, <1>3, HeldIsConn, HeldIsOpen DEF OwnConn, HostConn, Tx
  <2>3. /\ HostConn(w, Tx(w))' = HostConn(w, Tx(w))
        /\ Held(w, Tx(w))' = Held(w, Tx(w))
        /\ Reached(Cmd(w))' = Reached(Cmd(w))
    BY <1>2 DEF HostConn, Held, Tx, Reached, Cmd
  <2> QED
    BY <1>2, <2>1, <2>2, <2>3 DEF Claim, RustInTurns, settings
<1>5. \A cmd \in settled' : Reached(cmd)'
  BY <1>2 DEF OrderInv, Reached
<1>6. NewestWinsInTurns'
  BY <1>2, NewestStays
<1> QED
  BY <1>3, <1>4, <1>5, <1>6 DEF OrderInv, DatabaseKeeps

LEMMA InitOrder == Init => OrderInv
<1> SUFFICES ASSUME Init PROVE OrderInv
  OBVIOUS
<1>1. Locks
  BY DEF Init, DatabaseInit, Resting, Locks, Marked
<1>2. ASSUME NEW w \in Workers PROVE Claim(w)
  <2>1. guest[w].pc = "idle" /\ guest[w].answer = "none"
    BY DEF Init, Idle
  <2> QED
    BY <2>1 DEF Claim
<1>3. NewestWinsInTurns
  BY DEF Init, DatabaseInit, NewestWinsInTurns
<1> QED
  BY <1>1, <1>2, <1>3 DEF OrderInv, Init

LEMMA OrderStep ==
    ASSUME StampsAgree, IInv, TurnInv, OrderInv, [Next]_vars
    PROVE  OrderInv'
<1>1. ASSUME NEW w \in Workers, Work(w) \/ FailUpsert(w) \/ Trap(w) \/ LeaveOpen(w)
      PROVE  OrderInv'
  BY <1>1, LeaveOrder, GateOrder, BeginOrder, SelectOrder, UpsertOrder, FailUpsertOrder,
     ApplyOrder, CommitOrder, DropOrder, LeaveOpenOrder, OtherOrder DEF Work
<1> QED
  BY <1>1, InvokeOrder, NobodyOrder DEF Next

\* Only a commit writes a watermark.
LEMMA GrownStep ==
    ASSUME StampsAgree, IInv, TurnInv, OrderInv, [Next]_vars
    PROVE  \A e \in Entities : Grown(e)
<1>1. CASE UNCHANGED watermark
  BY <1>1 DEF Grown
<1>2. ASSUME NEW w \in Workers, Commit(w) PROVE \A e \in Entities : Grown(e)
  <2>1. DatabaseTyped /\ HostTyped
    BY PartsHold
  <2>2. CASE HostCommit(w, Tx(w))
    <3>1. CommitTx(HostConn(w, Tx(w))) /\ HostConn(w, Tx(w)) \in Conns
      BY <2>1, <2>2, HeldIsConn DEF HostCommit
    <3> QED
      BY <2>1, <3>1, CommitLocks DEF DatabaseKeeps, OrderInv
  <2>3. CASE HostCommitLost(w, Tx(w))
    BY <1>1, <2>3 DEF HostCommitLost, RollbackTx
  <2> QED
    BY <1>2, <2>2, <2>3 DEF Commit
<1>3. ASSUME NEW w \in Workers,
             Work(w) \/ FailUpsert(w) \/ Trap(w) \/ LeaveOpen(w), ~Commit(w)
      PROVE  UNCHANGED watermark
  <2>1. Return(w) \/ Trap(w) => UNCHANGED watermark
    BY DEF Return, Trap, DropTx
  <2>2. Gate(w) \/ LeaveOpen(w) => UNCHANGED watermark
    BY DEF Gate, LeaveOpen, database
  <2>3. BeginTx(w) => UNCHANGED watermark
    BY DEF BeginTx, TxBegun, HostBegin, Connect, ConnectFails, database
  <2>4. StatementFails(w) => UNCHANGED watermark
    BY DEF StatementFails, HostStatementFails, Refuse, Abort, database
  <2>5. SelectWatermark(w) \/ UpsertFresh(w) \/ FailUpsert(w) \/ Apply(w)
          => UNCHANGED watermark
    BY <2>4 DEF SelectWatermark, UpsertFresh, FailUpsert, Apply, HostQuery, HostUpsert, HostWrite,
                UpsertWatermark, WriteRow, database
  <2>6. DropTransaction(w) => UNCHANGED watermark
    BY DEF DropTransaction, HostRollback, RollbackTx
  <2>7. Lookup(w) \/ Act(w) \/ Save(w) \/ Incr(w) \/ StoreIncr(w) => UNCHANGED watermark
    BY DEF Lookup, Act, Save, Incr, StoreIncr, database
  <2> QED
    BY <1>3, <2>1, <2>2, <2>3, <2>5, <2>6, <2>7 DEF Work
<1>4. ASSUME NEW w \in Workers, NEW cmd \in Commands, Invoke(w, cmd)
      PROVE  UNCHANGED watermark
  BY <1>4 DEF Invoke, database
<1> QED
  BY <1>1, <1>2, <1>3, <1>4, NobodyOrder DEF Next

LEMMA OrderKept ==
    ASSUME StampsAgree
    PROVE  Spec => []OrderInv
<1>1. IInv /\ TurnInv /\ OrderInv /\ [Next]_vars => OrderInv'
  BY OrderStep
<1> QED
  BY <1>1, InitOrder, Inductive, InductiveInTurns, PTL DEF Spec

\* If the stamps are an HLC's, no answer is given for work that is then lost: a
\* command acknowledged, or ignored as old, is one that the committed watermark
\* has reached and stays beyond, for any overlap of workers, in either language,
\* through failing commits, traps, pooled instances and rollbacks under way.
THEOREM AnswersAreDurable ==
    ASSUME StampsAgree
    PROVE  Spec => []AnsweredMeansDurable
<1>1. OrderInv => AnsweredMeansDurable
  BY DEF OrderInv, AnsweredMeansDurable, Reached, Newer
<1> QED
  BY <1>1, OrderKept, PTL

\* If the stamps are an HLC's, the newest one wins in the Rust SDK when
\* invocations take turns: the row of an entity is that of its watermark.
THEOREM NewestWins ==
    ASSUME StampsAgree
    PROVE  Spec => []NewestWinsInTurns
<1>1. OrderInv => NewestWinsInTurns
  BY DEF OrderInv
<1> QED
  BY <1>1, OrderKept, PTL

\* If the stamps are an HLC's, no commit moves a watermark back, whichever
\* transactions overlap and whatever their SELECT saw.
THEOREM WatermarksGrow ==
    ASSUME StampsAgree
    PROVE  Spec => WatermarkGrows
<1>1. IInv /\ TurnInv /\ OrderInv /\ [Next]_vars
        => [\A e \in Entities :
               \/ watermark'[e] = watermark[e]
               \/ watermark[e] = NoStamp
               \/ Evaluate("rust", watermark'[e], watermark[e]) = "Fresh"]_vars
  BY GrownStep DEF Grown, Newer
<1> QED
  BY <1>1, OrderKept, Inductive, InductiveInTurns, PTL DEF Spec, WatermarkGrows
=============================================================================
