------------------------------ MODULE Causality ------------------------------
(***************************************************************************)
(* The causality helpers of the SDKs (sdks/rust/src and its port under     *)
(* sdks/typescript/assembly): how two hybrid-logical-clock stamps compare, *)
(* in guest code and in the SQL of the watermark table, and the bounded    *)
(* in-memory gates that remember the newest stamp of each key.             *)
(*                                                                         *)
(* A stamp is a string <wall>.<counter>.  What its readers tell apart is   *)
(* its place in the order of strings (Text), whether it holds a dot, and   *)
(* the pair of numbers they parse it to, <<>> if they do not.  The readers *)
(* differ on text that is no stamp: Rust parses digits that fit, and       *)
(* nothing else; AssemblyScript makes a pair of whatever is not blank;     *)
(* PostgreSQL casts to bigint, and raises an error if it cannot.           *)
(***************************************************************************)
EXTENDS Integers, Sequences

Readers == {"rust", "typescript", "sql"}

CONSTANTS Stamps, NoStamp,
          Text,         \* [Stamps -> Nat], one-to-one
          Dotted,       \* the stamps with a dot
          Clock         \* [Readers -> [Stamps -> <<wall, counter>> or <<>>]]

ASSUME StampAssumption ==
    /\ NoStamp \notin Stamps
    /\ Text \in [Stamps -> Nat]
    /\ \A s, t \in Stamps : Text[s] = Text[t] => s = t
    /\ Dotted \subseteq Stamps
    /\ Clock \in [Readers -> [Stamps -> (Nat \X Nat) \cup {<<>>}]]

Verdicts == {"Fresh", "Stale", "Duplicate"}

\* parse_hlc
Parses(r, s) == Clock[r][s] # <<>>

Before(a, b) == a[1] < b[1] \/ (a[1] = b[1] /\ a[2] < b[2])

\* evaluate_causality: by the numbers if both parse, else by the strings.
Evaluate(r, incoming, existing) ==
    LET i == Clock[r][incoming]
        e == Clock[r][existing]
    IN  IF Parses(r, incoming) /\ Parses(r, existing)
        THEN CASE Before(i, e) -> "Stale"
               [] Before(e, i) -> "Fresh"
               [] OTHER -> "Duplicate"
        ELSE CASE Text[incoming] < Text[existing] -> "Stale"
               [] Text[incoming] > Text[existing] -> "Fresh"
               [] OTHER -> "Duplicate"

\* is_stale, which the deduplication buffers use.
IsStale(r, incoming, existing) ==
    LET i == Clock[r][incoming]
        e == Clock[r][existing]
    IN  IF Parses(r, incoming) /\ Parses(r, existing)
        THEN i[1] < e[1] \/ (i[1] = e[1] /\ i[2] <= e[2])
        ELSE Text[incoming] <= Text[existing]

\* The WHERE clause of the upsert.  It compares numbers only if both stamps
\* hold a dot, and then the casts may raise an error.
SqlCastFails(existing, incoming) ==
    /\ {existing, incoming} \subseteq Dotted
    /\ ~(Parses("sql", existing) /\ Parses("sql", incoming))

SqlOlderByText(existing, incoming) == Text[existing] < Text[incoming]

SqlOlder(existing, incoming) ==
    IF {existing, incoming} \subseteq Dotted
    THEN Before(Clock["sql"][existing], Clock["sql"][incoming])
    ELSE Text[existing] < Text[incoming]

-----------------------------------------------------------------------------
(* CausalGuard and DeduplicationBuffer.  Both are a map `marks` from keys to *)
(* stamps and the queue of the keys in the order they were first seen.       *)

NewGuard(Keys) == [marks |-> [k \in Keys |-> NoStamp], queue |-> <<>>]

Tracked(g) == {k \in DOMAIN g.marks : g.marks[k] # NoStamp}

ForgetOldestQueueOnly(g) == [g EXCEPT !.queue = Tail(@)]

ForgetOldest(g) == [marks |-> [g.marks EXCEPT ![Head(g.queue)] = NoStamp],
                    queue |-> Tail(g.queue)]

\* Room for one more key.  In Rust the constructor raises a capacity of 0 to
\* 1; the port has no such line, but finds nothing to evict in an empty queue.
AtLeastOne(capacity) == IF capacity > 1 THEN capacity ELSE 1
EvictRust(g, capacity) ==
    IF Len(g.queue) >= AtLeastOne(capacity) THEN ForgetOldest(g) ELSE g
EvictTs(g, capacity) ==
    IF Len(g.queue) >= capacity /\ Len(g.queue) > 0 THEN ForgetOldest(g) ELSE g
Evict(r, g, capacity) ==
    IF r = "rust" THEN EvictRust(g, capacity) ELSE EvictTs(g, capacity)

Remember(r, g, capacity, k, s) ==
    IF k \in Tracked(g)
    THEN [g EXCEPT !.marks[k] = s]
    ELSE LET room == Evict(r, g, capacity)
         IN  [marks |-> [room.marks EXCEPT ![k] = s],
              queue |-> Append(room.queue, k)]

\* evaluate_and_advance: the verdict, and the guard it leaves.
GuardVerdict(r, g, k, s) ==
    IF k \in Tracked(g) THEN Evaluate(r, s, g.marks[k]) ELSE "Fresh"

Advance(r, g, capacity, k, s) ==
    IF GuardVerdict(r, g, k, s) = "Fresh" THEN Remember(r, g, capacity, k, s) ELSE g

\* check_and_update: the same gate, decided by is_stale.
Admits(r, g, k, s) == k \notin Tracked(g) \/ ~IsStale(r, s, g.marks[k])

CheckAndUpdate(r, g, capacity, k, s) ==
    IF Admits(r, g, k, s) THEN Remember(r, g, capacity, k, s) ELSE g
=============================================================================
