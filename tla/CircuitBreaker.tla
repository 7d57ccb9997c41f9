--------------------------- MODULE CircuitBreaker ---------------------------
(***************************************************************************)
(* The per-cell circuit breaker of runtime/src/wasm/mod.rs, as the threads *)
(* that invoke one WebAssembly cell share it.  A thread asks can_execute,  *)
(* runs the guest if it is admitted, and reports the outcome with          *)
(* record_success or record_failure.                                       *)
(*                                                                         *)
(* The breaker is four independently synchronised words, and every method  *)
(* touches several of them: one action below is one atomic access (or one  *)
(* critical section of the `state` lock), and the copies a method keeps    *)
(* between two accesses are the control point and locals of its thread.    *)
(*                                                                         *)
(* Time is abstract: last_tripped_at is "never" (None), "recent" (the      *)
(* cool-off is still running) or "cooled" (cooloff_duration has elapsed).  *)
(* The failure count is kept up to the threshold, the only value it is     *)
(* ever compared with.                                                     *)
(***************************************************************************)
EXTENDS Integers

CONSTANTS Threads,      \* threads that may be invoking the cell at once
          Threshold     \* config.consecutive_failure_threshold (a u32)

ASSUME ThresholdAssumption == Threshold \in Nat

VARIABLES state,        \* RwLock<CircuitState>
          failures,     \* AtomicU32, saturated at Threshold
          probing,      \* AtomicBool: the half-open probe slot is taken
          tripped,      \* RwLock<Option<Instant>> last_tripped_at
          pc,           \* where each thread is in its invocation
          permission,   \* what can_execute returned to the thread
          count,        \* record_failure's local `failures`
          guest         \* whether the cell (or what it depends on) is sick

breaker == <<state, failures, probing, tripped>>
vars == <<state, failures, probing, tripped, pc, permission, count, guest>>

CircuitState == {"Closed", "Open", "HalfOpen"}
Permission == {"Allow", "Probe", "Denied"}

\* Control points.  "idle": between invocations; "readTripped", "upgrade" and
\* "compareExchange": inside can_execute, after it copied the state;
\* "running": the guest executes; "ok*" and "err*": inside record_success and
\* record_failure.
Location == {"idle", "readTripped", "upgrade", "compareExchange", "running",
             "okFailures", "okProbing", "okState",
             "errProbing", "errFailures", "errState"}

Init ==
    /\ state = "Closed"
    /\ failures = 0
    /\ probing = FALSE
    /\ tripped = "never"
    /\ pc = [t \in Threads |-> "idle"]
    /\ permission = [t \in Threads |-> "Denied"]
    /\ count = [t \in Threads |-> 0]
    /\ guest \in {"sick", "healthy"}

Goto(t, from, to) ==
    /\ pc[t] = from
    /\ pc' = [pc EXCEPT ![t] = to]

\* The invocation of t ends; its locals go out of scope.
Finish(t, from) ==
    /\ Goto(t, from, "idle")
    /\ permission' = [permission EXCEPT ![t] = "Denied"]
    /\ count' = [count EXCEPT ![t] = 0]

\* can_execute returns p: an admitted thread goes on to run the guest, a
\* denied one returns "circuit breaker is OPEN" to its caller.
Answer(t, from, p) ==
    /\ Goto(t, from, IF p = "Denied" THEN "idle" ELSE "running")
    /\ permission' = [permission EXCEPT ![t] = p]

-----------------------------------------------------------------------------
(* can_execute *)

\* The state is copied and its read lock released before anything else.
ReadState(t) ==
    /\ \/ state = "Closed" /\ Answer(t, "idle", "Allow")
       \/ /\ state = "Open"
          /\ Goto(t, "idle", "readTripped")
          /\ UNCHANGED permission
       \/ /\ state = "HalfOpen"
          /\ Goto(t, "idle", "compareExchange")
          /\ UNCHANGED permission
    /\ UNCHANGED <<breaker, count, guest>>

ReadTrippedReversed(t) ==
    /\ IF tripped = "recent"
       THEN Goto(t, "readTripped", "upgrade") /\ UNCHANGED permission
       ELSE Answer(t, "readTripped", "Denied")
    /\ UNCHANGED <<breaker, count, guest>>

\* Copy last_tripped_at and test the cool-off on the copy.
ReadTripped(t) ==
    /\ IF tripped = "cooled"
       THEN Goto(t, "readTripped", "upgrade") /\ UNCHANGED permission
       ELSE Answer(t, "readTripped", "Denied")
    /\ UNCHANGED <<breaker, count, guest>>

UpgradeUnchecked(t) ==
    /\ state' = "HalfOpen"
    /\ probing' = TRUE
    /\ Answer(t, "upgrade", "Probe")
    /\ UNCHANGED <<failures, tripped, count, guest>>

\* Under the write lock: whoever still finds the breaker Open half-opens it.
Upgrade(t) ==
    /\ IF state = "Open"
       THEN /\ state' = "HalfOpen"
            /\ probing' = TRUE
            /\ Answer(t, "upgrade", "Probe")
       ELSE /\ Answer(t, "upgrade", "Denied")
            /\ UNCHANGED <<state, probing>>
    /\ UNCHANGED <<failures, tripped, count, guest>>

\* The compare_exchange on `probing`; the state is not looked at again.
CompareExchange(t) ==
    /\ probing' = TRUE
    /\ Answer(t, "compareExchange", IF probing THEN "Denied" ELSE "Probe")
    /\ UNCHANGED <<state, failures, tripped, count, guest>>

-----------------------------------------------------------------------------
(* invoke_guest_json: the epoch deadline makes every execution return *)

GuestReturns(t) ==
    /\ \/ Goto(t, "running", "okFailures")
       \/ guest = "sick" /\ Goto(t, "running", "errProbing")
    /\ UNCHANGED <<breaker, permission, count, guest>>

-----------------------------------------------------------------------------
(* record_success *)

DecrementFailures(t) ==
    /\ Goto(t, "okFailures", "okProbing")
    /\ failures' = failures - 1
    /\ UNCHANGED <<state, probing, tripped, permission, count, guest>>

ResetFailures(t) ==
    /\ Goto(t, "okFailures", "okProbing")
    /\ failures' = 0
    /\ UNCHANGED <<state, probing, tripped, permission, count, guest>>

FreeSlotOnSuccessForgotten(t) ==
    /\ Goto(t, "okProbing", "okState")
    /\ UNCHANGED <<breaker, permission, count, guest>>

FreeSlotOnSuccess(t) ==
    /\ Goto(t, "okProbing", "okState")
    /\ probing' = FALSE
    /\ UNCHANGED <<state, failures, tripped, permission, count, guest>>

CloseForgotten(t) ==
    /\ Finish(t, "okState")
    /\ UNCHANGED <<breaker, guest>>

\* Closes whatever state the breaker is in.
Close(t) ==
    /\ Finish(t, "okState")
    /\ state' = "Closed"
    /\ UNCHANGED <<failures, probing, tripped, guest>>

-----------------------------------------------------------------------------
(* record_failure *)

FreeSlotOnFailure(t) ==
    /\ Goto(t, "errProbing", "errFailures")
    /\ probing' = FALSE
    /\ UNCHANGED <<state, failures, tripped, permission, count, guest>>

\* fetch_add; the new value stays in the thread's local.
CountFailure(t) ==
    LET n == IF failures < Threshold THEN failures + 1 ELSE Threshold IN
    /\ Goto(t, "errFailures", "errState")
    /\ failures' = n
    /\ count' = [count EXCEPT ![t] = n]
    /\ UNCHANGED <<state, probing, tripped, permission, guest>>

TripWithoutInstant(t) ==
    /\ Finish(t, "errState")
    /\ state' = IF state = "HalfOpen" \/ count[t] >= Threshold
                THEN "Open" ELSE state
    /\ UNCHANGED <<failures, probing, tripped, guest>>

\* Under the write lock: trip, or re-trip and restart the cool-off.
Trip(t) ==
    /\ Finish(t, "errState")
    /\ IF state = "HalfOpen" \/ count[t] >= Threshold
       THEN state' = "Open" /\ tripped' = "recent"
       ELSE UNCHANGED <<state, tripped>>
    /\ UNCHANGED <<failures, probing, guest>>

-----------------------------------------------------------------------------
(* Environment *)

CooloffElapses ==
    /\ tripped = "recent"
    /\ tripped' = "cooled"
    /\ UNCHANGED <<state, failures, probing, pc, permission, count, guest>>

\* The cell's dependency recovers: from here on no execution fails.
Heal ==
    /\ guest = "sick"
    /\ guest' = "healthy"
    /\ UNCHANGED <<breaker, pc, permission, count>>

ThreadStep(t) ==
    \/ ReadState(t) \/ ReadTripped(t) \/ Upgrade(t) \/ CompareExchange(t)
    \/ GuestReturns(t)
    \/ ResetFailures(t) \/ FreeSlotOnSuccess(t) \/ Close(t)
    \/ FreeSlotOnFailure(t) \/ CountFailure(t) \/ Trip(t)

Next == (\E t \in Threads : ThreadStep(t)) \/ CooloffElapses \/ Heal

Spec == Init /\ [][Next]_vars

\* Threads are scheduled, guests are cut off by their epoch deadline, time
\* passes, and invocations keep arriving (ReadState is part of ThreadStep).
\* Nothing makes a sick dependency heal.
FairSpec ==
    /\ Spec
    /\ \A t \in Threads : WF_vars(ThreadStep(t))
    /\ WF_vars(CooloffElapses)

-----------------------------------------------------------------------------
(* Properties *)

TypeOK ==
    /\ state \in CircuitState
    /\ failures \in 0..Threshold
    /\ probing \in BOOLEAN
    /\ tripped \in {"never", "recent", "cooled"}
    /\ pc \in [Threads -> Location]
    /\ permission \in [Threads -> Permission]
    /\ count \in [Threads -> 0..Threshold]
    /\ guest \in {"sick", "healthy"}

\* A thread that was let in as a probe and has yet to give the slot back.
HoldsSlot(t) ==
    /\ permission[t] = "Probe"
    /\ pc[t] \in {"running", "okFailures", "okProbing", "errProbing"}

\* The probe slot never leaks: while `probing` is set, some probe is still on
\* its way to the store that clears it.  A leak would deny every later
\* invocation of a half-open cell for good.  It must survive slots that are
\* freed by stragglers and taken again through stale copies of the state.
ProbeSlotOwned == probing => \E t \in Threads : HoldsSlot(t)

\* A breaker that is not closed has a trip instant: can_execute denies an Open
\* breaker whose last_tripped_at is None for ever.
OpenHasTripInstant == state # "Closed" => tripped # "never"

\* A thread that decided to half-open on stale copies of state and trip time
\* does not half-open a breaker that another thread closed meanwhile.
ClosedStaysOutOfHalfOpen == [][state = "Closed" => state' # "HalfOpen"]_vars

\* An open breaker lets a probe in (or is closed) sooner or later, whatever
\* the guest does: stragglers that re-trip it cannot postpone that for ever.
OpenIsProbed == state = "Open" ~> state # "Open"

\* Once the dependency has healed the breaker closes and stays closed, from
\* every interleaving of probes, stragglers and stale decisions before it.
Recovery == guest = "healthy" ~> [](state = "Closed")

\* What docs/durable-steps-and-resilience.md says of an open circuit: events
\* are rejected until the recovery interval has passed.  The code does not
\* keep to it: a straggler's record_success closes an open breaker at once,
\* and a thread that tested the cool-off of an earlier trip half-opens it.
OpenUntilCooled ==
    [][state = "Open" /\ state' # "Open" => tripped = "cooled"]_vars
=============================================================================
