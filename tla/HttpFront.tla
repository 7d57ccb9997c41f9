----------------------------- MODULE HttpFront -----------------------------
(***************************************************************************)
(* The HTTP requests of a chassis and what every handler has to do with:   *)
(* the routing of handle_request, the answer, and the log buffer of        *)
(* runtime/src/telemetry/mod.rs.  Its counters are only ever shown, and    *)
(* are left out.                                                           *)
(***************************************************************************)
EXTENDS KeyValue

CONSTANTS MaxRequests,  \* bound: requests of one behaviour
          LogCapacity   \* buffer_capacity

VARIABLES req,          \* the requests, in the order they arrive
          logs          \* the length of log_buffer

Requests == 1..MaxRequests

\* arg: a command id, a key as it was typed, or a text.  who: the user at the
\* keyboard, where one is.  seen, base: what a handler has read so far.
\* An answered request is forgotten, but for what its trace is recorded under.
NoRequest ==
    [kind |-> "none", pc |-> "none", arg |-> NoValue, who |-> NoValue,
     option |-> TRUE, seen |-> NoValue, base |-> 0, status |-> 0]

HttpInit ==
    /\ req = [r \in Requests |-> NoRequest]
    /\ logs = 0

\* The first matching route of handle_request_with_dynamic_state decides.
Entry(kind) ==
    CASE kind = "update" -> "authorize"
      [] kind = "reload" -> "authorize"
      [] kind = "traces" -> "recent"
      [] kind = "trace"  -> "cached"
      [] OTHER           -> "body"

At(r, pc) == req[r].pc = pc
Goto(r, pc) == req' = [req EXCEPT ![r].pc = pc]
Answered(r) == [NoRequest EXCEPT !.kind = req[r].kind, !.pc = "answered"]
Reply(r) == req' = [req EXCEPT ![r] = Answered(r)]

InFlight(r) == ~At(r, "none") /\ ~At(r, "answered")

Receive(r, kind, arg, option) ==
    /\ At(r, "none")
    /\ \A q \in 1..(r - 1) : ~At(q, "none")
    /\ req' = [req EXCEPT ![r] =
                 [NoRequest EXCEPT !.kind = kind, !.pc = Entry(kind), !.arg = arg,
                                   !.option = option]]

-----------------------------------------------------------------------------
(* TelemetryClient *)

\* record_log: the oldest entry makes room when the buffer is full.
RecordLogKeepingAll(n) == n + 1
RecordLog(n) == IF n >= LogCapacity THEN (IF n = 0 THEN 0 ELSE n - 1) + 1 ELSE n + 1
=============================================================================
