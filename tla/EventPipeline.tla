---------------------------- MODULE EventPipeline ----------------------------
(***************************************************************************)
(* The broker consumer of runtime/src/broker: the in-memory broker (a      *)
(* bounded channel with one receiver, and a spawned timer per nack), the   *)
(* core-NATS adapter (no acknowledgement, no redelivery), and the event    *)
(* processor, one task that takes a message, runs the built-in handler and *)
(* every subscribed cell, and then acknowledges, retries with backoff or   *)
(* publishes to the dead letter topic.                                     *)
(*                                                                         *)
(* A delivered message is [id, depth, attempt]: the message it stems from, *)
(* how many DLQ prefixes its topic has, and delivery_attempt.  The order   *)
(* in which cells run is that of a HashMap, so any.  A cell's answer is    *)
(* "ok", "fail" (status nack or error, a trap, an open circuit breaker) or *)
(* "dead_letter".                                                          *)
(***************************************************************************)
EXTENDS Naturals, Sequences

CONSTANTS Messages,     \* what producers may publish, once each
          Cells,        \* cells subscribed to the topic of the messages
          Wildcard,     \* those of them whose pattern also matches dlq.<topic>
          Malformed,    \* messages whose payload is not JSON
          Builtin,      \* messages on a ...requestmagiclink topic
          Adapters,     \* broker methods to choose from
          Capacity,     \* capacity of the in-memory channel
          MaxRetries,   \* resilience.max_retries
          MaxDepth      \* bound: DLQ levels that are followed

ASSUME PipelineAssumption ==
    /\ Wildcard \subseteq Cells
    /\ Malformed \subseteq Messages
    /\ Builtin \subseteq Messages
    /\ Adapters \subseteq {"in_memory", "nats"}
    /\ Capacity \in Nat \ {0}
    /\ MaxRetries \in Nat
    /\ MaxDepth \in Nat

VARIABLES adapter,      \* config.broker.method
          dlqEnabled,   \* resilience.dlq_enabled
          channel,      \* messages the consumer has yet to receive, in order
          timers,       \* nacked messages: the spawned sleep-then-send tasks
          pc,           \* what the consumer task is doing
          msg,          \* the message it holds
          todo,         \* subscribed cells it has yet to run
          allSucceeded, dlqRequested,
          handled,      \* cells that answered ok in an event's last attempt
          trace,        \* status of an event's domain operation trace
          outcome       \* how each event left the pipeline ("absent": it has not)

config == <<adapter, dlqEnabled>>
locals == <<msg, todo, allSucceeded, dlqRequested>>
vars == <<adapter, dlqEnabled, channel, timers, pc, msg, todo, allSucceeded,
          dlqRequested, handled, trace, outcome>>

Events == Messages \X (0..MaxDepth)
MaxTries == IF MaxRetries = 0 THEN 1 ELSE MaxRetries
Delivered == [id : Messages, depth : 0..MaxDepth, attempt : 1..MaxTries]
NoMessage == [id |-> "none", depth |-> 0, attempt |-> 0]
Verdict == {"ok", "fail", "dead_letter"}

Event(m) == <<m.id, m.depth>>

\* The event that carries e's envelope on dlq.<topic>.
Envelope(e) == <<e[1], e[2] + 1>>

Holding == pc # "receive"
Queued == {Event(channel[i]) : i \in DOMAIN channel}
Waiting == {Event(m) : m \in timers}
Held == IF Holding THEN {Event(msg)} ELSE {}
Live == Queued \cup Waiting \cup Held

\* A payload that does not parse reaches no cell; a DLQ envelope always parses.
Subscribed(e) == IF e[2] > 0 THEN Wildcard
                 ELSE IF e[1] \in Malformed THEN {} ELSE Cells

\* The topic suffix survives the DLQ prefix, so the built-in handler runs again.
RunsBuiltin(m) == m.id \in Builtin

Init ==
    /\ adapter \in Adapters
    /\ dlqEnabled \in BOOLEAN
    /\ channel = <<>>
    /\ timers = {}
    /\ pc = "receive"
    /\ msg = NoMessage
    /\ todo = {}
    /\ allSucceeded = TRUE
    /\ dlqRequested = FALSE
    /\ handled = [e \in Events |-> {}]
    /\ trace = [e \in Events |-> "none"]
    /\ outcome = [e \in Events |-> "absent"]

-----------------------------------------------------------------------------
(* Broker *)

\* A send on the bounded channel waits for room; core NATS does not block.
HasRoom == adapter = "nats" \/ Len(channel) < Capacity

Publish(id) ==
    /\ outcome[<<id, 0>>] = "absent" /\ <<id, 0>> \notin Live
    /\ HasRoom
    /\ channel' = Append(channel, [id |-> id, depth |-> 0, attempt |-> 1])
    /\ UNCHANGED <<config, timers, pc, locals, handled, trace, outcome>>

RedeliverAndKeepTimer(m) ==
    /\ m \in timers
    /\ HasRoom
    /\ channel' = Append(channel, m)
    /\ UNCHANGED <<config, timers, pc, locals, handled, trace, outcome>>

\* A nack's timer has slept its backoff and gets its message into the channel.
Redeliver(m) ==
    /\ m \in timers
    /\ HasRoom
    /\ timers' = timers \ {m}
    /\ channel' = Append(channel, m)
    /\ UNCHANGED <<config, pc, locals, handled, trace, outcome>>

-----------------------------------------------------------------------------
(* process_message *)

\* Take the next message and run the built-in handler, whose mail may fail.
Receive ==
    /\ pc = "receive"
    /\ channel # <<>>
    /\ msg' = Head(channel)
    /\ channel' = Tail(channel)
    /\ allSucceeded' \in IF RunsBuiltin(msg') THEN BOOLEAN ELSE {TRUE}
    /\ dlqRequested' = FALSE
    /\ todo' = Subscribed(Event(msg'))
    /\ handled' = [handled EXCEPT ![Event(msg')] = {}]
    /\ pc' = "cells"
    /\ UNCHANGED <<config, timers, trace, outcome>>

RunCellForgetsError(c, verdict) ==
    /\ pc = "cells"
    /\ c \in todo
    /\ allSucceeded' = (allSucceeded /\ verdict # "dead_letter")
    /\ dlqRequested' = (dlqRequested \/ verdict = "dead_letter")
    /\ todo' = IF allSucceeded' THEN todo \ {c} ELSE {}
    /\ handled' = IF verdict = "ok"
                  THEN [handled EXCEPT ![Event(msg)] = @ \cup {c}] ELSE handled
    /\ UNCHANGED <<config, channel, timers, pc, msg, trace, outcome>>

\* One cell runs; a failure so far, its own or the built-in's, ends the loop.
RunCell(c, verdict) ==
    /\ pc = "cells"
    /\ c \in todo
    /\ allSucceeded' = (allSucceeded /\ verdict = "ok")
    /\ dlqRequested' = (dlqRequested \/ verdict = "dead_letter")
    /\ todo' = IF allSucceeded' THEN todo \ {c} ELSE {}
    /\ handled' = IF verdict = "ok"
                  THEN [handled EXCEPT ![Event(msg)] = @ \cup {c}] ELSE handled
    /\ UNCHANGED <<config, channel, timers, pc, msg, trace, outcome>>

ConcludeOnce(status) ==
    /\ pc = "cells"
    /\ todo = {}
    /\ trace' = [trace EXCEPT ![Event(msg)] = IF @ = "none" THEN status ELSE @]

\* All cells are done: the trace is stored before the broker hears of it.
Conclude(status) ==
    /\ pc = "cells"
    /\ todo = {}
    /\ trace' = [trace EXCEPT ![Event(msg)] = status]

\* process_message returns; the consumer loop asks for the next message.
Return ==
    /\ pc' = "receive"
    /\ msg' = NoMessage
    /\ UNCHANGED <<todo, allSucceeded, dlqRequested>>

Leave(how) == outcome' = [outcome EXCEPT ![Event(msg)] = how]

Ack ==
    /\ allSucceeded /\ ~dlqRequested
    /\ Conclude("completed")
    /\ Leave("acked")
    /\ Return
    /\ UNCHANGED <<config, channel, timers, handled>>

NackKeepsAttempt ==
    /\ ~allSucceeded /\ ~dlqRequested /\ msg.attempt < MaxRetries
    /\ Conclude("failed")
    /\ IF adapter = "nats"
       THEN Leave("lost") /\ UNCHANGED timers
       ELSE timers' = timers \cup {msg} /\ UNCHANGED outcome
    /\ Return
    /\ UNCHANGED <<config, channel, handled>>

NackOnceTooOften ==
    /\ ~allSucceeded /\ ~dlqRequested /\ msg.attempt <= MaxRetries
    /\ Conclude("failed")
    /\ IF adapter = "nats"
       THEN Leave("lost") /\ UNCHANGED timers
       ELSE /\ timers' = timers \cup {[msg EXCEPT !.attempt = @ + 1]}
            /\ UNCHANGED outcome
    /\ Return
    /\ UNCHANGED <<config, channel, handled>>

\* The in-memory nack spawns a timer; the NATS adapter's nack does nothing.
Nack ==
    /\ ~allSucceeded /\ ~dlqRequested /\ msg.attempt < MaxRetries
    /\ Conclude("failed")
    /\ IF adapter = "nats"
       THEN Leave("lost") /\ UNCHANGED timers
       ELSE /\ timers' = timers \cup {[msg EXCEPT !.attempt = @ + 1]}
            /\ UNCHANGED outcome
    /\ Return
    /\ UNCHANGED <<config, channel, handled>>

GaveUp == dlqRequested \/ (~allSucceeded /\ msg.attempt >= MaxRetries)

\* Dead-lettering is switched off: the message is acknowledged all the same.
Drop ==
    /\ GaveUp /\ ~dlqEnabled
    /\ Conclude(IF dlqRequested THEN "dlq" ELSE "failed")
    /\ Leave("dropped")
    /\ Return
    /\ UNCHANGED <<config, channel, timers, handled>>

GiveUp ==
    /\ GaveUp /\ dlqEnabled
    /\ Conclude(IF dlqRequested THEN "dlq" ELSE "failed")
    /\ pc' = "publishDlq"
    /\ UNCHANGED <<config, channel, timers, locals, handled, outcome>>

PublishDlqSkipped ==
    /\ pc = "publishDlq"
    /\ HasRoom
    /\ Leave("dead")
    /\ Return
    /\ UNCHANGED <<config, channel, timers, handled, trace>>

PublishDlqWithoutPrefix ==
    /\ pc = "publishDlq"
    /\ HasRoom
    /\ Leave("dead")
    /\ channel' = Append(channel, [msg EXCEPT !.attempt = 1])
    /\ Return
    /\ UNCHANGED <<config, timers, handled, trace>>

\* The envelope goes out as a fresh message on dlq.<topic>, then the original
\* is acknowledged.  The in-memory channel has one receiver whatever the
\* subjects, so the envelope comes back to this consumer; the NATS consumer
\* does not subscribe to dlq.>, and a publish error there is ignored.
PublishDlq ==
    /\ pc = "publishDlq"
    /\ HasRoom
    /\ IF adapter = "nats"
       THEN (Leave("dead") \/ Leave("lost")) /\ UNCHANGED channel
       ELSE /\ Leave("dead")
            /\ channel' = IF msg.depth = MaxDepth THEN channel
                          ELSE Append(channel, [id |-> msg.id,
                                                depth |-> msg.depth + 1,
                                                attempt |-> 1])
    /\ Return
    /\ UNCHANGED <<config, timers, handled, trace>>

Consume ==
    \/ Receive
    \/ \E c \in Cells, verdict \in Verdict : RunCell(c, verdict)
    \/ Ack \/ Nack \/ Drop \/ GiveUp \/ PublishDlq

Next ==
    \/ \E id \in Messages : Publish(id)
    \/ \E m \in timers : Redeliver(m)
    \/ Consume

Spec == Init /\ [][Next]_vars

\* The consumer task is scheduled and every call it awaits returns, but for a
\* send that finds no room.  The channel hands out permits in order, so a
\* timer that waits for one gets it if room appears again and again.  Nothing
\* obliges a producer to publish.
FairSpec ==
    /\ Spec
    /\ WF_vars(Consume)
    /\ \A m \in Delivered : SF_vars(Redeliver(m))

-----------------------------------------------------------------------------
(* Properties *)

TypeOK ==
    /\ adapter \in Adapters
    /\ dlqEnabled \in BOOLEAN
    /\ channel \in Seq(Delivered)
    /\ timers \subseteq Delivered
    /\ pc \in {"receive", "cells", "publishDlq"}
    /\ msg \in IF Holding THEN Delivered ELSE {NoMessage}
    /\ todo \subseteq Cells
    /\ allSucceeded \in BOOLEAN
    /\ dlqRequested \in BOOLEAN
    /\ handled \in [Events -> SUBSET Cells]
    /\ trace \in [Events -> {"none", "completed", "failed", "dlq"}]
    /\ outcome \in [Events -> {"absent", "acked", "dead", "dropped", "lost"}]

\* No event is ever in two places: a channel slot, a backoff timer and the
\* consumer's hands hold at most one copy of it between them, and none once
\* its outcome is decided.  A retry that also stayed queued, or an event that
\* was both retried and dead-lettered, would run cells twice for one failure.
OneCopy ==
    /\ \A i, j \in DOMAIN channel :
            Event(channel[i]) = Event(channel[j]) => i = j
    /\ \A m, n \in timers : Event(m) = Event(n) => m = n
    /\ Queued \cap Waiting = {}
    /\ (Queued \cup Waiting) \cap Held = {}
    /\ \A e \in Live : outcome[e] = "absent"

\* An acknowledged event was answered ok by every cell subscribed to it, in
\* one and the same attempt.
AckedMeansHandled ==
    \A e \in Events : outcome[e] = "acked" => handled[e] = Subscribed(e)

\* Through the in-memory broker, an event that was buried has its envelope on
\* the DLQ topic, or the envelope's own processing has ended.
BuriedIsInDlq ==
    adapter = "in_memory" =>
        \A e \in Events : outcome[e] = "dead" /\ e[2] < MaxDepth =>
            Envelope(e) \in Live \/ outcome[Envelope(e)] # "absent"

\* The operator's trace tells the same story as the broker: a completed trace
\* is never the trace of an event that was retried into the DLQ, and a failed
\* one never that of an event that was acknowledged as done.
TraceTellsOutcome ==
    \A e \in Events :
        /\ outcome[e] = "acked" => trace[e] = "completed"
        /\ outcome[e] \in {"dead", "dropped"} => trace[e] \in {"failed", "dlq"}

\* With room for every event that can be in flight, the consumer never waits
\* for itself: it is the only receiver of the channel it publishes to.
NeverBlockedOnItself ==
    pc = "publishDlq" => HasRoom

\* What the abstract pipeline calls the status, tries and wishes of an event.
StatusOf(e) == IF e \in Live THEN "pending" ELSE outcome[e]

TriesOf(e) ==
    IF Holding /\ Event(msg) = e THEN msg.attempt
    ELSE LET copies == {channel[i] : i \in DOMAIN channel} \cup timers IN
         IF \E m \in copies : Event(m) = e
         THEN (CHOOSE m \in copies : Event(m) = e).attempt - 1
         ELSE 0

Promise == INSTANCE Delivery WITH
    status <- [e \in Events |-> StatusOf(e)],
    tries  <- [e \in Events |-> TriesOf(e)],
    asked  <- IF Holding /\ dlqRequested THEN {Event(msg)} ELSE {},
    lossy  <- adapter = "nats"

\* The pipeline implements Delivery, its liveness included: every published
\* event is tried, at most MaxTries times, and settled exactly once.
KeepsPromise == Promise!FairSpec

\* The retry diagram of docs/durable-steps-and-resilience.md: a failed event
\* is executed again or ends in the DLQ.  Not so through the NATS adapter.
NothingLost == \A e \in Events : outcome[e] # "lost"

\* "Primary Stream Unblocking" of the same document: a message that is being
\* dead-lettered leaves the consumer.
DlqUnblocksStream == pc = "publishDlq" ~> pc = "receive"
=============================================================================
