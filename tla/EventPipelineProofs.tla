------------------------- MODULE EventPipelineProofs -------------------------
(* Safety of the event pipeline, for any messages, cells, capacity, retry    *)
(* limit and DLQ depth, through either broker adapter.                       *)
EXTENDS EventPipeline, FiniteSetTheorems, TLAPS

\* An envelope exists only once the event it reports has been buried, so that
\* the copy a dead letter adds is the first of its event.
EnvelopeAfterBurial ==
    \A e \in Events : e[2] < MaxDepth /\ outcome[e] # "dead" =>
        Envelope(e) \notin Live /\ outcome[Envelope(e)] = "absent"

\* While nothing has failed, each subscribed cell either answered or is still
\* to be run.
CellsAccounted ==
    pc = "cells" /\ allSucceeded =>
        handled[Event(msg)] \cup todo = Subscribed(Event(msg))

\* What is being dead-lettered has a trace that says so.
TracedBeforeDlq ==
    pc = "publishDlq" => trace[Event(msg)] \in {"failed", "dlq"}

Copies == OneCopy /\ EnvelopeAfterBurial

\* A step never lets an event slip out of every place unsettled.
NoneForgotten == \A e \in Live : e \in Live' \/ outcome'[e] # "absent"

-----------------------------------------------------------------------------
(* Facts about the channel as a sequence of distinct events *)

QueuedIn(ch) == {Event(ch[i]) : i \in DOMAIN ch}
DistinctIn(ch) == \A i, j \in DOMAIN ch : Event(ch[i]) = Event(ch[j]) => i = j

LEMMA AppendEvents ==
    ASSUME NEW ch \in Seq(Delivered), NEW m \in Delivered
    PROVE  /\ Append(ch, m) \in Seq(Delivered)
           /\ QueuedIn(Append(ch, m)) = QueuedIn(ch) \cup {Event(m)}
           /\ DistinctIn(ch) /\ Event(m) \notin QueuedIn(ch)
                => DistinctIn(Append(ch, m))
<1> DEFINE a == Append(ch, m)
<1>1. /\ a \in Seq(Delivered)
      /\ DOMAIN a = 1..(Len(ch) + 1) /\ DOMAIN ch = 1..Len(ch)
      /\ Len(ch) \in Nat
      /\ \A i \in 1..Len(ch) : a[i] = ch[i]
      /\ a[Len(ch) + 1] = m
  OBVIOUS
<1> HIDE DEF a
<1>2. 1..(Len(ch) + 1) = (1..Len(ch)) \cup {Len(ch) + 1}
  BY <1>1
<1>3. QueuedIn(a) = QueuedIn(ch) \cup {Event(m)}
  BY <1>1, <1>2 DEF QueuedIn
<1>4. ASSUME DistinctIn(ch), Event(m) \notin QueuedIn(ch)
      PROVE  DistinctIn(a)
  <2> SUFFICES ASSUME NEW i \in DOMAIN a, NEW j \in DOMAIN a,
                      Event(a[i]) = Event(a[j])
               PROVE  i = j
    BY DEF DistinctIn
  <2>1. CASE i \in DOMAIN ch /\ j \in DOMAIN ch
    BY <1>1, <1>4, <2>1 DEF DistinctIn
  <2>2. CASE i \in DOMAIN ch /\ j = Len(ch) + 1
    BY <1>1, <1>4, <2>2 DEF QueuedIn
  <2>3. CASE j \in DOMAIN ch /\ i = Len(ch) + 1
    BY <1>1, <1>4, <2>3 DEF QueuedIn
  <2>4. QED
    BY <1>1, <1>2, <2>1, <2>2, <2>3
<1>5. QED
  BY <1>1, <1>3, <1>4 DEF a

LEMMA TailEvents ==
    ASSUME NEW ch \in Seq(Delivered), ch # <<>>, DistinctIn(ch)
    PROVE  /\ Head(ch) \in Delivered
           /\ Tail(ch) \in Seq(Delivered)
           /\ Event(Head(ch)) \in QueuedIn(ch)
           /\ QueuedIn(Tail(ch)) = QueuedIn(ch) \ {Event(Head(ch))}
           /\ DistinctIn(Tail(ch))
<1> DEFINE u == Tail(ch)
<1>1. /\ u \in Seq(Delivered) /\ Head(ch) \in Delivered
      /\ Len(ch) \in Nat \ {0}
      /\ DOMAIN ch = 1..Len(ch) /\ DOMAIN u = 1..(Len(ch) - 1)
      /\ Head(ch) = ch[1]
      /\ \A i \in 1..(Len(ch) - 1) : u[i] = ch[i + 1]
  OBVIOUS
<1> HIDE DEF u
<1>2. QueuedIn(u) \subseteq QueuedIn(ch) \ {Event(Head(ch))}
  <2> SUFFICES ASSUME NEW i \in DOMAIN u
               PROVE  Event(u[i]) \in QueuedIn(ch) /\ Event(u[i]) # Event(ch[1])
    BY <1>1 DEF QueuedIn
  <2>1. i + 1 \in DOMAIN ch /\ 1 \in DOMAIN ch /\ i + 1 # 1 /\ u[i] = ch[i + 1]
    BY <1>1
  <2>2. QED
    BY <2>1 DEF QueuedIn, DistinctIn
<1>3. QueuedIn(ch) \ {Event(Head(ch))} \subseteq QueuedIn(u)
  <2> SUFFICES ASSUME NEW i \in DOMAIN ch, Event(ch[i]) # Event(ch[1])
               PROVE  Event(ch[i]) \in QueuedIn(u)
    BY <1>1 DEF QueuedIn
  <2>1. i - 1 \in DOMAIN u /\ u[i - 1] = ch[i]
    BY <1>1
  <2>2. QED
    BY <2>1 DEF QueuedIn
<1>4. DistinctIn(u)
  <2> SUFFICES ASSUME NEW i \in DOMAIN u, NEW j \in DOMAIN u,
                      Event(u[i]) = Event(u[j])
               PROVE  i = j
    BY DEF DistinctIn
  <2>1. i + 1 \in DOMAIN ch /\ j + 1 \in DOMAIN ch
        /\ u[i] = ch[i + 1] /\ u[j] = ch[j + 1]
    BY <1>1
  <2>2. i + 1 = j + 1
    BY <2>1 DEF DistinctIn
  <2>3. QED
    BY <1>1, <2>2
<1>5. Event(Head(ch)) \in QueuedIn(ch)
  BY <1>1 DEF QueuedIn
<1>6. QED
  BY <1>1, <1>2, <1>3, <1>4, <1>5 DEF u

-----------------------------------------------------------------------------
(* Types *)

LEMMA MaxTriesIsNat == MaxTries \in Nat /\ 1 \in 1..MaxTries /\ 0 \in 0..MaxDepth
BY PipelineAssumption DEF MaxTries

LEMMA EventTyped ==
    /\ \A m \in Delivered : Event(m) \in Events
    /\ \A e \in Events : Subscribed(e) \subseteq Cells
<1>1. \A m \in Delivered : Event(m) \in Events
  BY DEF Delivered, Event, Events
<1>2. \A e \in Events : Subscribed(e) \subseteq Cells
  BY PipelineAssumption DEF Subscribed
<1>3. QED
  BY <1>1, <1>2

LEMMA FirstDelivery ==
    ASSUME NEW id \in Messages, NEW d \in 0..MaxDepth
    PROVE  [id |-> id, depth |-> d, attempt |-> 1] \in Delivered
BY MaxTriesIsNat DEF Delivered

LEMMA ConcludeTyped ==
    ASSUME TypeOK, NEW s \in {"completed", "failed", "dlq"}, Conclude(s)
    PROVE  /\ trace' \in [Events -> {"none", "completed", "failed", "dlq"}]
           /\ trace' = [trace EXCEPT ![Event(msg)] = s]
           /\ Event(msg) \in Events
           /\ msg \in Delivered
BY EventTyped DEF TypeOK, Conclude, Holding

LEMMA LeaveTyped ==
    ASSUME TypeOK, NEW how \in {"acked", "dead", "dropped", "lost"}, Leave(how)
    PROVE  outcome' \in [Events -> {"absent", "acked", "dead", "dropped", "lost"}]
BY DEF TypeOK, Leave

LEMMA ReturnTyped ==
    ASSUME TypeOK, Return
    PROVE  /\ pc' \in {"receive", "cells", "publishDlq"}
           /\ msg' \in (IF Holding' THEN Delivered ELSE {NoMessage})
           /\ todo' \subseteq Cells
           /\ allSucceeded' \in BOOLEAN
           /\ dlqRequested' \in BOOLEAN
BY DEF TypeOK, Return, Holding

LEMMA TypeOKStep == TypeOK /\ [Next]_vars => TypeOK'
<1> SUFFICES ASSUME TypeOK, [Next]_vars PROVE TypeOK'
  OBVIOUS
<1>1. ASSUME NEW id \in Messages, Publish(id) PROVE TypeOK'
  <2>1. channel' \in Seq(Delivered)
    BY <1>1, FirstDelivery, AppendEvents, MaxTriesIsNat DEF Publish, TypeOK
  <2>2. QED
    BY <1>1, <2>1 DEF Publish, TypeOK, config, locals, Holding
<1>2. ASSUME NEW m \in timers, Redeliver(m) PROVE TypeOK'
  <2>1. channel' \in Seq(Delivered) /\ timers' \subseteq Delivered
    BY <1>2, AppendEvents DEF Redeliver, TypeOK
  <2>2. QED
    BY <1>2, <2>1 DEF Redeliver, TypeOK, config, locals, Holding
<1>3. CASE Receive
  <2>1. msg' \in Delivered /\ channel' \in Seq(Delivered)
    BY <1>3 DEF Receive, TypeOK
  <2>2. Event(msg') \in Events /\ Subscribed(Event(msg')) \subseteq Cells
    BY <2>1, EventTyped
  <2>3. allSucceeded' \in BOOLEAN
    BY <1>3 DEF Receive
  <2>4. handled' \in [Events -> SUBSET Cells]
    BY <1>3 DEF Receive, TypeOK
  <2>5. QED
    BY <1>3, <2>1, <2>2, <2>3, <2>4 DEF Receive, TypeOK, config, Holding
<1>4. ASSUME NEW c \in Cells, NEW v \in Verdict, RunCell(c, v) PROVE TypeOK'
  <2>1. handled' \in [Events -> SUBSET Cells]
    BY <1>4 DEF RunCell, TypeOK
  <2>2. allSucceeded' \in BOOLEAN /\ dlqRequested' \in BOOLEAN
    BY <1>4 DEF RunCell, TypeOK
  <2>3. QED
    BY <1>4, <2>1, <2>2 DEF RunCell, TypeOK, config, Holding
<1>5. CASE Ack
  BY <1>5, ConcludeTyped, LeaveTyped, ReturnTyped DEF Ack, TypeOK, config
<1>6. CASE Nack
  <2>1. [msg EXCEPT !.attempt = @ + 1] \in Delivered
    <3>1. msg \in Delivered /\ msg.attempt < MaxRetries
      BY <1>6, ConcludeTyped DEF Nack
    <3>2. msg.attempt + 1 \in 1..MaxTries
      BY <3>1, PipelineAssumption DEF MaxTries, Delivered
    <3>3. QED
      BY <3>1, <3>2 DEF Delivered
  <2>2. timers' \subseteq Delivered
    BY <1>6, <2>1 DEF Nack, TypeOK
  <2>3. outcome' \in [Events -> {"absent", "acked", "dead", "dropped", "lost"}]
    BY <1>6, LeaveTyped DEF Nack, TypeOK
  <2>4. QED
    BY <1>6, <2>2, <2>3, ConcludeTyped, ReturnTyped DEF Nack, TypeOK, config
<1>7. CASE Drop
  <2>1. (IF dlqRequested THEN "dlq" ELSE "failed") \in {"completed", "failed", "dlq"}
    OBVIOUS
  <2>2. QED
    BY <1>7, <2>1, ConcludeTyped, LeaveTyped, ReturnTyped DEF Drop, TypeOK, config
<1>8. CASE GiveUp
  <2>1. (IF dlqRequested THEN "dlq" ELSE "failed") \in {"completed", "failed", "dlq"}
    OBVIOUS
  <2>2. QED
    BY <1>8, <2>1, ConcludeTyped DEF GiveUp, TypeOK, config, locals, Holding
<1>9. CASE PublishDlq
  <2>1. msg \in Delivered
    BY <1>9 DEF PublishDlq, TypeOK, Holding
  <2>2. channel' \in Seq(Delivered)
    <3>1. CASE adapter = "nats" \/ msg.depth = MaxDepth
      BY <1>9, <3>1 DEF PublishDlq, TypeOK
    <3>2. CASE adapter # "nats" /\ msg.depth # MaxDepth
      <4>1. msg.id \in Messages /\ msg.depth + 1 \in 0..MaxDepth
        BY <2>1, <3>2, PipelineAssumption DEF Delivered
      <4>2. QED
        BY <1>9, <3>2, <4>1, FirstDelivery, AppendEvents DEF PublishDlq, TypeOK
    <3>3. QED
      BY <3>1, <3>2
  <2>3. outcome' \in [Events -> {"absent", "acked", "dead", "dropped", "lost"}]
    BY <1>9, LeaveTyped DEF PublishDlq
  <2>4. QED
    BY <1>9, <2>2, <2>3, ReturnTyped DEF PublishDlq, TypeOK, config
<1>10. CASE UNCHANGED vars
  BY <1>10 DEF vars, TypeOK, Holding
<1>11. QED
  BY <1>1, <1>2, <1>3, <1>4, <1>5, <1>6, <1>7, <1>8, <1>9, <1>10
  DEF Next, Consume

-----------------------------------------------------------------------------
(* Where events are: what each action does to the places that hold them *)

LEMMA EnvelopeFacts ==
    ASSUME NEW e \in Events, e[2] < MaxDepth
    PROVE  /\ Envelope(e) \in Events
           /\ Envelope(e) # e
           /\ \A id \in Messages : Envelope(e) # <<id, 0>>
           /\ \A d \in Events : Envelope(d) = Envelope(e) => d = e
<1>1. e = <<e[1], e[2]>> /\ e[1] \in Messages /\ e[2] \in 0..MaxDepth
  BY DEF Events
<1>2. Envelope(e) \in Events
  BY <1>1, PipelineAssumption DEF Events, Envelope
<1>3. ASSUME NEW d \in Events, Envelope(d) = Envelope(e) PROVE d = e
  <2>1. d = <<d[1], d[2]>> /\ d[2] \in 0..MaxDepth
    BY DEF Events
  <2>2. d[1] = e[1] /\ d[2] + 1 = e[2] + 1
    BY <1>3 DEF Envelope
  <2>3. QED
    BY <1>1, <2>1, <2>2
<1>4. QED
  BY <1>1, <1>2, <1>3 DEF Envelope

LEMMA LiveTyped == TypeOK => Live \subseteq Events
<1> SUFFICES ASSUME TypeOK PROVE Live \subseteq Events
  OBVIOUS
<1>1. \A i \in DOMAIN channel : channel[i] \in Delivered
  BY DEF TypeOK
<1>2. timers \subseteq Delivered /\ (Holding => msg \in Delivered)
  BY DEF TypeOK
<1>3. QED
  BY <1>1, <1>2, EventTyped DEF Live, Queued, Waiting, Held

\* The places of a state that satisfies OneCopy, as the lemmas below cite them.
LEMMA Places ==
    ASSUME OneCopy
    PROVE  /\ Queued = QueuedIn(channel) /\ DistinctIn(channel)
           /\ Queued \cap Waiting = {}
           /\ (Queued \cup Waiting) \cap Held = {}
           /\ Live = Queued \cup Waiting \cup Held
           /\ \A e \in Live : outcome[e] = "absent"
           /\ \A m, n \in timers : Event(m) = Event(n) => m = n
BY DEF OneCopy, DistinctIn, QueuedIn, Queued, Live

LEMMA OneCopyFromPlaces ==
    ASSUME DistinctIn(channel)',
           \A m, n \in timers' : Event(m) = Event(n) => m = n,
           Queued' \cap Waiting' = {},
           (Queued' \cup Waiting') \cap Held' = {},
           \A e \in Live' : outcome'[e] = "absent"
    PROVE  OneCopy'
BY DEF OneCopy, DistinctIn

\* Nothing moves and nothing is settled.
LEMMA CopiesUnmoved ==
    ASSUME Copies, UNCHANGED <<channel, timers, Held, outcome>>
    PROVE  Copies' /\ NoneForgotten
BY DEF Copies, OneCopy, EnvelopeAfterBurial, NoneForgotten, Queued, Waiting, Live

LEMMA PublishCopies ==
    ASSUME TypeOK, Copies, NEW id \in Messages, Publish(id)
    PROVE  Copies' /\ NoneForgotten /\ Live' = Live \cup {<<id, 0>>}
<1> DEFINE m == [id |-> id, depth |-> 0, attempt |-> 1]
<1>1. m \in Delivered /\ Event(m) = <<id, 0>> /\ Event(m) \in Events
  BY FirstDelivery, MaxTriesIsNat, EventTyped DEF Event
<1>2. Event(m) \notin Live /\ outcome[Event(m)] = "absent"
  BY <1>1 DEF Publish
<1>3. channel' = Append(channel, m) /\ UNCHANGED <<timers, Held, outcome>>
  BY DEF Publish, locals, Held, Holding
<1>. HIDE DEF m
<1>4. Queued' = Queued \cup {Event(m)} /\ DistinctIn(channel)'
  <2>1. channel \in Seq(Delivered) /\ DistinctIn(channel)
        /\ Queued = QueuedIn(channel) /\ Event(m) \notin QueuedIn(channel)
    BY <1>2, Places DEF Copies, TypeOK, Live
  <2>2. QueuedIn(channel') = QueuedIn(channel) \cup {Event(m)}
        /\ DistinctIn(channel')
    BY <1>1, <1>3, <2>1, AppendEvents
  <2>3. QED
    BY <2>1, <2>2 DEF Queued, QueuedIn
<1>5. Waiting' = Waiting
  BY <1>3 DEF Waiting
<1>6. Live' = Live \cup {Event(m)}
  BY <1>3, <1>4, <1>5 DEF Live
<1>7. OneCopy'
  BY <1>2, <1>3, <1>4, <1>5, <1>6, Places, OneCopyFromPlaces DEF Copies
<1>8. EnvelopeAfterBurial'
  BY <1>1, <1>3, <1>6, EnvelopeFacts DEF Copies, EnvelopeAfterBurial
<1>9. QED
  BY <1>1, <1>6, <1>7, <1>8 DEF Copies, NoneForgotten

LEMMA RedeliverCopies ==
    ASSUME TypeOK, Copies, NEW m \in timers, Redeliver(m)
    PROVE  Copies' /\ NoneForgotten /\ Live' = Live
<1>1. m \in Delivered /\ Event(m) \in Waiting
  BY DEF TypeOK, Waiting
<1>2. channel' = Append(channel, m) /\ timers' = timers \ {m}
      /\ UNCHANGED <<Held, outcome>>
  BY DEF Redeliver, locals, Held, Holding
<1>3. Queued' = Queued \cup {Event(m)} /\ DistinctIn(channel)'
  <2>1. channel \in Seq(Delivered) /\ DistinctIn(channel)
        /\ Queued = QueuedIn(channel) /\ Event(m) \notin QueuedIn(channel)
    BY <1>1, Places DEF Copies, TypeOK
  <2>2. QueuedIn(channel') = QueuedIn(channel) \cup {Event(m)}
        /\ DistinctIn(channel')
    BY <1>1, <1>2, <2>1, AppendEvents
  <2>3. QED
    BY <2>1, <2>2 DEF Queued, QueuedIn
<1>4. Waiting' = Waiting \ {Event(m)}
  BY <1>2, Places DEF Copies, Waiting
<1>5. Live' = Live
  BY <1>1, <1>2, <1>3, <1>4 DEF Live
<1>6. OneCopy'
  BY <1>1, <1>2, <1>3, <1>4, <1>5, Places, OneCopyFromPlaces DEF Copies
<1>7. EnvelopeAfterBurial'
  BY <1>2, <1>5 DEF Copies, EnvelopeAfterBurial
<1>8. QED
  BY <1>5, <1>6, <1>7 DEF Copies, NoneForgotten

LEMMA ReceiveCopies ==
    ASSUME TypeOK, Copies, Receive
    PROVE  Copies' /\ NoneForgotten /\ Live' = Live
<1> DEFINE e == Event(Head(channel))
<1>1. channel # <<>> /\ channel' = Tail(channel)
      /\ UNCHANGED <<timers, Waiting, outcome>>
  BY DEF Receive, Waiting
<1>2. Held = {} /\ Held' = {e}
  BY DEF Receive, Held, Holding
<1>. HIDE DEF e
<1>3. e \in Queued /\ Queued' = Queued \ {e} /\ DistinctIn(channel)'
  <2>1. channel \in Seq(Delivered) /\ DistinctIn(channel)
        /\ Queued = QueuedIn(channel)
    BY Places DEF Copies, TypeOK
  <2>2. e \in QueuedIn(channel) /\ QueuedIn(channel') = QueuedIn(channel) \ {e}
        /\ DistinctIn(channel')
    BY <1>1, <2>1, TailEvents DEF e
  <2>3. QED
    BY <2>1, <2>2 DEF Queued, QueuedIn
<1>4. Live' = Live
  BY <1>1, <1>2, <1>3 DEF Live
<1>5. OneCopy'
  BY <1>1, <1>2, <1>3, <1>4, Places, OneCopyFromPlaces DEF Copies
<1>6. EnvelopeAfterBurial'
  BY <1>1, <1>4 DEF Copies, EnvelopeAfterBurial
<1>7. QED
  BY <1>4, <1>5, <1>6 DEF Copies, NoneForgotten

\* The consumer lets go of an event whose outcome is decided.
LEMMA SettledCopies ==
    ASSUME TypeOK, Copies, Holding, Return,
           NEW how \in {"acked", "dead", "dropped", "lost"}, Leave(how),
           UNCHANGED <<channel, timers>>
    PROVE  Copies' /\ NoneForgotten /\ Live' = Live \ {Event(msg)}
<1> DEFINE e == Event(msg)
<1>1. e \in Events /\ Held = {e} /\ Held' = {}
  BY EventTyped DEF TypeOK, Held, Holding, Return
<1>2. Queued' = Queued /\ Waiting' = Waiting
  BY DEF Queued, Waiting
<1>3. outcome' = [outcome EXCEPT ![e] = how]
  BY DEF Leave
<1>4. e \in Live /\ outcome[e] = "absent"
  BY <1>1, Places DEF Copies
<1>. HIDE DEF e
<1>5. e \notin Live' /\ Live' = Live \ {e}
  BY <1>1, <1>2, Places DEF Copies, Live
<1>6. \A d \in Events : d # e => outcome'[d] = outcome[d]
  BY <1>3 DEF TypeOK
<1>7. OneCopy'
  <2>1. \A d \in Live' : outcome'[d] = "absent"
    BY <1>5, <1>6, Places, LiveTyped DEF Copies
  <2>2. QED
    BY <1>1, <1>2, <2>1, Places, OneCopyFromPlaces DEF Copies, DistinctIn
<1>8. EnvelopeAfterBurial'
  <2> SUFFICES ASSUME NEW d \in Events, d[2] < MaxDepth, outcome'[d] # "dead"
               PROVE  Envelope(d) \notin Live' /\ outcome'[Envelope(d)] = "absent"
    BY DEF EnvelopeAfterBurial
  <2>1. Envelope(d) \in Events /\ Envelope(d) # d
    BY EnvelopeFacts
  <2>2. outcome[d] # "dead"
    BY <1>4, <1>6
  <2>3. Envelope(d) \notin Live /\ outcome[Envelope(d)] = "absent"
    BY <2>2 DEF Copies, EnvelopeAfterBurial
  <2>4. QED
    BY <1>4, <1>5, <1>6, <2>1, <2>3
<1>9. NoneForgotten
  BY <1>1, <1>3, <1>5 DEF NoneForgotten, TypeOK
<1>10. QED
  BY <1>5, <1>7, <1>8, <1>9 DEF Copies, e

\* The held event goes to a backoff timer.
LEMMA RetriedCopies ==
    ASSUME TypeOK, Copies, Holding, Return,
           timers' = timers \cup {[msg EXCEPT !.attempt = @ + 1]},
           UNCHANGED <<channel, outcome>>
    PROVE  Copies' /\ NoneForgotten /\ Live' = Live
<1> DEFINE m == [msg EXCEPT !.attempt = @ + 1]
<1>1. Event(m) = Event(msg) /\ Held = {Event(m)} /\ Held' = {}
  BY DEF TypeOK, Held, Holding, Return, Delivered, Event
<1>2. timers' = timers \cup {m}
  OBVIOUS
<1>. HIDE DEF m
<1>3. Queued' = Queued /\ Waiting' = Waiting \cup {Event(m)}
  BY <1>2 DEF Queued, Waiting
<1>4. Event(m) \notin Queued \cup Waiting
  BY <1>1, Places DEF Copies
<1>5. Live' = Live
  BY <1>1, <1>3 DEF Live
<1>6. \A k, n \in timers' : Event(k) = Event(n) => k = n
  BY <1>2, <1>4, Places DEF Copies, Waiting
<1>7. OneCopy'
  BY <1>1, <1>3, <1>4, <1>5, <1>6, Places, OneCopyFromPlaces
  DEF Copies, DistinctIn
<1>8. EnvelopeAfterBurial'
  BY <1>5 DEF Copies, EnvelopeAfterBurial
<1>9. QED
  BY <1>5, <1>7, <1>8 DEF Copies, NoneForgotten

\* The held event is buried and its envelope takes a slot of the channel.
LEMMA BuriedCopies ==
    ASSUME TypeOK, Copies, Holding, Return, Leave("dead"),
           msg.depth # MaxDepth,
           channel' = Append(channel, [id |-> msg.id, depth |-> msg.depth + 1,
                                       attempt |-> 1]),
           UNCHANGED timers
    PROVE  /\ Copies' /\ NoneForgotten
           /\ Live' = (Live \ {Event(msg)}) \cup {Envelope(Event(msg))}
<1> DEFINE e == Event(msg)
           m == [id |-> msg.id, depth |-> msg.depth + 1, attempt |-> 1]
<1>1. msg \in Delivered /\ e \in Events /\ Held = {e} /\ Held' = {}
  BY EventTyped DEF TypeOK, Held, Holding, Return
<1>2. m \in Delivered /\ e[2] < MaxDepth /\ Event(m) = Envelope(e)
  <2>1. msg.id \in Messages /\ msg.depth \in 0..MaxDepth
    BY <1>1 DEF Delivered
  <2>2. msg.depth < MaxDepth /\ msg.depth + 1 \in 0..MaxDepth
    BY <2>1, PipelineAssumption
  <2>3. QED
    BY <2>1, <2>2, FirstDelivery DEF Event, Envelope
<1>3. outcome' = [outcome EXCEPT ![e] = "dead"] /\ channel' = Append(channel, m)
  BY DEF Leave
<1>4. e \in Live /\ outcome[e] = "absent"
  BY <1>1, Places DEF Copies
<1>. HIDE DEF e, m
<1>5. Envelope(e) \notin Live /\ outcome[Envelope(e)] = "absent"
      /\ Envelope(e) # e /\ Envelope(e) \in Events
  BY <1>1, <1>2, <1>4, EnvelopeFacts DEF Copies, EnvelopeAfterBurial
<1>6. Queued' = Queued \cup {Envelope(e)} /\ DistinctIn(channel)'
  <2>1. channel \in Seq(Delivered) /\ DistinctIn(channel)
        /\ Queued = QueuedIn(channel) /\ Event(m) \notin QueuedIn(channel)
    BY <1>2, <1>5, Places DEF Copies, TypeOK
  <2>2. QueuedIn(channel') = QueuedIn(channel) \cup {Event(m)}
        /\ DistinctIn(channel')
    BY <1>2, <1>3, <2>1, AppendEvents
  <2>3. QED
    BY <1>2, <2>1, <2>2 DEF Queued, QueuedIn
<1>7. Waiting' = Waiting
  BY DEF Waiting
<1>8. Live' = (Live \ {e}) \cup {Envelope(e)}
  BY <1>1, <1>5, <1>6, <1>7, Places DEF Copies, Live
<1>9. \A d \in Events : d # e => outcome'[d] = outcome[d]
  BY <1>3 DEF TypeOK
<1>10. OneCopy'
  <2>1. \A d \in Live' : outcome'[d] = "absent"
    BY <1>5, <1>8, <1>9, Places, LiveTyped DEF Copies
  <2>2. Queued' \cap Waiting' = {}
    BY <1>5, <1>6, <1>7, Places DEF Copies, Live
  <2>3. QED
    BY <1>1, <1>6, <1>7, <2>1, <2>2, Places, OneCopyFromPlaces DEF Copies
<1>11. EnvelopeAfterBurial'
  <2> SUFFICES ASSUME NEW d \in Events, d[2] < MaxDepth, outcome'[d] # "dead"
               PROVE  Envelope(d) \notin Live' /\ outcome'[Envelope(d)] = "absent"
    BY DEF EnvelopeAfterBurial
  <2>1. d # e
    BY <1>1, <1>3 DEF TypeOK
  <2>2. Envelope(d) \in Events /\ Envelope(d) # Envelope(e)
    BY <1>1, <1>2, <2>1, EnvelopeFacts
  <2>3. Envelope(d) \notin Live /\ outcome[Envelope(d)] = "absent"
    BY <1>9, <2>1 DEF Copies, EnvelopeAfterBurial
  <2>4. QED
    BY <1>4, <1>8, <1>9, <2>2, <2>3
<1>12. NoneForgotten
  BY <1>1, <1>3, <1>8 DEF NoneForgotten, TypeOK
<1>13. QED
  BY <1>8, <1>10, <1>11, <1>12 DEF Copies, e

\* Every step keeps at most one copy of each event, and forgets none.
LEMMA CopiesStep == TypeOK /\ Copies /\ [Next]_vars => Copies' /\ NoneForgotten
<1> SUFFICES ASSUME TypeOK, Copies, [Next]_vars
               PROVE  Copies' /\ NoneForgotten
  OBVIOUS
<1>1. ASSUME NEW id \in Messages, Publish(id) PROVE Copies' /\ NoneForgotten
  BY <1>1, PublishCopies
<1>2. ASSUME NEW m \in timers, Redeliver(m) PROVE Copies' /\ NoneForgotten
  BY <1>2, RedeliverCopies
<1>3. CASE Receive
  BY <1>3, ReceiveCopies
<1>4. ASSUME NEW c \in Cells, NEW v \in Verdict, RunCell(c, v)
      PROVE  Copies' /\ NoneForgotten
  BY <1>4, CopiesUnmoved DEF RunCell, Held, Holding
<1>5. CASE Ack
  BY <1>5, SettledCopies DEF Ack, Conclude, Holding
<1>6. CASE Nack
  <2>1. CASE adapter = "nats"
    BY <1>6, <2>1, SettledCopies DEF Nack, Conclude, Holding
  <2>2. CASE adapter # "nats"
    BY <1>6, <2>2, RetriedCopies DEF Nack, Conclude, Holding
  <2>3. QED
    BY <2>1, <2>2
<1>7. CASE Drop
  BY <1>7, SettledCopies DEF Drop, Conclude, Holding
<1>8. CASE GiveUp
  BY <1>8, CopiesUnmoved DEF GiveUp, Conclude, locals, Held, Holding
<1>9. CASE PublishDlq
  <2>1. CASE adapter = "nats" \/ msg.depth = MaxDepth
    BY <1>9, <2>1, SettledCopies DEF PublishDlq, Holding
  <2>2. CASE adapter # "nats" /\ msg.depth # MaxDepth
    BY <1>9, <2>2, BuriedCopies DEF PublishDlq, Holding
  <2>3. QED
    BY <2>1, <2>2
<1>10. CASE UNCHANGED vars
  BY <1>10, CopiesUnmoved DEF vars, Held, Holding
<1>11. QED
  BY <1>1, <1>2, <1>3, <1>4, <1>5, <1>6, <1>7, <1>8, <1>9, <1>10
  DEF Next, Consume

-----------------------------------------------------------------------------
(* Outcomes, answers and traces *)

\* An outcome, once decided, stays.
LEMMA OutcomeStays ==
    ASSUME TypeOK, Copies, [Next]_vars,
           NEW e \in Events, outcome[e] # "absent"
    PROVE  outcome'[e] = outcome[e]
<1>1. Holding => outcome[Event(msg)] = "absent"
  BY Places DEF Copies, Held
<1>2. ASSUME Holding, NEW how \in {"acked", "dead", "dropped", "lost"}, Leave(how)
      PROVE  outcome'[e] = outcome[e]
  BY <1>1, <1>2 DEF Leave, TypeOK
<1>3. CASE Ack
  BY <1>2, <1>3 DEF Ack, Conclude, Holding
<1>4. CASE Nack
  BY <1>2, <1>4 DEF Nack, Conclude, Holding
<1>5. CASE Drop
  BY <1>2, <1>5 DEF Drop, Conclude, Holding
<1>6. CASE PublishDlq
  BY <1>2, <1>6 DEF PublishDlq, Holding
<1>7. QED
  BY <1>3, <1>4, <1>5, <1>6
  DEF Next, Consume, vars, Publish, Redeliver, Receive, RunCell, GiveUp

LEMMA CellsAccountedStep ==
    TypeOK /\ CellsAccounted /\ [Next]_vars => CellsAccounted'
<1> SUFFICES ASSUME TypeOK, CellsAccounted, [Next]_vars,
                    pc' = "cells", allSucceeded'
             PROVE  handled'[Event(msg')] \cup todo' = Subscribed(Event(msg'))
  BY DEF CellsAccounted
<1>1. CASE Receive
  <2>1. Event(msg') \in Events
    BY <1>1, EventTyped DEF Receive, TypeOK
  <2>2. QED
    BY <1>1, <2>1 DEF Receive, TypeOK
<1>2. ASSUME NEW c \in Cells, NEW v \in Verdict, RunCell(c, v)
      PROVE  handled'[Event(msg')] \cup todo' = Subscribed(Event(msg'))
  <2>1. msg' = msg /\ Event(msg) \in Events /\ c \in todo
    BY <1>2, EventTyped DEF RunCell, TypeOK, Holding
  <2>2. allSucceeded /\ v = "ok" /\ todo' = todo \ {c}
    BY <1>2, Zenon DEF RunCell
  <2>3. handled'[Event(msg)] = handled[Event(msg)] \cup {c}
    BY <1>2, <2>1, <2>2 DEF RunCell, TypeOK
  <2>4. handled[Event(msg)] \cup todo = Subscribed(Event(msg))
    BY <1>2, <2>2 DEF RunCell, CellsAccounted
  <2>5. QED
    BY <2>1, <2>2, <2>3, <2>4
<1>3. QED
  BY <1>1, <1>2
  DEF Next, Consume, vars, CellsAccounted, Publish, Redeliver, locals, Ack, Nack,
      Drop, GiveUp, PublishDlq, Return

\* Only an event whose cells all answered is acknowledged, and what is recorded
\* of a settled event never changes.
LEMMA AckedStep ==
    TypeOK /\ Copies /\ CellsAccounted /\ AckedMeansHandled /\ [Next]_vars
        => AckedMeansHandled'
<1> SUFFICES ASSUME TypeOK, Copies, CellsAccounted, AckedMeansHandled, [Next]_vars,
                    NEW e \in Events, outcome'[e] = "acked"
             PROVE  handled'[e] = Subscribed(e)
  BY DEF AckedMeansHandled
<1>1. CASE outcome[e] = "acked"
  <2>1. handled[e] = Subscribed(e) /\ e \notin Live
    BY <1>1, Places DEF AckedMeansHandled, Copies
  <2>2. CASE Receive
    <3>1. Event(msg') \in Live
      BY <2>2, TailEvents, Places DEF Receive, Copies, TypeOK, Live
    <3>2. QED
      BY <2>1, <2>2, <3>1 DEF Receive, TypeOK
  <2>3. ASSUME NEW c \in Cells, NEW v \in Verdict, RunCell(c, v)
        PROVE  handled'[e] = handled[e]
    BY <2>1, <2>3 DEF RunCell, TypeOK, Live, Held, Holding
  <2>4. QED
    BY <2>1, <2>2, <2>3
    DEF Next, Consume, vars, Publish, Redeliver, Ack, Nack, Drop, GiveUp,
        PublishDlq
<1>2. CASE outcome[e] # "acked"
  <2>1. Ack /\ e = Event(msg)
    BY <1>2
    DEF Next, Consume, vars, Publish, Redeliver, Receive, RunCell, Ack, Nack,
        Drop, GiveUp, PublishDlq, Leave, TypeOK
  <2>2. handled[e] \cup todo = Subscribed(e) /\ todo = {} /\ handled' = handled
    BY <2>1 DEF Ack, Conclude, CellsAccounted
  <2>3. QED
    BY <2>2
<1>3. QED
  BY <1>1, <1>2

LEMMA BuriedStep ==
    TypeOK /\ Copies /\ BuriedIsInDlq /\ [Next]_vars => BuriedIsInDlq'
<1> SUFFICES ASSUME TypeOK, Copies, BuriedIsInDlq, [Next]_vars,
                    adapter' = "in_memory",
                    NEW e \in Events, outcome'[e] = "dead", e[2] < MaxDepth
             PROVE  Envelope(e) \in Live' \/ outcome'[Envelope(e)] # "absent"
  BY DEF BuriedIsInDlq
<1>1. adapter = "in_memory"
  BY DEF Next, Consume, vars, config, Publish, Redeliver, Receive, RunCell, Ack,
         Nack, Drop, GiveUp, PublishDlq
<1>2. Envelope(e) \in Events
  BY EnvelopeFacts
<1>3. CASE outcome[e] = "dead"
  <2>1. Envelope(e) \in Live \/ outcome[Envelope(e)] # "absent"
    BY <1>1, <1>3 DEF BuriedIsInDlq
  <2>2. QED
    BY <1>2, <2>1, CopiesStep, OutcomeStays DEF NoneForgotten
<1>4. CASE outcome[e] # "dead"
  <2>1. PublishDlq /\ e = Event(msg)
    BY <1>1, <1>4
    DEF Next, Consume, vars, Publish, Redeliver, Receive, RunCell, Ack, Nack,
        Drop, GiveUp, PublishDlq, Leave, TypeOK
  <2>2. msg.depth # MaxDepth
    BY <2>1, PipelineAssumption DEF Event, Events
  <2>3. QED
    BY <1>1, <2>1, <2>2, BuriedCopies DEF PublishDlq, Holding
<1>5. QED
  BY <1>3, <1>4

LEMMA TracedStep ==
    TypeOK /\ TracedBeforeDlq /\ [Next]_vars => TracedBeforeDlq'
<1> SUFFICES ASSUME TypeOK, TracedBeforeDlq, [Next]_vars, pc' = "publishDlq"
             PROVE  trace'[Event(msg')] \in {"failed", "dlq"}
  BY DEF TracedBeforeDlq
<1>1. CASE GiveUp
  <2>1. Event(msg) \in Events /\ msg' = msg
    BY <1>1, EventTyped DEF GiveUp, Conclude, TypeOK, Holding, locals
  <2>2. QED
    BY <1>1, <2>1 DEF GiveUp, Conclude, TypeOK
<1>2. CASE ~GiveUp
  BY <1>2
  DEF Next, Consume, vars, TracedBeforeDlq, Publish, Redeliver, locals, Receive,
      RunCell, Ack, Nack, Drop, PublishDlq, Return
<1>3. QED
  BY <1>1, <1>2

LEMMA TraceStep ==
    TypeOK /\ Copies /\ TracedBeforeDlq /\ TraceTellsOutcome /\ [Next]_vars
        => TraceTellsOutcome'
<1> SUFFICES ASSUME TypeOK, Copies, TracedBeforeDlq, TraceTellsOutcome,
                    [Next]_vars, NEW e \in Events
             PROVE  /\ outcome'[e] = "acked" => trace'[e] = "completed"
                    /\ outcome'[e] \in {"dead", "dropped"}
                         => trace'[e] \in {"failed", "dlq"}
  BY DEF TraceTellsOutcome
<1>1. Holding => outcome[Event(msg)] = "absent"
  BY Places DEF Copies, Held
<1>2. Holding => Event(msg) \in Events
  BY EventTyped DEF TypeOK
<1>3. CASE Ack
  BY <1>1, <1>2, <1>3
  DEF Ack, Conclude, Leave, TypeOK, TraceTellsOutcome, Holding
<1>4. CASE Nack
  BY <1>1, <1>2, <1>4
  DEF Nack, Conclude, Leave, TypeOK, TraceTellsOutcome, Holding
<1>5. CASE Drop
  BY <1>1, <1>2, <1>5
  DEF Drop, Conclude, Leave, TypeOK, TraceTellsOutcome, Holding
<1>6. CASE GiveUp
  BY <1>1, <1>2, <1>6
  DEF GiveUp, Conclude, TypeOK, TraceTellsOutcome, Holding
<1>7. CASE PublishDlq
  BY <1>1, <1>2, <1>7
  DEF PublishDlq, Leave, TypeOK, TraceTellsOutcome, TracedBeforeDlq, Holding
<1>8. QED
  BY <1>3, <1>4, <1>5, <1>6, <1>7
  DEF Next, Consume, vars, TraceTellsOutcome, Publish, Redeliver, Receive, RunCell

-----------------------------------------------------------------------------
(* Room for the dead letter *)

\* How the set of live events can change in one step.
LEMMA LiveStep ==
    ASSUME TypeOK, Copies, [Next]_vars
    PROVE  \/ Live' \subseteq Live
           \/ \E id \in Messages :
                /\ <<id, 0>> \notin Live /\ outcome[<<id, 0>>] = "absent"
                /\ Live' = Live \cup {<<id, 0>>}
           \/ \E d \in Live : Live' = (Live \ {d}) \cup {Envelope(d)}
<1> DEFINE Goal == \/ Live' \subseteq Live
                   \/ \E id \in Messages :
                        /\ <<id, 0>> \notin Live /\ outcome[<<id, 0>>] = "absent"
                        /\ Live' = Live \cup {<<id, 0>>}
                   \/ \E d \in Live : Live' = (Live \ {d}) \cup {Envelope(d)}
<1>1. ASSUME NEW id \in Messages, Publish(id) PROVE Goal
  <2>1. Live' = Live \cup {<<id, 0>>}
    BY <1>1, PublishCopies
  <2>2. <<id, 0>> \notin Live /\ outcome[<<id, 0>>] = "absent"
    BY <1>1 DEF Publish
  <2>3. QED
    BY <2>1, <2>2
<1>2. ASSUME NEW m \in timers, Redeliver(m) PROVE Live' = Live
  BY <1>2, RedeliverCopies
<1>3. CASE Receive
  BY <1>3, ReceiveCopies
<1>4. ASSUME UNCHANGED <<channel, timers, Held>> PROVE Live' = Live
  BY <1>4 DEF Live, Queued, Waiting
<1>5. ASSUME NEW c \in Cells, NEW v \in Verdict, RunCell(c, v)
      PROVE  Live' = Live
  BY <1>4, <1>5 DEF RunCell, Held, Holding
<1>6. CASE Ack
  BY <1>6, SettledCopies DEF Ack, Conclude, Holding
<1>7. CASE Nack
  <2>1. CASE adapter = "nats"
    BY <1>7, <2>1, SettledCopies DEF Nack, Conclude, Holding
  <2>2. CASE adapter # "nats"
    BY <1>7, <2>2, RetriedCopies DEF Nack, Conclude, Holding
  <2>3. QED
    BY <2>1, <2>2
<1>8. CASE Drop
  BY <1>8, SettledCopies DEF Drop, Conclude, Holding
<1>9. CASE GiveUp
  BY <1>4, <1>9 DEF GiveUp, Conclude, locals, Held, Holding
<1>10. CASE PublishDlq
  <2>1. CASE adapter = "nats" \/ msg.depth = MaxDepth
    BY <1>10, <2>1, SettledCopies DEF PublishDlq, Holding
  <2>2. CASE adapter # "nats" /\ msg.depth # MaxDepth
    <3>1. Live' = (Live \ {Event(msg)}) \cup {Envelope(Event(msg))}
      BY <1>10, <2>2, BuriedCopies DEF PublishDlq, Holding
    <3>2. Event(msg) \in Live
      BY <1>10 DEF PublishDlq, Live, Held, Holding
    <3>3. QED
      BY <3>1, <3>2
  <2>3. QED
    BY <2>1, <2>2
<1>11. CASE UNCHANGED vars
  BY <1>4, <1>11 DEF vars, Held, Holding
<1>12. QED
  BY <1>1, <1>2, <1>3, <1>5, <1>6, <1>7, <1>8, <1>9, <1>10, <1>11
  DEF Next, Consume

\* Only the event in the consumer's hands is ever given an outcome.
LEMMA OutcomeOfHeld ==
    ASSUME TypeOK, [Next]_vars, NEW e \in Events, outcome'[e] # outcome[e]
    PROVE  e \in Live
<1>1. ASSUME Holding, NEW how \in {"acked", "dead", "dropped", "lost"}, Leave(how)
      PROVE  e \in Live
  BY <1>1 DEF Leave, TypeOK, Live, Held
<1>2. CASE Ack
  BY <1>1, <1>2 DEF Ack, Conclude, Holding
<1>3. CASE Nack
  BY <1>1, <1>3 DEF Nack, Conclude, Holding
<1>4. CASE Drop
  BY <1>1, <1>4 DEF Drop, Conclude, Holding
<1>5. CASE PublishDlq
  BY <1>1, <1>5 DEF PublishDlq, Holding
<1>6. QED
  BY <1>2, <1>3, <1>4, <1>5
  DEF Next, Consume, vars, Publish, Redeliver, Receive, RunCell, GiveUp

\* A message and the envelopes of its burials are never live together, so no
\* message ever takes more than one slot.
OneLivePerMessage == \A e, f \in Live : e[1] = f[1] => e = f

\* Whatever is live or settled stems from a message that was published.
StemsFromPublished ==
    \A e \in Events : e \in Live \/ outcome[e] # "absent" =>
        <<e[1], 0>> \in Live \/ outcome[<<e[1], 0>>] # "absent"

Lineage == OneLivePerMessage /\ StemsFromPublished

LEMMA LineageStep ==
    ASSUME TypeOK, Copies, Lineage, [Next]_vars
    PROVE  Lineage'
<1>1. Live \subseteq Events
  BY LiveTyped
<1>2. \A e \in Events : /\ <<e[1], 0>> \in Events
                        /\ Envelope(e)[1] = e[1]
  BY PipelineAssumption DEF Events, Envelope
<1>3. \A e \in Events : e \in Live \/ outcome[e] # "absent" =>
                            e \in Live' \/ outcome'[e] # "absent"
  BY CopiesStep, OutcomeStays DEF NoneForgotten
<1>4. \A e \in Events : outcome'[e] # "absent" => e \in Live \/ outcome[e] # "absent"
  BY OutcomeOfHeld
<1>5. CASE Live' \subseteq Live
  <2>1. OneLivePerMessage'
    BY <1>5 DEF Lineage, OneLivePerMessage
  <2>2. StemsFromPublished'
    BY <1>2, <1>3, <1>4, <1>5 DEF Lineage, StemsFromPublished
  <2>3. QED
    BY <2>1, <2>2 DEF Lineage
<1>6. ASSUME NEW id \in Messages, <<id, 0>> \notin Live,
             outcome[<<id, 0>>] = "absent", Live' = Live \cup {<<id, 0>>}
      PROVE  Lineage'
  <2>1. \A e \in Live : e[1] # id
    BY <1>1, <1>6 DEF Lineage, StemsFromPublished
  <2>2. OneLivePerMessage'
    BY <1>6, <2>1 DEF Lineage, OneLivePerMessage
  <2>3. StemsFromPublished'
    BY <1>2, <1>3, <1>4, <1>6 DEF Lineage, StemsFromPublished
  <2>4. QED
    BY <2>2, <2>3 DEF Lineage
<1>7. ASSUME NEW d \in Live, Live' = (Live \ {d}) \cup {Envelope(d)}
      PROVE  Lineage'
  <2>1. d \in Events /\ Envelope(d)[1] = d[1]
    BY <1>1, <1>2
  <2>2. OneLivePerMessage'
    BY <1>7, <2>1 DEF Lineage, OneLivePerMessage
  <2>3. StemsFromPublished'
    BY <1>2, <1>3, <1>4, <1>7, <2>1 DEF Lineage, StemsFromPublished
  <2>4. QED
    BY <2>2, <2>3 DEF Lineage
<1>8. QED
  BY <1>5, <1>6, <1>7, LiveStep

\* The queued events stem from distinct messages, none of them the held one:
\* what is queued behind a dead letter is fewer than the messages there are.
LEMMA RoomBehindHeld ==
    ASSUME TypeOK, Copies, OneLivePerMessage, Holding, IsFiniteSet(Messages)
    PROVE  Len(channel) < Cardinality(Messages)
<1> DEFINE Rest == Messages \ {msg.id}
           owner == [i \in 1..Len(channel) |-> channel[i].id]
<1>1. /\ channel \in Seq(Delivered) /\ DOMAIN channel = 1..Len(channel)
      /\ Len(channel) \in Nat /\ msg \in Delivered
  BY DEF TypeOK
<1>2. \A i \in 1..Len(channel) :
        channel[i] \in Delivered /\ Event(channel[i]) \in Live
        /\ Event(channel[i]) # Event(msg)
  BY <1>1, Places DEF Copies, Queued, Held, Live
<1>3. Event(msg) \in Live
  BY DEF Live, Held
<1>4. owner \in [1..Len(channel) -> Rest]
  <2> SUFFICES ASSUME NEW i \in 1..Len(channel) PROVE channel[i].id \in Rest
    OBVIOUS
  <2>1. channel[i].id \in Messages
    BY <1>2 DEF Delivered
  <2>2. channel[i].id # msg.id
    BY <1>2, <1>3 DEF OneLivePerMessage, Event
  <2>3. QED
    BY <2>1, <2>2
<1>5. \A i, j \in 1..Len(channel) : owner[i] = owner[j] => i = j
  <2> SUFFICES ASSUME NEW i \in 1..Len(channel), NEW j \in 1..Len(channel),
                      channel[i].id = channel[j].id
               PROVE  i = j
    OBVIOUS
  <2>1. Event(channel[i]) = Event(channel[j])
    BY <1>2 DEF OneLivePerMessage, Event
  <2>2. QED
    BY <1>1, <2>1 DEF Copies, OneCopy
<1>6. owner \in Injection(1..Len(channel), Rest)
  BY <1>4, <1>5 DEF Injection, IsInjective
<1>7. /\ IsFiniteSet(1..Len(channel)) /\ Cardinality(1..Len(channel)) = Len(channel)
  BY <1>1, FS_Interval
<1>8. /\ IsFiniteSet(Rest) /\ Cardinality(Rest) = Cardinality(Messages) - 1
  BY <1>1, FS_RemoveElement DEF Delivered
<1>9. Cardinality(1..Len(channel)) <= Cardinality(Rest)
  BY <1>6, <1>7, <1>8, FS_Injection DEF ExistsInjection
<1>10. Cardinality(Messages) \in Nat
  BY FS_CardinalityType
<1>11. QED
  BY <1>1, <1>7, <1>8, <1>9, <1>10

\* What is being dead-lettered was given up on.
GaveUpBeforeDlq == pc = "publishDlq" => GaveUp

LEMMA GaveUpStep == GaveUpBeforeDlq /\ [Next]_vars => GaveUpBeforeDlq'
<1> SUFFICES ASSUME GaveUpBeforeDlq, [Next]_vars, pc' = "publishDlq"
             PROVE  GaveUp'
  BY DEF GaveUpBeforeDlq
<1>1. CASE GiveUp
  BY <1>1 DEF GiveUp, GaveUp, locals
<1>2. CASE ~GiveUp
  <2>1. pc = "publishDlq" /\ UNCHANGED locals
    BY <1>2
    DEF Next, Consume, vars, Publish, Redeliver, Receive, RunCell, Ack, Nack,
        Drop, PublishDlq, Return, Conclude, locals
  <2>2. QED
    BY <2>1 DEF GaveUpBeforeDlq, GaveUp, locals
<1>3. QED
  BY <1>1, <1>2

-----------------------------------------------------------------------------
(* The inductive invariant and what follows from it *)

IInv ==
    /\ TypeOK
    /\ Copies
    /\ CellsAccounted
    /\ AckedMeansHandled
    /\ BuriedIsInDlq
    /\ TracedBeforeDlq
    /\ TraceTellsOutcome
    /\ Lineage
    /\ GaveUpBeforeDlq

LEMMA InitIInv == Init => IInv
<1> SUFFICES ASSUME Init PROVE IInv
  OBVIOUS
<1>1. TypeOK
  <2>1. handled \in [Events -> SUBSET Cells]
        /\ trace \in [Events -> {"none", "completed", "failed", "dlq"}]
        /\ outcome \in [Events -> {"absent", "acked", "dead", "dropped", "lost"}]
    BY DEF Init
  <2>2. channel \in Seq(Delivered) /\ timers \subseteq Delivered /\ todo \subseteq Cells
    BY DEF Init
  <2>3. QED
    BY <2>1, <2>2 DEF Init, TypeOK, Holding
<1>2. Live = {}
  BY DEF Init, Live, Queued, Waiting, Held, Holding
<1>3. \A e \in Events : outcome[e] = "absent"
  BY DEF Init
<1>4. Copies
  <2>1. OneCopy
    BY <1>2 DEF Init, OneCopy, Live
  <2>2. EnvelopeAfterBurial
    BY <1>2, <1>3, EnvelopeFacts DEF EnvelopeAfterBurial
  <2>3. QED
    BY <2>1, <2>2 DEF Copies
<1>5. CellsAccounted /\ TracedBeforeDlq
  BY DEF Init, CellsAccounted, TracedBeforeDlq
<1>6. AckedMeansHandled /\ BuriedIsInDlq /\ TraceTellsOutcome
  BY <1>3 DEF AckedMeansHandled, BuriedIsInDlq, TraceTellsOutcome
<1>7. Lineage /\ GaveUpBeforeDlq
  BY <1>2, <1>3 DEF Init, Lineage, OneLivePerMessage, StemsFromPublished,
                    GaveUpBeforeDlq
<1>8. QED
  BY <1>1, <1>4, <1>5, <1>6, <1>7 DEF IInv

\* Every reachable state of the pipeline satisfies the inductive invariant.
THEOREM Invariance == Spec => []IInv
<1>1. IInv /\ [Next]_vars => IInv'
  BY TypeOKStep, CopiesStep, CellsAccountedStep, AckedStep, BuriedStep,
     TracedStep, TraceStep, LineageStep, GaveUpStep
  DEF IInv
<1>2. QED
  BY InitIInv, <1>1, PTL DEF Spec

\* Every variable keeps its type: no attempt number leaves 1..MaxTries.
THEOREM TypeCorrect == Spec => []TypeOK
<1>1. IInv => TypeOK
  BY DEF IInv
<1>2. QED
  BY Invariance, <1>1, PTL

\* No event is ever in two places, or in any once it is settled: one failure
\* never runs an event's cells twice.
THEOREM NeverTwoCopies == Spec => []OneCopy
<1>1. IInv => OneCopy
  BY DEF IInv, Copies
<1>2. QED
  BY Invariance, <1>1, PTL

\* An acknowledged event was answered ok by every subscribed cell.
THEOREM AcknowledgedWasHandled == Spec => []AckedMeansHandled
<1>1. IInv => AckedMeansHandled
  BY DEF IInv
<1>2. QED
  BY Invariance, <1>1, PTL

\* A buried event is not forgotten: its envelope is in the in-memory pipeline.
THEOREM BuriedStaysInDlq == Spec => []BuriedIsInDlq
<1>1. IInv => BuriedIsInDlq
  BY DEF IInv
<1>2. QED
  BY Invariance, <1>1, PTL

\* The stored trace of a settled event names the way it was settled.
THEOREM TraceIsTruthful == Spec => []TraceTellsOutcome
<1>1. IInv => TraceTellsOutcome
  BY DEF IInv
<1>2. QED
  BY Invariance, <1>1, PTL

\* With a slot for every message, the consumer never waits for room in the
\* channel it is the only one to drain: however often messages are retried, and
\* however deep their envelopes are buried, a message takes one slot at most.
THEOREM ConsumerNeverWaitsForItself ==
    ASSUME IsFiniteSet(Messages), Cardinality(Messages) <= Capacity
    PROVE  Spec => []NeverBlockedOnItself
<1>1. IInv => NeverBlockedOnItself
  <2> SUFFICES ASSUME IInv, pc = "publishDlq" PROVE HasRoom
    BY DEF NeverBlockedOnItself
  <2>1. Len(channel) < Cardinality(Messages)
    BY RoomBehindHeld DEF IInv, Lineage, Holding
  <2>2. Len(channel) \in Nat /\ Cardinality(Messages) \in Nat
    BY FS_CardinalityType DEF IInv, TypeOK
  <2>3. QED
    BY <2>1, <2>2, PipelineAssumption DEF HasRoom
<1>2. QED
  BY Invariance, <1>1, PTL

-----------------------------------------------------------------------------
(* The pipeline implements Delivery *)

\* The copies of events that wait in the channel or behind a timer, and how
\* many attempts such a copy says were made.
CopiesIn(ch, ts) == {ch[i] : i \in DOMAIN ch} \cup ts
Backlog == CopiesIn(channel, timers)
Unique(S) == \A m, n \in S : Event(m) = Event(n) => m = n
TriesIn(S, e) ==
    IF \E m \in S : Event(m) = e
    THEN (CHOOSE m \in S : Event(m) = e).attempt - 1
    ELSE 0

LEMMA TriesOfCopy ==
    ASSUME NEW S, Unique(S), NEW m \in S
    PROVE  TriesIn(S, Event(m)) = m.attempt - 1
<1>1. \E n \in S : Event(n) = Event(m)
  OBVIOUS
<1>2. (CHOOSE n \in S : Event(n) = Event(m)) = m
  BY DEF Unique
<1>3. QED
  BY <1>1, <1>2 DEF TriesIn

LEMMA TriesOfNone ==
    ASSUME NEW S, NEW e, \A m \in S : Event(m) # e
    PROVE  TriesIn(S, e) = 0
BY DEF TriesIn

\* The copies of other events do not matter.
LEMMA TriesSame ==
    ASSUME NEW S, NEW T, Unique(S), Unique(T), NEW e,
           \A m \in S : Event(m) = e => m \in T,
           \A m \in T : Event(m) = e => m \in S
    PROVE  TriesIn(S, e) = TriesIn(T, e)
<1>1. CASE \E m \in S : Event(m) = e
  <2>1. PICK m \in S : Event(m) = e
    BY <1>1
  <2>2. m \in T
    BY <2>1
  <2>3. QED
    BY <2>1, <2>2, TriesOfCopy
<1>2. CASE \A m \in S : Event(m) # e
  <2>1. \A m \in T : Event(m) # e
    BY <1>2
  <2>2. QED
    BY <1>2, <2>1, TriesOfNone
<1>3. QED
  BY <1>1, <1>2

LEMMA CopiesAppend ==
    ASSUME NEW ch \in Seq(Delivered), NEW m \in Delivered, NEW ts
    PROVE  CopiesIn(Append(ch, m), ts) = CopiesIn(ch, ts) \cup {m}
<1> DEFINE a == Append(ch, m)
<1>1. /\ DOMAIN a = 1..(Len(ch) + 1) /\ DOMAIN ch = 1..Len(ch)
      /\ Len(ch) \in Nat
      /\ \A i \in 1..Len(ch) : a[i] = ch[i]
      /\ a[Len(ch) + 1] = m
  OBVIOUS
<1>2. 1..(Len(ch) + 1) = (1..Len(ch)) \cup {Len(ch) + 1}
  BY <1>1
<1> HIDE DEF a
<1>3. CopiesIn(a, ts) = CopiesIn(ch, ts) \cup {m}
  BY <1>1, <1>2 DEF CopiesIn
<1>4. QED
  BY <1>3 DEF a

LEMMA CopiesTail ==
    ASSUME NEW ch \in Seq(Delivered), ch # <<>>, DistinctIn(ch), NEW ts,
           Head(ch) \notin ts
    PROVE  CopiesIn(Tail(ch), ts) = CopiesIn(ch, ts) \ {Head(ch)}
<1> DEFINE u == Tail(ch)
<1>1. /\ Len(ch) \in Nat \ {0}
      /\ DOMAIN ch = 1..Len(ch) /\ DOMAIN u = 1..(Len(ch) - 1)
      /\ Head(ch) = ch[1]
      /\ \A i \in 1..(Len(ch) - 1) : u[i] = ch[i + 1]
  OBVIOUS
<1> HIDE DEF u
<1>2. \A i \in DOMAIN u : u[i] \in {ch[j] : j \in DOMAIN ch} /\ u[i] # ch[1]
  <2> SUFFICES ASSUME NEW i \in DOMAIN u
               PROVE  u[i] \in {ch[j] : j \in DOMAIN ch} /\ u[i] # ch[1]
    OBVIOUS
  <2>1. i + 1 \in DOMAIN ch /\ 1 \in DOMAIN ch /\ i + 1 # 1 /\ u[i] = ch[i + 1]
    BY <1>1
  <2>2. QED
    BY <2>1 DEF DistinctIn
<1>3. \A i \in DOMAIN ch : ch[i] # ch[1] => ch[i] \in {u[j] : j \in DOMAIN u}
  <2> SUFFICES ASSUME NEW i \in DOMAIN ch, ch[i] # ch[1]
               PROVE  ch[i] \in {u[j] : j \in DOMAIN u}
    OBVIOUS
  <2>1. i - 1 \in DOMAIN u /\ u[i - 1] = ch[i]
    BY <1>1
  <2>2. QED
    BY <2>1
<1>4. CopiesIn(u, ts) = CopiesIn(ch, ts) \ {ch[1]}
  BY <1>1, <1>2, <1>3 DEF CopiesIn
<1>5. QED
  BY <1>1, <1>4 DEF u

\* No two copies of the backlog are of the same event; what else the proofs
\* below use of it.
LEMMA UniqueCopies ==
    ASSUME NEW ch, NEW ts, DistinctIn(ch),
           \A m, n \in ts : Event(m) = Event(n) => m = n,
           QueuedIn(ch) \cap {Event(m) : m \in ts} = {}
    PROVE  Unique(CopiesIn(ch, ts))
<1> SUFFICES ASSUME NEW m \in CopiesIn(ch, ts), NEW n \in CopiesIn(ch, ts),
                    Event(m) = Event(n)
             PROVE  m = n
  BY DEF Unique
<1>1. CASE m \in ts /\ n \in ts
  BY <1>1
<1>2. CASE m \in ts /\ n \notin ts
  BY <1>2 DEF CopiesIn, QueuedIn
<1>3. CASE m \notin ts /\ n \in ts
  BY <1>3 DEF CopiesIn, QueuedIn
<1>4. CASE m \notin ts /\ n \notin ts
  BY <1>4 DEF CopiesIn, DistinctIn
<1>5. QED
  BY <1>1, <1>2, <1>3, <1>4

LEMMA BacklogFacts ==
    ASSUME TypeOK, Copies
    PROVE  /\ Unique(Backlog)
           /\ Backlog \subseteq Delivered
           /\ \A m \in Backlog : Event(m) \in Queued \cup Waiting
           /\ \A e \in Queued \cup Waiting : \E m \in Backlog : Event(m) = e
           /\ Holding => \A m \in Backlog : Event(m) # Event(msg)
<1>1. \A m \in Backlog : Event(m) \in Queued \cup Waiting
  BY DEF Backlog, CopiesIn, Queued, Waiting
<1>2. \A e \in Queued \cup Waiting : \E m \in Backlog : Event(m) = e
  BY DEF Backlog, CopiesIn, Queued, Waiting
<1>3. Unique(Backlog)
  BY Places, UniqueCopies DEF Copies, Backlog, Waiting
<1>4. Backlog \subseteq Delivered
  BY DEF Backlog, CopiesIn, TypeOK
<1>5. Holding => \A m \in Backlog : Event(m) # Event(msg)
  BY <1>1, Places DEF Copies, Held
<1>6. QED
  BY <1>1, <1>2, <1>3, <1>4, <1>5

LEMMA BacklogStaysUnique ==
    ASSUME Copies' PROVE Unique(Backlog')
<1>1. /\ DistinctIn(channel') /\ QueuedIn(channel') \cap {Event(m) : m \in timers'} = {}
      /\ \A m, n \in timers' : Event(m) = Event(n) => m = n
  BY DEF Copies, OneCopy, DistinctIn, QueuedIn, Queued, Waiting
<1>2. QED
  BY <1>1, UniqueCopies DEF Backlog

\* TriesOf in terms of the backlog.
LEMMA TriesView ==
    ASSUME NEW e
    PROVE  /\ TriesOf(e) = IF Holding /\ Event(msg) = e THEN msg.attempt
                           ELSE TriesIn(Backlog, e)
           /\ TriesOf(e)' = IF Holding' /\ Event(msg') = e THEN msg'.attempt
                            ELSE TriesIn(Backlog', e)
<1>1. TriesOf(e) = IF Holding /\ Event(msg) = e THEN msg.attempt
                   ELSE TriesIn(Backlog, e)
  BY DEF TriesOf, TriesIn, Backlog, CopiesIn
<1>2. TriesOf(e)' = IF Holding' /\ Event(msg') = e THEN msg'.attempt
                    ELSE TriesIn(Backlog', e)
  BY DEF TriesOf, TriesIn, Backlog, CopiesIn
<1>3. QED
  BY <1>1, <1>2

AbstractAsked == IF Holding /\ dlqRequested THEN {Event(msg)} ELSE {}

LEMMA PromiseEvents == Promise!Events = Events
BY DEF Promise!Events, Events

\* A step that changes neither where events are nor what is known of them.
LEMMA PromiseStutters ==
    ASSUME \A e \in Events : StatusOf(e)' = StatusOf(e),
           \A e \in Events : TriesOf(e)' = TriesOf(e),
           AbstractAsked' = AbstractAsked, adapter' = adapter
    PROVE  UNCHANGED Promise!vars
BY DEF Promise!vars, AbstractAsked

\* The consumer settles the event e as s.
LEMMA PromiseSettles ==
    ASSUME NEW e \in Events, NEW s,
           StatusOf(e) = "pending", TriesOf(e) > 0,
           \A d \in Events : TriesOf(d)' = IF d = e THEN 0 ELSE TriesOf(d),
           AbstractAsked' = AbstractAsked \ {e}, adapter' = adapter,
           \A d \in Events :
                StatusOf(d)' = CASE d = e -> s
                                 [] d = Envelope(e) /\ s = "dead"
                                      /\ ~(adapter = "nats") -> "pending"
                                 [] OTHER -> StatusOf(d)
    PROVE  Promise!Settle(e, s)
BY DEF Promise!Settle, Promise!Events, Events, Promise!Envelope, Envelope,
       AbstractAsked

\* The consumer lets go of the held event: its tries are forgotten.
LEMMA LetGo ==
    ASSUME TypeOK, Copies, Copies', Holding, Return,
           Backlog \subseteq Backlog',
           \A m \in Backlog' \ Backlog : m.attempt = 1 /\ Event(m) # Event(msg)
    PROVE  /\ TriesOf(Event(msg)) = msg.attempt /\ msg.attempt > 0
           /\ \A d \in Events :
                TriesOf(d)' = IF d = Event(msg) THEN 0 ELSE TriesOf(d)
           /\ AbstractAsked' = {}
           /\ AbstractAsked \subseteq {Event(msg)}
<1>1. /\ Unique(Backlog) /\ Unique(Backlog')
      /\ \A m \in Backlog : Event(m) # Event(msg)
      /\ msg \in Delivered
  BY BacklogFacts, BacklogStaysUnique DEF TypeOK
<1>2. ~Holding'
  BY DEF Holding, Return
<1>3. TriesOf(Event(msg)) = msg.attempt /\ msg.attempt \in Nat \ {0}
  BY <1>1, TriesView, MaxTriesIsNat DEF Delivered
<1>4. ASSUME NEW d \in Events, d = Event(msg)
      PROVE  TriesOf(d)' = 0
  <2>1. \A m \in Backlog' : Event(m) # d
    BY <1>1, <1>4
  <2>2. TriesIn(Backlog', d) = 0
    BY <2>1, TriesOfNone
  <2>3. QED
    BY <1>2, <2>2, TriesView
<1>5. ASSUME NEW d \in Events, d # Event(msg)
      PROVE  TriesOf(d)' = TriesOf(d)
  <2>1. CASE \E m \in Backlog' \ Backlog : Event(m) = d
    <3>1. PICK m \in Backlog' \ Backlog : Event(m) = d
      BY <2>1
    <3>2. TriesIn(Backlog', d) = 0
      BY <1>1, <3>1, TriesOfCopy
    <3>3. TriesIn(Backlog, d) = 0
      <4>1. \A n \in Backlog : Event(n) # d
        BY <1>1, <3>1 DEF Unique
      <4>2. QED
        BY <4>1, TriesOfNone
    <3>4. QED
      BY <1>2, <1>5, <3>2, <3>3, TriesView
  <2>2. CASE \A m \in Backlog' \ Backlog : Event(m) # d
    <3>1. TriesIn(Backlog', d) = TriesIn(Backlog, d)
      BY <1>1, <2>2, TriesSame
    <3>2. QED
      BY <1>2, <1>5, <3>1, TriesView
  <2>3. QED
    BY <2>1, <2>2
<1>6. AbstractAsked' = {} /\ AbstractAsked \subseteq {Event(msg)}
  BY <1>2 DEF AbstractAsked
<1>7. QED
  BY <1>3, <1>4, <1>5, <1>6

LEMMA PublishKeepsPromise ==
    ASSUME TypeOK, Copies, NEW id \in Messages, Publish(id)
    PROVE  <<id, 0>> \in Events /\ Promise!Publish(<<id, 0>>)
<1> DEFINE m == [id |-> id, depth |-> 0, attempt |-> 1]
           e == <<id, 0>>
<1>1. m \in Delivered /\ Event(m) = e /\ e \in Events /\ m.attempt = 1
  BY FirstDelivery, MaxTriesIsNat, EventTyped DEF Event
<1>2. /\ channel' = Append(channel, m)
      /\ UNCHANGED <<timers, pc, msg, dlqRequested, adapter, outcome>>
      /\ e \notin Live /\ outcome[e] = "absent"
  BY DEF Publish, locals, config
<1>3. Copies' /\ Live' = Live \cup {e}
  BY PublishCopies
<1>. HIDE DEF m, e
<1>4. Backlog' = Backlog \cup {m}
  BY <1>1, <1>2, CopiesAppend DEF TypeOK, Backlog
<1>5. /\ Unique(Backlog) /\ Unique(Backlog')
      /\ \A n \in Backlog : Event(n) \in Live
  BY <1>3, BacklogFacts, BacklogStaysUnique DEF Live
<1>6. ASSUME NEW d \in Events PROVE TriesOf(d)' = TriesOf(d)
  <2>1. CASE d = e
    <3>1. TriesIn(Backlog', d) = 0
      BY <1>1, <1>4, <1>5, <2>1, TriesOfCopy
    <3>2. TriesIn(Backlog, d) = 0
      BY <1>2, <1>5, <2>1, TriesOfNone
    <3>3. QED
      BY <1>2, <3>1, <3>2, TriesView DEF Holding
  <2>2. CASE d # e
    <3>1. TriesIn(Backlog', d) = TriesIn(Backlog, d)
      BY <1>1, <1>4, <1>5, <2>2, TriesSame
    <3>2. QED
      BY <1>2, <3>1, TriesView DEF Holding
  <2>3. QED
    BY <2>1, <2>2
<1>7. StatusOf(e) = "absent"
      /\ \A d \in Events : StatusOf(d)' = IF d = e THEN "pending" ELSE StatusOf(d)
  BY <1>2, <1>3 DEF StatusOf
<1>8. AbstractAsked' = AbstractAsked
  BY <1>2 DEF AbstractAsked, Holding
<1>9. Promise!Publish(e)
  BY <1>1, <1>2, <1>6, <1>7, <1>8 DEF Promise!Publish, AbstractAsked
<1>10. QED
  BY <1>1, <1>9 DEF e

LEMMA RedeliverKeepsPromise ==
    ASSUME TypeOK, Copies, NEW m \in timers, Redeliver(m)
    PROVE  UNCHANGED Promise!vars
<1>1. /\ channel' = Append(channel, m) /\ timers' = timers \ {m}
      /\ UNCHANGED <<pc, msg, dlqRequested, adapter, outcome>>
      /\ m \in Delivered
  BY DEF Redeliver, locals, config, TypeOK
<1>2. Copies' /\ Live' = Live
  BY RedeliverCopies
<1>3. Backlog' = Backlog
  <2>1. CopiesIn(channel', timers') = CopiesIn(channel, timers \ {m}) \cup {m}
    BY <1>1, CopiesAppend DEF TypeOK
  <2>2. QED
    BY <2>1 DEF Backlog, CopiesIn
<1>4. \A d \in Events : TriesOf(d)' = TriesOf(d)
  BY <1>1, <1>3, TriesView DEF Holding
<1>5. \A d \in Events : StatusOf(d)' = StatusOf(d)
  BY <1>1, <1>2 DEF StatusOf
<1>6. QED
  BY <1>1, <1>4, <1>5, PromiseStutters DEF AbstractAsked, Holding

LEMMA ReceiveKeepsPromise ==
    ASSUME TypeOK, Copies, Receive
    PROVE  \E e \in Events : Promise!Begin(e)
<1> DEFINE m == Head(channel)
           e == Event(m)
<1>1. /\ channel # <<>> /\ channel' = Tail(channel) /\ msg' = m
      /\ pc = "receive" /\ pc' = "cells" /\ dlqRequested' = FALSE
      /\ UNCHANGED <<timers, adapter, outcome>>
  BY DEF Receive, config
<1>2. Copies' /\ Live' = Live
  BY ReceiveCopies
<1>3. channel \in Seq(Delivered) /\ DistinctIn(channel)
      /\ Queued = QueuedIn(channel)
  BY Places DEF Copies, TypeOK
<1>4. m \in Delivered /\ e \in Queued
  BY <1>1, <1>3, TailEvents
<1>5. e \in Events /\ m.attempt \in Nat /\ m.attempt > 0 /\ m.attempt <= MaxTries
  <2>1. m.attempt \in 1..MaxTries
    BY <1>4 DEF Delivered
  <2>2. e \in Events
    BY <1>4, EventTyped
  <2>3. QED
    BY <2>1, <2>2, MaxTriesIsNat
<1>6. m \notin timers
  BY <1>4, Places DEF Copies, Waiting
<1>7. m \in Backlog
  <2>1. 1 \in DOMAIN channel /\ m = channel[1]
    BY <1>1, <1>3
  <2>2. QED
    BY <2>1 DEF Backlog, CopiesIn
<1>. HIDE DEF m
<1>8. Backlog' = Backlog \ {m}
  BY <1>1, <1>3, <1>6, CopiesTail DEF Backlog, m
<1>9. Unique(Backlog) /\ Unique(Backlog')
  BY <1>2, BacklogFacts, BacklogStaysUnique
<1>10. ASSUME NEW d \in Events
       PROVE  TriesOf(d)' = IF d = e THEN TriesOf(d) + 1 ELSE TriesOf(d)
  <2>1. TriesOf(d) = TriesIn(Backlog, d)
    BY <1>1, TriesView DEF Holding
  <2>2. CASE d = e
    <3>1. TriesOf(d) = m.attempt - 1
      BY <1>7, <1>9, <2>1, <2>2, TriesOfCopy
    <3>2. TriesOf(d)' = m.attempt
      BY <1>1, <2>2, TriesView DEF Holding
    <3>3. QED
      BY <1>5, <2>2, <3>1, <3>2
  <2>3. CASE d # e
    <3>1. TriesIn(Backlog', d) = TriesIn(Backlog, d)
      BY <1>8, <1>9, <2>3, TriesSame
    <3>2. QED
      BY <1>1, <2>1, <2>3, <3>1, TriesView DEF Holding
  <2>4. QED
    BY <2>2, <2>3
<1>11. TriesOf(e) = m.attempt - 1
  BY <1>1, <1>7, <1>9, TriesOfCopy, TriesView DEF Holding
<1>12. StatusOf(e) = "pending" /\ \A d \in Events : StatusOf(d)' = StatusOf(d)
  BY <1>1, <1>2, <1>4 DEF StatusOf, Live
<1>13. AbstractAsked' = AbstractAsked
  BY <1>1 DEF AbstractAsked, Holding
<1>. DEFINE g == e
<1>14. g \in Events /\ TriesOf(g) < MaxTries /\ StatusOf(g) = "pending"
  BY <1>5, <1>11, <1>12, MaxTriesIsNat
<1>15. PICK f \in Events : f = e
  BY <1>5
<1>. HIDE DEF e
<1>16. Promise!Begin(f)
  BY <1>1, <1>10, <1>12, <1>13, <1>14, <1>15 DEF Promise!Begin, AbstractAsked
<1>17. QED
  BY <1>16

LEMMA RunCellKeepsPromise ==
    ASSUME TypeOK, Copies, NEW c \in Cells, NEW v \in Verdict, RunCell(c, v)
    PROVE  \/ UNCHANGED Promise!vars
           \/ \E e \in Events : Promise!AskDeadLetter(e)
<1>1. /\ UNCHANGED <<channel, timers, pc, msg, adapter, outcome>>
      /\ pc = "cells" /\ dlqRequested' = (dlqRequested \/ v = "dead_letter")
  BY DEF RunCell, config
<1>2. /\ \A d \in Events : TriesOf(d)' = TriesOf(d)
      /\ \A d \in Events : StatusOf(d)' = StatusOf(d)
  <2>1. UNCHANGED <<Live, Backlog>>
    BY <1>1 DEF Live, Queued, Waiting, Held, Holding, Backlog
  <2>2. QED
    BY <1>1, <2>1, TriesView DEF StatusOf, Holding
<1>3. CASE v # "dead_letter"
  <2>1. AbstractAsked' = AbstractAsked
    BY <1>1, <1>3 DEF AbstractAsked, Holding, TypeOK
  <2>2. QED
    BY <1>1, <1>2, <2>1, PromiseStutters
<1>4. CASE v = "dead_letter"
  <2>1. msg \in Delivered /\ Event(msg) \in Events /\ Event(msg) \in Live
    BY <1>1, EventTyped DEF TypeOK, Holding, Live, Held
  <2>2. PICK e \in Events : e = Event(msg)
    BY <2>1
  <2>3. StatusOf(e) = "pending" /\ TriesOf(e) > 0
    BY <1>1, <2>1, <2>2, TriesView, MaxTriesIsNat DEF StatusOf, Holding, Delivered
  <2>4. AbstractAsked' = AbstractAsked \cup {e}
    BY <1>1, <1>4, <2>2 DEF AbstractAsked, Holding
  <2>5. Promise!AskDeadLetter(e)
    BY <1>1, <1>2, <2>3, <2>4 DEF Promise!AskDeadLetter, AbstractAsked
  <2>6. QED
    BY <2>5
<1>5. QED
  BY <1>3, <1>4

\* The consumer lets go of an event that is settled and leaves no envelope.
LEMMA SettledKeepsPromise ==
    ASSUME TypeOK, Copies, Holding, Return,
           NEW how \in {"acked", "dead", "dropped", "lost"}, Leave(how),
           UNCHANGED <<channel, timers, adapter>>,
           how = "dead" => adapter = "nats" \/ msg.depth = MaxDepth
    PROVE  \E e \in Events : /\ e = Event(msg)
                             /\ Promise!Settle(e, how)
                             /\ TriesOf(e) = msg.attempt
<1>1. Event(msg) \in Events /\ Event(msg) \in Live
  BY EventTyped DEF TypeOK, Live, Held
<1>2. PICK e \in Events : e = Event(msg)
  BY <1>1
<1>3. Copies' /\ Live' = Live \ {e}
  BY <1>2, SettledCopies
<1>4. outcome' = [outcome EXCEPT ![e] = how]
  BY <1>2 DEF Leave
<1>5. Backlog' = Backlog
  BY DEF Backlog
<1>6. /\ TriesOf(e) = msg.attempt /\ msg.attempt > 0
      /\ \A d \in Events : TriesOf(d)' = IF d = e THEN 0 ELSE TriesOf(d)
      /\ AbstractAsked' = AbstractAsked \ {e}
  <2>1. /\ TriesOf(Event(msg)) = msg.attempt /\ msg.attempt > 0
        /\ \A d \in Events :
                TriesOf(d)' = IF d = Event(msg) THEN 0 ELSE TriesOf(d)
        /\ AbstractAsked' = {} /\ AbstractAsked \subseteq {Event(msg)}
    BY <1>3, <1>5, LetGo
  <2>2. QED
    BY <1>2, <2>1
<1>7. \A d \in Events : ~(d = Envelope(e) /\ how = "dead" /\ ~(adapter = "nats"))
  <2> SUFFICES ASSUME NEW d \in Events, d = Envelope(e), msg.depth = MaxDepth
               PROVE  FALSE
    OBVIOUS
  <2>1. d[2] = MaxDepth + 1 /\ d[2] \in 0..MaxDepth
    BY <1>2 DEF Envelope, Event, Events
  <2>2. QED
    BY <2>1, PipelineAssumption
<1>8. \A d \in Events : StatusOf(d)' = IF d = e THEN how ELSE StatusOf(d)
  BY <1>3, <1>4 DEF StatusOf, TypeOK
<1>9. StatusOf(e) = "pending"
  BY <1>1, <1>2 DEF StatusOf
<1>10. Promise!Settle(e, how)
  BY <1>6, <1>7, <1>8, <1>9, PromiseSettles
<1>11. QED
  BY <1>2, <1>6, <1>10

\* The consumer buries an event and its envelope comes back to it.
LEMMA BuriedKeepsPromise ==
    ASSUME TypeOK, Copies, Holding, Return, Leave("dead"),
           msg.depth # MaxDepth, adapter # "nats",
           channel' = Append(channel, [id |-> msg.id, depth |-> msg.depth + 1,
                                       attempt |-> 1]),
           UNCHANGED <<timers, adapter>>
    PROVE  \E e \in Events : /\ e = Event(msg)
                             /\ Promise!Settle(e, "dead")
                             /\ TriesOf(e) = msg.attempt
<1> DEFINE m == [id |-> msg.id, depth |-> msg.depth + 1, attempt |-> 1]
<1>1. msg \in Delivered /\ Event(msg) \in Events /\ Event(msg) \in Live
  BY EventTyped DEF TypeOK, Live, Held
<1>2. PICK e \in Events : e = Event(msg)
  BY <1>1
<1>3. m \in Delivered /\ Event(m) = Envelope(e) /\ e[2] < MaxDepth
      /\ m.attempt = 1
  <2>1. msg.id \in Messages /\ msg.depth \in 0..MaxDepth
    BY <1>1 DEF Delivered
  <2>2. msg.depth < MaxDepth /\ msg.depth + 1 \in 0..MaxDepth
    BY <2>1, PipelineAssumption
  <2>3. QED
    BY <1>2, <2>1, <2>2, FirstDelivery DEF Event, Envelope
<1>4. Envelope(e) # e /\ Envelope(e) \in Events
  BY <1>3, EnvelopeFacts
<1>5. Copies' /\ Live' = (Live \ {e}) \cup {Envelope(e)}
  BY <1>2, BuriedCopies
<1>6. outcome' = [outcome EXCEPT ![e] = "dead"] /\ channel' = Append(channel, m)
  BY <1>2 DEF Leave
<1>. HIDE DEF m
<1>7. Backlog' = Backlog \cup {m}
  BY <1>3, <1>6, CopiesAppend DEF TypeOK, Backlog
<1>8. /\ TriesOf(e) = msg.attempt /\ msg.attempt > 0
      /\ \A d \in Events : TriesOf(d)' = IF d = e THEN 0 ELSE TriesOf(d)
      /\ AbstractAsked' = AbstractAsked \ {e}
  <2>1. \A k \in Backlog' \ Backlog : k.attempt = 1 /\ Event(k) # Event(msg)
    BY <1>2, <1>3, <1>4, <1>7
  <2>2. /\ TriesOf(Event(msg)) = msg.attempt /\ msg.attempt > 0
        /\ \A d \in Events :
                TriesOf(d)' = IF d = Event(msg) THEN 0 ELSE TriesOf(d)
        /\ AbstractAsked' = {} /\ AbstractAsked \subseteq {Event(msg)}
    BY <1>5, <1>7, <2>1, LetGo
  <2>3. QED
    BY <1>2, <2>2
<1>9. \A d \in Events :
        StatusOf(d)' = CASE d = e -> "dead"
                         [] d = Envelope(e) -> "pending"
                         [] OTHER -> StatusOf(d)
  BY <1>4, <1>5, <1>6 DEF StatusOf, TypeOK
<1>10. StatusOf(e) = "pending"
  BY <1>1, <1>2 DEF StatusOf
<1>11. \A d \in Events :
         StatusOf(d)' = CASE d = e -> "dead"
                          [] d = Envelope(e) /\ "dead" = "dead"
                               /\ ~(adapter = "nats") -> "pending"
                          [] OTHER -> StatusOf(d)
  BY <1>9
<1>12. Promise!Settle(e, "dead")
  BY <1>8, <1>10, <1>11, PromiseSettles
<1>13. QED
  BY <1>2, <1>8, <1>12

\* A nacked event stays pending, its attempt counted by its next delivery.
LEMMA RetriedKeepsPromise ==
    ASSUME TypeOK, Copies, Nack, adapter # "nats"
    PROVE  UNCHANGED Promise!vars
<1> DEFINE m == [msg EXCEPT !.attempt = @ + 1]
<1>1. /\ Holding /\ Return /\ ~dlqRequested
      /\ timers' = timers \cup {m}
      /\ UNCHANGED <<channel, outcome, adapter>>
  BY DEF Nack, Conclude, Holding, config
<1>2. Copies' /\ Live' = Live
  BY <1>1, RetriedCopies
<1>3. msg \in Delivered /\ Event(m) = Event(msg) /\ m.attempt - 1 = msg.attempt
  <2>1. msg \in Delivered
    BY <1>1 DEF TypeOK
  <2>2. msg.attempt \in Nat
    BY <2>1, MaxTriesIsNat DEF Delivered
  <2>3. QED
    BY <2>1, <2>2 DEF Delivered, Event
<1>. HIDE DEF m
<1>4. Backlog' = Backlog \cup {m}
  BY <1>1 DEF Backlog, CopiesIn
<1>5. Unique(Backlog) /\ Unique(Backlog') /\ ~Holding'
  BY <1>1, <1>2, BacklogFacts, BacklogStaysUnique DEF Holding, Return
<1>6. ASSUME NEW d \in Events PROVE TriesOf(d)' = TriesOf(d)
  <2>1. CASE d = Event(msg)
    <3>1. TriesIn(Backlog', d) = m.attempt - 1
      BY <1>3, <1>4, <1>5, <2>1, TriesOfCopy
    <3>2. QED
      BY <1>1, <1>3, <1>5, <2>1, <3>1, TriesView
  <2>2. CASE d # Event(msg)
    <3>1. TriesIn(Backlog', d) = TriesIn(Backlog, d)
      BY <1>3, <1>4, <1>5, <2>2, TriesSame
    <3>2. QED
      BY <1>5, <2>2, <3>1, TriesView
  <2>3. QED
    BY <2>1, <2>2
<1>7. \A d \in Events : StatusOf(d)' = StatusOf(d)
  BY <1>1, <1>2 DEF StatusOf
<1>8. AbstractAsked' = AbstractAsked
  BY <1>1, <1>5 DEF AbstractAsked
<1>9. QED
  BY <1>1, <1>6, <1>7, <1>8, PromiseStutters

\* Every step of the pipeline is a step of Delivery or a stutter.
LEMMA StepKeepsPromise ==
    ASSUME TypeOK, Copies, GaveUpBeforeDlq, [Next]_vars
    PROVE  [Promise!Next]_(Promise!vars)
<1>1. \A e \in Events :
        \/ Promise!Publish(e) \/ Promise!Begin(e) \/ Promise!AskDeadLetter(e)
        \/ Promise!Acknowledge(e) \/ Promise!Bury(e) \/ Promise!Lose(e)
        => Promise!Next
  BY PromiseEvents DEF Promise!Next
<1>2. ASSUME Holding, GaveUp, NEW e \in Events, e = Event(msg),
             TriesOf(e) = msg.attempt
      PROVE  TriesOf(e) = MaxTries \/ e \in AbstractAsked
  <2>1. CASE dlqRequested
    BY <1>2, <2>1 DEF AbstractAsked
  <2>2. CASE ~dlqRequested
    <3>1. msg.attempt >= MaxRetries /\ msg.attempt \in 1..MaxTries
      BY <1>2, <2>2 DEF GaveUp, TypeOK, Delivered
    <3>2. msg.attempt = MaxTries
      BY <3>1, PipelineAssumption DEF MaxTries
    <3>3. QED
      BY <1>2, <3>2
  <2>3. QED
    BY <2>1, <2>2
<1>3. ASSUME NEW id \in Messages, Publish(id) PROVE Promise!Next
  BY <1>1, <1>3, PublishKeepsPromise
<1>4. ASSUME NEW m \in timers, Redeliver(m) PROVE UNCHANGED Promise!vars
  BY <1>4, RedeliverKeepsPromise
<1>5. CASE Receive
  BY <1>1, <1>5, ReceiveKeepsPromise
<1>6. ASSUME NEW c \in Cells, NEW v \in Verdict, RunCell(c, v)
      PROVE  Promise!Next \/ UNCHANGED Promise!vars
  BY <1>1, <1>6, RunCellKeepsPromise
<1>7. CASE Ack
  <2>1. PICK e \in Events : e = Event(msg) /\ Promise!Settle(e, "acked")
    BY <1>7, SettledKeepsPromise DEF Ack, Conclude, Holding, config
  <2>2. e \notin AbstractAsked
    BY <1>7 DEF Ack, AbstractAsked
  <2>3. Promise!Acknowledge(e)
    BY <2>1, <2>2 DEF Promise!Acknowledge, AbstractAsked
  <2>4. QED
    BY <1>1, <2>3
<1>8. CASE Nack
  <2>1. CASE adapter = "nats"
    <3>1. PICK e \in Events : Promise!Settle(e, "lost")
      BY <1>8, <2>1, SettledKeepsPromise DEF Nack, Conclude, Holding, config
    <3>2. Promise!Lose(e)
      BY <2>1, <3>1 DEF Promise!Lose
    <3>3. QED
      BY <1>1, <3>2
  <2>2. CASE adapter # "nats"
    BY <1>8, <2>2, RetriedKeepsPromise
  <2>3. QED
    BY <2>1, <2>2
<1>9. CASE Drop
  <2>1. PICK e \in Events : /\ e = Event(msg)
                            /\ Promise!Settle(e, "dropped")
                            /\ TriesOf(e) = msg.attempt
    BY <1>9, SettledKeepsPromise DEF Drop, Conclude, Holding, config
  <2>2. TriesOf(e) = MaxTries \/ e \in AbstractAsked
    BY <1>2, <1>9, <2>1 DEF Drop, Conclude, Holding
  <2>3. Promise!Bury(e)
    BY <2>1, <2>2 DEF Promise!Bury, AbstractAsked
  <2>4. QED
    BY <1>1, <2>3
<1>10. CASE GiveUp
  <2>1. UNCHANGED <<channel, timers, msg, dlqRequested, adapter, outcome>>
        /\ Holding /\ Holding'
    BY <1>10 DEF GiveUp, Conclude, Holding, locals, config
  <2>2. UNCHANGED <<Live, Backlog>>
    BY <2>1 DEF Live, Queued, Waiting, Held, Backlog
  <2>3. /\ \A d \in Events : TriesOf(d)' = TriesOf(d)
        /\ \A d \in Events : StatusOf(d)' = StatusOf(d)
        /\ AbstractAsked' = AbstractAsked
    BY <2>1, <2>2, TriesView DEF StatusOf, AbstractAsked
  <2>4. QED
    BY <2>1, <2>3, PromiseStutters
<1>11. CASE PublishDlq
  <2>1. Holding /\ GaveUp
    BY <1>11 DEF PublishDlq, Holding, GaveUpBeforeDlq
  <2>2. CASE Leave("dead")
    <3>1. PICK e \in Events : /\ e = Event(msg)
                              /\ Promise!Settle(e, "dead")
                              /\ TriesOf(e) = msg.attempt
      <4>1. CASE adapter = "nats" \/ msg.depth = MaxDepth
        BY <1>11, <2>1, <2>2, <4>1, SettledKeepsPromise DEF PublishDlq, config
      <4>2. CASE adapter # "nats" /\ msg.depth # MaxDepth
        BY <1>11, <2>1, <2>2, <4>2, BuriedKeepsPromise DEF PublishDlq, config
      <4>3. QED
        BY <4>1, <4>2
    <3>2. TriesOf(e) = MaxTries \/ e \in AbstractAsked
      BY <1>2, <2>1, <3>1
    <3>3. Promise!Bury(e)
      BY <3>1, <3>2 DEF Promise!Bury, AbstractAsked
    <3>4. QED
      BY <1>1, <3>3
  <2>3. CASE adapter = "nats" /\ Leave("lost")
    <3>1. PICK e \in Events : Promise!Settle(e, "lost")
      BY <1>11, <2>1, <2>3, SettledKeepsPromise DEF PublishDlq, config
    <3>2. Promise!Lose(e)
      BY <2>3, <3>1 DEF Promise!Lose
    <3>3. QED
      BY <1>1, <3>2
  <2>4. QED
    BY <1>11, <2>2, <2>3 DEF PublishDlq
<1>12. CASE UNCHANGED vars
  <2>1. UNCHANGED <<Live, Backlog, AbstractAsked, msg, outcome, Holding, adapter>>
    BY <1>12 DEF vars, Live, Queued, Waiting, Held, Holding, Backlog, AbstractAsked
  <2>2. \A d \in Events : TriesOf(d)' = TriesOf(d) /\ StatusOf(d)' = StatusOf(d)
    BY <2>1, TriesView DEF StatusOf
  <2>3. QED
    BY <2>1, <2>2, PromiseStutters
<1>13. QED
  BY <1>3, <1>4, <1>5, <1>6, <1>7, <1>8, <1>9, <1>10, <1>11, <1>12
  DEF Next, Consume

LEMMA InitKeepsPromise == Init => Promise!Init
<1> SUFFICES ASSUME Init PROVE Promise!Init
  OBVIOUS
<1>1. Live = {} /\ Backlog = {} /\ ~Holding
  BY DEF Init, Live, Queued, Waiting, Held, Holding, Backlog, CopiesIn
<1>2. \A e \in Events : StatusOf(e) = "absent" /\ TriesOf(e) = 0
  BY <1>1, TriesView, TriesOfNone DEF Init, StatusOf
<1>3. QED
  BY <1>1, <1>2 DEF Promise!Init, Promise!Events, Events

\* The pipeline implements Delivery: an event is tried at most MaxTries times,
\* settled exactly once and never tried again, buried only after all its tries
\* or because a cell asked for it, and lost only through a lossy transport.
THEOREM ImplementsDelivery == Spec => Promise!Spec
<1>1. IInv /\ [Next]_vars => [Promise!Next]_(Promise!vars)
  BY StepKeepsPromise DEF IInv
<1>2. QED
  BY Invariance, InitKeepsPromise, <1>1, PTL DEF Spec, Promise!Spec
=============================================================================
