------------------------------ MODULE Delivery ------------------------------
(***************************************************************************)
(* What the event pipeline promises for one broker event, whatever queues, *)
(* timers and loops it is built from (runtime/src/broker, and the retry    *)
(* diagram of docs/durable-steps-and-resilience.md): an event is tried at  *)
(* most MaxTries times, it is then acknowledged or buried in the dead      *)
(* letter queue, exactly once, and it is never tried again afterwards.     *)
(* A buried event comes back as a new event one DLQ level deeper.          *)
(***************************************************************************)
EXTENDS Naturals

CONSTANTS Messages,     \* what producers may publish
          MaxDepth,     \* bound: DLQ levels that are followed
          MaxTries      \* attempts granted to one event

VARIABLES status,       \* where each event is in its life
          tries,        \* attempts begun on a pending event
          asked,        \* pending events a cell wants dead-lettered
          lossy         \* does the transport lose what is not acknowledged?

vars == <<status, tries, asked, lossy>>

Events == Messages \X (0..MaxDepth)
Status == {"absent", "pending", "acked", "dead", "dropped", "lost"}
Settled == {"acked", "dead", "dropped", "lost"}

\* The event that carries e's envelope on dlq.<topic>.
Envelope(e) == <<e[1], e[2] + 1>>

Init ==
    /\ status = [e \in Events |-> "absent"]
    /\ tries = [e \in Events |-> 0]
    /\ asked = {}
    /\ lossy \in BOOLEAN

Publish(e) ==
    /\ status[e] = "absent"
    /\ status' = [status EXCEPT ![e] = "pending"]
    /\ UNCHANGED <<tries, asked, lossy>>

Begin(e) ==
    /\ status[e] = "pending"
    /\ tries[e] < MaxTries
    /\ tries' = [tries EXCEPT ![e] = @ + 1]
    /\ UNCHANGED <<status, asked, lossy>>

AskDeadLetter(e) ==
    /\ status[e] = "pending"
    /\ tries[e] > 0
    /\ asked' = asked \cup {e}
    /\ UNCHANGED <<status, tries, lossy>>

Settle(e, s) ==
    /\ status[e] = "pending"
    /\ tries[e] > 0
    /\ tries' = [tries EXCEPT ![e] = 0]
    /\ asked' = asked \ {e}
    /\ status' = [d \in Events |->
                    CASE d = e -> s
                      [] d = Envelope(e) /\ s = "dead" /\ ~lossy -> "pending"
                      [] OTHER -> status[d]]
    /\ UNCHANGED lossy

Acknowledge(e) == e \notin asked /\ Settle(e, "acked")

\* Only an event that had all its tries, or that a cell gave up on, is buried.
Bury(e) ==
    /\ tries[e] = MaxTries \/ e \in asked
    /\ Settle(e, "dead") \/ Settle(e, "dropped")

Lose(e) == lossy /\ Settle(e, "lost")

Next == \E e \in Events :
            \/ Publish(e) \/ Begin(e) \/ AskDeadLetter(e)
            \/ Acknowledge(e) \/ Bury(e) \/ Lose(e)

Spec == Init /\ [][Next]_vars

\* Every pending event gets its first try and is settled in the end.
FairSpec ==
    /\ Spec
    /\ \A e \in Events : /\ WF_vars(Begin(e))
                         /\ WF_vars(Acknowledge(e) \/ Bury(e) \/ Lose(e))
=============================================================================
