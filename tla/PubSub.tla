-------------------------------- MODULE PubSub --------------------------------
(***************************************************************************)
(* What ports.EventBus promises, with no lock and no goroutines: an event  *)
(* is owed once to each subscription its topic has at that moment; what is *)
(* owed is delivered at most once, in any order; and when the process ends *)
(* what is still owed is gone.                                             *)
(***************************************************************************)
EXTENDS Naturals, Sequences

CONSTANT Topics

VARIABLES
    audience,   \* how many subscriptions each topic has
    events,     \* the topics of the events published, in order
    owed,       \* deliveries that are to come
    delivered,
    open        \* the process has not ended

vars == <<audience, events, owed, delivered, open>>

Delivery(e, n) == [event |-> e, n |-> n]

Init ==
    /\ audience = [t \in Topics |-> 0]
    /\ events = <<>>
    /\ owed = {} /\ delivered = {}
    /\ open = TRUE

Subscribe(t) ==
    /\ open
    /\ audience' = [audience EXCEPT ![t] = @ + 1]
    /\ UNCHANGED <<events, owed, delivered, open>>

Publish(t) ==
    /\ open
    /\ events' = Append(events, t)
    /\ owed' = owed \cup {Delivery(Len(events) + 1, n) : n \in 1..audience[t]}
    /\ UNCHANGED <<audience, delivered, open>>

Deliver(d) ==
    /\ d \in owed
    /\ owed' = owed \ {d}
    /\ delivered' = delivered \cup {d}
    /\ UNCHANGED <<audience, events, open>>

End ==
    /\ open' = FALSE
    /\ owed' = {}
    /\ UNCHANGED <<audience, events, delivered>>

Next ==
    \/ \E t \in Topics : Subscribe(t) \/ Publish(t)
    \/ \E d \in owed : Deliver(d)
    \/ End

Spec == Init /\ [][Next]_vars
=============================================================================
