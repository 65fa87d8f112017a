------------------------------- MODULE EventBus -------------------------------
(***************************************************************************)
(* inMemoryEventBus: a map of handlers under an RWMutex.  Publish holds    *)
(* the read lock while it starts one goroutine for each handler of the     *)
(* topic; a goroutine may run, and end, before the next one is started.    *)
(* Subscribe holds the write lock.                                         *)
(*                                                                         *)
(* The n-th handler of a topic gets delivery n of each of its events.  Who *)
(* publishes is a goroutine of the bus, named by the delivery it runs, or  *)
(* the loop of the moderator server.                                       *)
(***************************************************************************)
EXTENDS Naturals, Sequences

CONSTANTS Topics, Handlers, Data    \* Data: what an event carries

VARIABLES
    alive,          \* the process has not ended
    subscribers,    \* the handlers of each topic, in order of subscription
    events,         \* history: the events published, in order
    publishing,     \* calls of Publish that hold the read lock
    running,        \* deliveries that a goroutine is handling
    finished        \* history: deliveries whose handler has returned

busVars == <<alive, subscribers, events, publishing, running, finished>>

Events == [topic: Topics, data: Data, audience: Nat]
Deliveries == [event: Nat, n: Nat]
Loop == [event |-> 0, n |-> 0]          \* the publisher that is no delivery

BusTypeOK ==
    /\ alive \in BOOLEAN
    /\ subscribers \in [Topics -> Seq(Handlers)]
    /\ events \in Seq(Events)
    /\ publishing \subseteq [by: Deliveries, event: Nat, next: Nat]
    /\ running \subseteq Deliveries
    /\ finished \subseteq Deliveries

BusInit ==
    /\ alive = TRUE
    /\ subscribers = [t \in Topics |-> <<>>]
    /\ events = <<>>
    /\ publishing = {} /\ running = {} /\ finished = {}

HandlerOf(d) == subscribers[events[d.event].topic][d.n]

-----------------------------------------------------------------------------
Subscribe(t, h) ==
    /\ alive
    /\ publishing = {}
    /\ subscribers' = [subscribers EXCEPT ![t] = Append(@, h)]
    /\ UNCHANGED <<alive, events, publishing, running, finished>>

\* A topic without handlers is left at once.
Publish(by, t, data) ==
    LET count == Len(subscribers[t])
        event == Len(events) + 1 IN
    /\ alive
    /\ \A p \in publishing : p.by # by
    /\ events' = Append(events, [topic |-> t, data |-> data, audience |-> count])
    /\ publishing' = publishing \cup
          {[by |-> by, event |-> event, next |-> n] : n \in {1} \cap (1..count)}
    /\ UNCHANGED <<alive, subscribers, running, finished>>

\* Mutant: the goroutine is started for the handler before it, too.
LaunchTwice(p) ==
    /\ p.next <= events[p.event].audience
    /\ running' = running \cup {[event |-> p.event, n |-> p.next]}
    /\ \/ publishing' = (publishing \ {p}) \cup {[p EXCEPT !.next = @ + 1]}
       \/ UNCHANGED publishing
    /\ UNCHANGED <<alive, subscribers, events, finished>>

Launch(p) ==
    /\ p.next <= events[p.event].audience
    /\ running' = running \cup {[event |-> p.event, n |-> p.next]}
    /\ publishing' = (publishing \ {p}) \cup {[p EXCEPT !.next = @ + 1]}
    /\ UNCHANGED <<alive, subscribers, events, finished>>

Unlock(p) ==
    /\ p.next > events[p.event].audience
    /\ publishing' = publishing \ {p}
    /\ UNCHANGED <<alive, subscribers, events, running, finished>>

\* The handler returns; an error is logged and not retried.
Return(d) ==
    /\ \A p \in publishing : p.by # d
    /\ running' = running \ {d}
    /\ finished' = finished \cup {d}
    /\ UNCHANGED <<alive, subscribers, events, publishing>>

\* main returns: goroutines end wherever they are.
Exit ==
    /\ alive' = FALSE
    /\ publishing' = {} /\ running' = {}
    /\ UNCHANGED <<subscribers, events, finished>>

BusNext ==
    \/ \E t \in Topics, h \in Handlers : Subscribe(t, h)
    \/ \E by \in running \cup {Loop}, t \in Topics, x \in Data : Publish(by, t, x)
    \/ \E p \in publishing : Launch(p) \/ Unlock(p)
    \/ \E d \in running : Return(d)
    \/ Exit

BusSpec == BusInit /\ [][BusNext]_busVars

-----------------------------------------------------------------------------
(* The bus does what PubSub promises: a delivery is owed while its         *)
(* goroutine runs or is still to be started by a call that holds the lock. *)
ToLaunch(p) ==
    {[event |-> p.event, n |-> n] : n \in p.next..events[p.event].audience}

Owed == running \cup UNION {ToLaunch(p) : p \in publishing}

Promise == INSTANCE PubSub
           WITH audience <- [t \in Topics |-> Len(subscribers[t])],
                events <- [e \in DOMAIN events |-> events[e].topic],
                owed <- Owed, delivered <- finished, open <- alive

ImplementsPubSub == Promise!Spec
=============================================================================
