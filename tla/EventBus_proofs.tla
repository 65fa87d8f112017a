---------------------------- MODULE EventBus_proofs ----------------------------
(***************************************************************************)
(* The bus keeps the promise of PubSub for any topics, handlers and events *)
(* and any number of publishers.  What makes it true: calls of Publish     *)
(* work on different events, and the goroutines of an event are those      *)
(* before the one that its call starts next.                               *)
(***************************************************************************)
EXTENDS EventBus, SequenceTheorems, TLAPS

(* Why no delivery is started twice.                                       *)
Launches ==
    /\ \A p \in publishing : p.event \in DOMAIN events /\ p.next > 0
    /\ \A d \in running : d.event \in DOMAIN events
    /\ \A p, q \in publishing : p.event = q.event => p = q
    /\ \A p \in publishing, d \in running : d.event = p.event => d.n < p.next

BusInv == BusTypeOK /\ Launches

(* What is known of a published event.                                     *)
LEMMA EventParts ==
  ASSUME BusTypeOK, NEW e \in DOMAIN events
  PROVE  /\ events[e].topic \in Topics
         /\ events[e].data \in Data
         /\ events[e].audience \in Nat
  <1>1. events \in Seq(Events)
    BY DEF BusTypeOK
  <1>2. e \in 1..Len(events)
    BY <1>1, LenProperties
  <1>3. events[e] \in Events
    BY <1>1, <1>2, ElementOfSeq
  <1> QED BY <1>3 DEF Events

-----------------------------------------------------------------------------
LEMMA BusInitInv == BusInit => BusInv
  BY EmptySeq DEF BusInit, BusInv, BusTypeOK, Launches

LEMMA SubscribeInv ==
  ASSUME BusInv, NEW t \in Topics, NEW h \in Handlers, Subscribe(t, h)
  PROVE  BusInv'
  <1>1. Append(subscribers[t], h) \in Seq(Handlers)
    BY AppendProperties DEF BusInv, BusTypeOK
  <1>2. BusTypeOK'
    BY <1>1 DEF Subscribe, BusInv, BusTypeOK
  <1>3. Launches'
    BY DEF Subscribe, BusInv, Launches
  <1> QED BY <1>2, <1>3 DEF BusInv

(* A published event is a new one.                                         *)
LEMMA PublishEvents ==
  ASSUME BusTypeOK, NEW by, NEW t \in Topics, NEW x \in Data, Publish(by, t, x)
  PROVE  /\ Len(subscribers[t]) \in Nat
         /\ events' \in Seq(Events)
         /\ Len(events) \in Nat
         /\ DOMAIN events = 1..Len(events)
         /\ DOMAIN events' = 1..(Len(events) + 1)
         /\ \A e \in DOMAIN events : events'[e] = events[e]
         /\ events'[Len(events) + 1] =
               [topic |-> t, data |-> x, audience |-> Len(subscribers[t])]
  <1> DEFINE ev == [topic |-> t, data |-> x, audience |-> Len(subscribers[t])]
  <1>1. Len(subscribers[t]) \in Nat
    BY LenProperties DEF BusTypeOK
  <1>2. ev \in Events
    BY <1>1 DEF Events
  <1>3. events' = Append(events, ev)
    BY DEF Publish
  <1>4. events \in Seq(Events)
    BY DEF BusTypeOK
  <1>5. Len(events) \in Nat /\ DOMAIN events = 1..Len(events)
    BY <1>4, LenProperties
  <1> HIDE DEF ev
  <1>6. /\ Append(events, ev) \in Seq(Events)
        /\ Len(Append(events, ev)) = Len(events) + 1
        /\ \A i \in 1..Len(events) : Append(events, ev)[i] = events[i]
        /\ Append(events, ev)[Len(events) + 1] = ev
    BY <1>2, <1>4, AppendProperties
  <1>7. DOMAIN events' = 1..(Len(events) + 1)
    BY <1>3, <1>6, LenProperties
  <1> QED BY <1>1, <1>3, <1>5, <1>6, <1>7 DEF ev

LEMMA PublishInv ==
  ASSUME BusInv, NEW by \in running \cup {Loop}, NEW t \in Topics,
         NEW x \in Data, Publish(by, t, x)
  PROVE  BusInv'
  <1> DEFINE count == Len(subscribers[t])
  <1> DEFINE event == Len(events) + 1
  <1> DEFINE new == {[by |-> by, event |-> event, next |-> n] :
                        n \in {1} \cap (1..count)}
  <1>0. BusTypeOK /\ Launches
    BY DEF BusInv
  <1>1. /\ events' \in Seq(Events)
        /\ Len(events) \in Nat
        /\ DOMAIN events = 1..Len(events)
        /\ DOMAIN events' = 1..(Len(events) + 1)
        /\ \A e \in DOMAIN events : events'[e] = events[e]
    BY <1>0, PublishEvents
  <1>2. publishing' = publishing \cup new
    BY DEF Publish
  <1>3. by \in Deliveries
    BY <1>0 DEF BusTypeOK, Loop, Deliveries
  <1>4. new \subseteq {[by |-> by, event |-> event, next |-> 1]}
    OBVIOUS
  <1>5. BusTypeOK'
    <2>1. new \subseteq [by: Deliveries, event: Nat, next: Nat]
      BY <1>1, <1>3, <1>4
    <2> HIDE DEF new
    <2> QED BY <1>0, <1>1, <1>2, <2>1 DEF BusTypeOK, Publish
  <1> HIDE DEF new
  <1>6. \A p \in publishing' :
            p \in publishing \/ (p.event = event /\ p.next = 1)
    BY <1>2, <1>4
  <1>7. running' = running
    BY DEF Publish
  <1>8. Launches'
    <2>1. \A p \in publishing' : p.event \in DOMAIN events' /\ p.next > 0
      BY <1>0, <1>1, <1>6 DEF Launches
    <2>2. \A d \in running' : d.event \in DOMAIN events'
      BY <1>0, <1>1, <1>7 DEF Launches
    <2>3. \A p, q \in publishing' : p.event = q.event => p = q
      <3>1. \A p \in publishing : p.event # event
        BY <1>0, <1>1 DEF Launches
      <3>2. \A p \in publishing' \ publishing :
                p = [by |-> by, event |-> event, next |-> 1]
        BY <1>2, <1>4
      <3> QED BY <1>0, <3>1, <3>2 DEF Launches
    <2>4. \A p \in publishing', d \in running' :
              d.event = p.event => d.n < p.next
      <3>1. \A d \in running : d.event # event
        BY <1>0, <1>1 DEF Launches
      <3> QED BY <1>0, <1>6, <1>7, <3>1 DEF Launches
    <2> QED BY <2>1, <2>2, <2>3, <2>4 DEF Launches
  <1> QED BY <1>5, <1>8 DEF BusInv

LEMMA LaunchInv ==
  ASSUME BusInv, NEW p \in publishing, Launch(p)
  PROVE  BusInv'
  <1> DEFINE d == [event |-> p.event, n |-> p.next]
  <1> DEFINE new == [p EXCEPT !.next = @ + 1]
  <1>1. p \in [by: Deliveries, event: Nat, next: Nat]
    BY DEF BusInv, BusTypeOK
  <1>2. /\ new \in [by: Deliveries, event: Nat, next: Nat]
        /\ new.event = p.event /\ new.next = p.next + 1
    BY <1>1
  <1>3. d \in Deliveries /\ d.event = p.event /\ d.n = p.next
    BY <1>1 DEF Deliveries
  <1> HIDE DEF d, new
  <1>4. publishing' = (publishing \ {p}) \cup {new}
    BY DEF Launch, new
  <1>5. running' = running \cup {d}
    BY DEF Launch, d
  <1>6. UNCHANGED <<alive, subscribers, events, finished>>
    BY DEF Launch
  <1>7. BusTypeOK'
    BY <1>2, <1>3, <1>4, <1>5, <1>6 DEF BusInv, BusTypeOK
  <1>8. \A q \in publishing' : q.event \in DOMAIN events' /\ q.next > 0
    BY <1>1, <1>2, <1>4, <1>6 DEF BusInv, Launches
  <1>9. \A x \in running' : x.event \in DOMAIN events'
    BY <1>3, <1>5, <1>6 DEF BusInv, Launches
  <1>10. \A q, r \in publishing' : q.event = r.event => q = r
    BY <1>2, <1>4 DEF BusInv, Launches
  <1>11. \A q \in publishing', x \in running' : x.event = q.event => x.n < q.next
    <2> SUFFICES ASSUME NEW q \in publishing', NEW x \in running',
                        x.event = q.event
                 PROVE  x.n < q.next
      OBVIOUS
    <2>1. CASE q = new /\ x = d
      BY <1>1, <1>2, <1>3, <2>1
    <2>2. CASE q = new /\ x \in running
      <3>1. x.n < p.next
        BY <1>2, <2>2 DEF BusInv, Launches
      <3>2. x.n \in Nat
        BY <2>2 DEF BusInv, BusTypeOK, Deliveries
      <3> QED BY <1>1, <1>2, <2>2, <3>1, <3>2
    <2>3. CASE q \in publishing \ {p} /\ x = d
      <3>1. q.event # p.event
        BY <2>3 DEF BusInv, Launches
      <3> QED BY <1>3, <2>3, <3>1
    <2>4. CASE q \in publishing \ {p} /\ x \in running
      BY <2>4 DEF BusInv, Launches
    <2> QED BY <1>4, <1>5, <2>1, <2>2, <2>3, <2>4
  <1> QED BY <1>7, <1>8, <1>9, <1>10, <1>11 DEF BusInv, Launches

LEMMA BusNextInv ==
  ASSUME BusInv, [BusNext]_busVars
  PROVE  BusInv'
  <1>1. CASE \E t \in Topics, h \in Handlers : Subscribe(t, h)
    BY <1>1, SubscribeInv
  <1>2. CASE \E by \in running \cup {Loop}, t \in Topics, x \in Data :
                Publish(by, t, x)
    BY <1>2, PublishInv
  <1>3. CASE \E p \in publishing : Launch(p)
    BY <1>3, LaunchInv
  <1>4. CASE \E p \in publishing : Unlock(p)
    BY <1>4 DEF Unlock, BusInv, BusTypeOK, Launches
  <1>5. CASE \E d \in running : Return(d)
    BY <1>5 DEF Return, BusInv, BusTypeOK, Launches
  <1>6. CASE Exit
    BY <1>6 DEF Exit, BusInv, BusTypeOK, Launches
  <1>7. CASE UNCHANGED busVars
    BY <1>7 DEF busVars, BusInv, BusTypeOK, Launches
  <1> QED BY <1>1, <1>2, <1>3, <1>4, <1>5, <1>6, <1>7 DEF BusNext

(* The inductive invariant of the bus, for any topics, handlers and data.  *)
THEOREM BusInvHolds == BusSpec => []BusInv
  BY BusInitInv, BusNextInv, PTL DEF BusSpec

-----------------------------------------------------------------------------
(* The refinement, one lemma for each action of the bus.                   *)
Counts == [t \in Topics |-> Len(subscribers[t])]
TopicsSoFar == [e \in DOMAIN events |-> events[e].topic]

LEMMA InitRefines == BusInit => Promise!Init
  BY EmptySeq DEF BusInit, Promise!Init, Owed

LEMMA SubscribeRefines ==
  ASSUME BusInv, NEW t \in Topics, NEW h \in Handlers, Subscribe(t, h)
  PROVE  Promise!Subscribe(t)
  <1>1. /\ subscribers[t] \in Seq(Handlers)
        /\ Len(Append(subscribers[t], h)) = Len(subscribers[t]) + 1
    BY AppendProperties DEF BusInv, BusTypeOK
  <1>2. Counts' = [Counts EXCEPT ![t] = @ + 1]
    BY <1>1 DEF Counts, Subscribe, BusInv, BusTypeOK
  <1>3. UNCHANGED Owed /\ UNCHANGED TopicsSoFar
    BY DEF Subscribe, Owed, ToLaunch, TopicsSoFar
  <1> QED BY <1>2, <1>3 DEF Promise!Subscribe, Subscribe, Counts, TopicsSoFar

LEMMA PublishRefines ==
  ASSUME BusInv, NEW by \in running \cup {Loop}, NEW t \in Topics,
         NEW x \in Data, Publish(by, t, x)
  PROVE  Promise!Publish(t)
  <1> DEFINE count == Len(subscribers[t])
  <1> DEFINE event == Len(events) + 1
  <1> DEFINE new == {[by |-> by, event |-> event, next |-> n] :
                        n \in {1} \cap (1..count)}
  <1>1. /\ count \in Nat
        /\ Len(events) \in Nat
        /\ DOMAIN events = 1..Len(events)
        /\ DOMAIN events' = 1..event
        /\ \A e \in DOMAIN events : events'[e] = events[e]
        /\ events'[event] = [topic |-> t, data |-> x, audience |-> count]
        /\ events \in Seq(Events)
    BY PublishEvents DEF BusInv, BusTypeOK
  <1>2. /\ publishing' = publishing \cup new
        /\ UNCHANGED <<alive, subscribers, running, finished>>
        /\ alive
    BY DEF Publish
  <1>3. /\ TopicsSoFar \in Seq(Topics)
        /\ Len(TopicsSoFar) = Len(events)
    <2>1. \A e \in 1..Len(events) : events[e].topic \in Topics
      BY <1>1, EventParts DEF BusInv
    <2>2. TopicsSoFar \in [1..Len(events) -> Topics]
      BY <1>1, <2>1 DEF TopicsSoFar
    <2>3. TopicsSoFar \in Seq(Topics)
      BY <1>1, <2>2, SeqDef
    <2> QED BY <1>1, <2>2, <2>3, LenProperties
  <1>4. TopicsSoFar' = Append(TopicsSoFar, t)
    <2> DEFINE longer == Append(TopicsSoFar, t)
    <2>1. /\ longer \in Seq(Topics)
          /\ Len(longer) = event
          /\ \A e \in 1..Len(events) : longer[e] = TopicsSoFar[e]
          /\ longer[event] = t
      BY <1>3, AppendProperties
    <2>2. longer \in [1..event -> Topics]
      BY <2>1, LenProperties
    <2> HIDE DEF longer
    <2>3. \A e \in 1..event : events'[e].topic = longer[e]
      <3> SUFFICES ASSUME NEW e \in 1..event PROVE events'[e].topic = longer[e]
        OBVIOUS
      <3>1. CASE e = event
        BY <1>1, <2>1, <3>1
      <3>2. CASE e \in 1..Len(events)
        BY <1>1, <2>1, <3>2 DEF TopicsSoFar
      <3> QED BY <1>1, <3>1, <3>2
    <2>4. TopicsSoFar' = [e \in 1..event |-> longer[e]]
      BY <1>1, <2>3 DEF TopicsSoFar
    <2> QED BY <2>2, <2>4 DEF longer
  <1> DEFINE deliveries == {Promise!Delivery(event, n) : n \in 1..count}
  <1>5. Owed' = Owed \cup deliveries
    <2>1. \A p \in publishing : ToLaunch(p)' = ToLaunch(p)
      BY <1>1 DEF BusInv, Launches, ToLaunch
    <2>2. \A p \in new : ToLaunch(p)' = deliveries
      BY <1>1 DEF ToLaunch, Promise!Delivery
    <2>3. CASE count = 0
      <3>1. new = {} /\ deliveries = {}
        BY <1>1, <2>3
      <3> QED BY <1>2, <2>1, <3>1 DEF Owed
    <2>4. CASE count > 0
      <3>1. new # {}
        <4>1. 1 \in {1} \cap (1..count)
          BY <1>1, <2>4
        <4> QED BY <4>1
      <3> HIDE DEF new, deliveries
      <3>2. UNION {ToLaunch(p)' : p \in publishing \cup new} =
               (UNION {ToLaunch(p) : p \in publishing}) \cup deliveries
        BY <2>1, <2>2, <3>1
      <3>3. Owed' = running \cup UNION {ToLaunch(p)' : p \in publishing \cup new}
        BY <1>2 DEF Owed
      <3> QED BY <3>2, <3>3 DEF Owed
    <2> QED BY <1>1, <2>3, <2>4
  <1>6. Len(TopicsSoFar) + 1 = event
    BY <1>3
  <1> HIDE DEF event, count
  <1>7. Owed' = Owed \cup {Promise!Delivery(Len(TopicsSoFar) + 1, n) :
                              n \in 1..Counts[t]}
    BY <1>5, <1>6 DEF Counts, count
  <1>8. UNCHANGED Counts
    BY <1>2 DEF Counts
  <1> QED BY <1>2, <1>4, <1>7, <1>8
         DEF Promise!Publish, Promise!Delivery, TopicsSoFar, Counts

(* Starting a goroutine and letting the lock go do not show.               *)
LEMMA LaunchRefines ==
  ASSUME BusInv, NEW p \in publishing, Launch(p)
  PROVE  UNCHANGED <<Owed, Counts, TopicsSoFar, finished, alive>>
  <1> DEFINE d == [event |-> p.event, n |-> p.next]
  <1> DEFINE new == [p EXCEPT !.next = @ + 1]
  <1>1. p \in [by: Deliveries, event: Nat, next: Nat]
    BY DEF BusInv, BusTypeOK
  <1>2. /\ p.next <= events[p.event].audience
        /\ publishing' = (publishing \ {p}) \cup {new}
        /\ running' = running \cup {d}
        /\ UNCHANGED <<alive, subscribers, events, finished>>
    BY DEF Launch
  <1>3. new.event = p.event /\ new.next = p.next + 1
    BY <1>1
  <1>4. events[p.event].audience \in Nat
    BY EventParts DEF BusInv, BusTypeOK, Launches
  <1>5. ToLaunch(p) = {d} \cup ToLaunch(new)
    <2>1. p.next..events[p.event].audience =
             {p.next} \cup (p.next + 1)..events[p.event].audience
      BY <1>1, <1>2, <1>4
    <2> QED BY <1>3, <2>1 DEF ToLaunch
  <1> HIDE DEF d, new
  <1>6. \A q : ToLaunch(q)' = ToLaunch(q)
    BY <1>2 DEF ToLaunch
  <1>7. Owed' = Owed
    BY <1>2, <1>5, <1>6 DEF Owed
  <1> QED BY <1>2, <1>7 DEF Counts, TopicsSoFar

LEMMA UnlockRefines ==
  ASSUME BusInv, NEW p \in publishing, Unlock(p)
  PROVE  UNCHANGED <<Owed, Counts, TopicsSoFar, finished, alive>>
  <1>1. /\ p.next > events[p.event].audience
        /\ publishing' = publishing \ {p}
        /\ UNCHANGED <<alive, subscribers, events, running, finished>>
    BY DEF Unlock
  <1>2. p.next \in Nat /\ events[p.event].audience \in Nat
    BY EventParts DEF BusInv, BusTypeOK, Launches
  <1>3. ToLaunch(p) = {}
    BY <1>1, <1>2 DEF ToLaunch
  <1>4. \A q : ToLaunch(q)' = ToLaunch(q)
    BY <1>1 DEF ToLaunch
  <1>5. Owed' = Owed
    BY <1>1, <1>3, <1>4 DEF Owed
  <1> QED BY <1>1, <1>5 DEF Counts, TopicsSoFar

LEMMA ReturnRefines ==
  ASSUME BusInv, NEW d \in running, Return(d)
  PROVE  Promise!Deliver(d)
  <1>1. /\ running' = running \ {d}
        /\ finished' = finished \cup {d}
        /\ UNCHANGED <<alive, subscribers, events, publishing>>
    BY DEF Return
  <1>2. \A p \in publishing : d \notin ToLaunch(p)
    <2> SUFFICES ASSUME NEW p \in publishing, d \in ToLaunch(p) PROVE FALSE
      OBVIOUS
    <2>1. /\ p.next \in Nat
          /\ events[p.event].audience \in Nat
      BY EventParts DEF BusInv, BusTypeOK, Launches
    <2>2. d.event = p.event /\ d.n >= p.next
      BY <2>1 DEF ToLaunch
    <2>3. d.n \in Nat
      BY DEF BusInv, BusTypeOK, Deliveries
    <2> QED BY <2>1, <2>2, <2>3 DEF BusInv, Launches
  <1>3. \A p : ToLaunch(p)' = ToLaunch(p)
    BY <1>1 DEF ToLaunch
  <1>4. d \in Owed /\ Owed' = Owed \ {d}
    BY <1>1, <1>2, <1>3 DEF Owed
  <1> QED BY <1>1, <1>4 DEF Promise!Deliver

LEMMA ExitRefines ==
  ASSUME Exit
  PROVE  Promise!End
  BY DEF Exit, Promise!End, Owed

LEMMA BusNextRefines ==
  ASSUME BusInv, [BusNext]_busVars
  PROVE  [Promise!Next]_(Promise!vars)
  <1>1. CASE \E t \in Topics, h \in Handlers : Subscribe(t, h)
    BY <1>1, SubscribeRefines DEF Promise!Next
  <1>2. CASE \E by \in running \cup {Loop}, t \in Topics, x \in Data :
                Publish(by, t, x)
    BY <1>2, PublishRefines DEF Promise!Next
  <1>3. CASE \E p \in publishing : Launch(p) \/ Unlock(p)
    <2>1. UNCHANGED <<Owed, Counts, TopicsSoFar, finished, alive>>
      BY <1>3, LaunchRefines, UnlockRefines
    <2> QED BY <2>1 DEF Promise!vars, Counts, TopicsSoFar
  <1>4. CASE \E d \in running : Return(d)
    <2>1. PICK d \in running : Return(d)
      BY <1>4
    <2>2. Promise!Deliver(d)
      BY <2>1, ReturnRefines
    <2>3. d \in Owed
      BY DEF Owed
    <2> QED BY <2>2, <2>3 DEF Promise!Next
  <1>5. CASE Exit
    BY <1>5, ExitRefines DEF Promise!Next
  <1>6. CASE UNCHANGED busVars
    BY <1>6 DEF busVars, Promise!vars, Owed, ToLaunch
  <1> QED BY <1>1, <1>2, <1>3, <1>4, <1>5, <1>6 DEF BusNext

(* Every behaviour of the bus is one of PubSub: what is published is       *)
(* delivered at most once to each handler subscribed at that moment.       *)
THEOREM BusKeepsPromise == BusSpec => ImplementsPubSub
  BY BusInvHolds, InitRefines, BusNextRefines, PTL
     DEF BusSpec, ImplementsPubSub, Promise!Spec
=============================================================================
