-------------------------- MODULE Orchestrator_proofs --------------------------
(***************************************************************************)
(* The life of the process, for any configurations, failures and number of *)
(* updates: what config.Load accepts works, no event is published to       *)
(* nobody, the database outlives the servers, and the work of the bus is   *)
(* cut off by a signal or a panic only.  The bus of the process is the bus *)
(* of EventBus, so its promise holds here, too.                            *)
(***************************************************************************)
EXTENDS Orchestrator, EventBus_proofs

(* What main has looked at before it goes on.                              *)
Configured ==
    /\ main \notin {"load", "bad_config"} => Accepts(cfg)
    /\ main # "bad_cipher"

(* Where main is, against the servers, the database and the bus.           *)
Staged ==
    /\ main \in Starting \cup Fatal => \A s \in Servers : server[s] = "off"
    /\ main = "waiting" => \A s \in Servers : server[s] # "off"
    /\ main \in {"closing", "exiting", "exited"} =>
          \/ \A s \in Servers : server[s] = "off"
          \/ \A s \in Servers : server[s] \in Done
    /\ db = "closed" =>
          /\ main \in {"exiting", "exited", "panicked"}
          /\ ServesUntilBothStop
    /\ main \in {"exited", "panicked"} => ~alive
    /\ ~alive => publishing = {} /\ running = {}

(* How far a server has come, and what that says of the past.              *)
Served ==
    /\ \A s \in Servers : server[s] \in {"draining", "returned"} => cancelled
    /\ \A s \in Servers : server[s] = "failed" => cfg.mode[s] = "webhook"
    /\ server["moderator"] \in {"off", "connecting", "failed"} => events = <<>>

(* The topics that have a handler.                                         *)
Covered ==
    /\ (\E s \in Servers : server[s] # "off") => wired = Len(Wiring)
    /\ \A i \in 1..wired : Len(subscribers[Wiring[i].topic]) > 0
    /\ EveryEventHasAudience

Inv == TypeOK /\ BusInv /\ Configured /\ Staged /\ Served /\ Covered

-----------------------------------------------------------------------------
(* The handlers and the topics of Start, by number.                        *)
LEMMA WiringIs ==
  /\ Len(Wiring) = 5
  /\ \A i \in 1..5 : Wiring[i].topic \in Topics /\ Wiring[i].handler \in Handlers
  /\ Wiring[1].topic = "mod:message"
  /\ Wiring[2].topic = "mod:callback_query"
  /\ Wiring[3].topic = "user:approved"
  /\ Wiring[4].topic = "user:rejected"
  /\ Wiring[5].topic = "mod:channel_post"
  <1>1. /\ Len(Wiring) = 5
        /\ Wiring[1].topic = "mod:message" /\ Wiring[1].handler = "router"
        /\ Wiring[2].topic = "mod:callback_query" /\ Wiring[2].handler = "router"
        /\ Wiring[3].topic = "user:approved" /\ Wiring[3].handler = "notification"
        /\ Wiring[4].topic = "user:rejected" /\ Wiring[4].handler = "notification"
        /\ Wiring[5].topic = "mod:channel_post" /\ Wiring[5].handler = "queue"
    BY DEF Wiring
  <1>2. {"mod:message", "mod:callback_query", "mod:channel_post",
         "user:approved", "user:rejected"} \subseteq Topics
    <2>1. /\ TopicsOf("message") = {"mod:message"}
          /\ TopicsOf("callback_query") = {"mod:callback_query"}
          /\ TopicsOf("channel_post") = {"mod:channel_post"}
      BY DEF TopicsOf
    <2>2. {"message", "callback_query", "channel_post"} \subseteq Kinds
      BY DEF Kinds
    <2>3. \A k \in Kinds : TopicsOf(k) \subseteq Topics
      BY TopicsAssumption
    <2> QED BY <2>1, <2>2, <2>3, TopicsAssumption DEF Verdicts
  <1> QED BY <1>1, <1>2, HandlersAssumption

LEMMA TopicsOfKinds ==
  ASSUME NEW k, NEW t \in TopicsOf(k)
  PROVE  t \in {"mod:message", "mod:callback_query", "mod:channel_post"}
  BY DEF TopicsOf

(* Every topic that is published has a handler once all are subscribed.    *)
LEMMA AllHeard ==
  ASSUME Covered, wired = Len(Wiring),
         NEW t \in {"mod:message", "mod:callback_query", "mod:channel_post",
                    "user:approved", "user:rejected"}
  PROVE  t \in Topics /\ Len(subscribers[t]) > 0
  <1>1. \A i \in 1..5 : Len(subscribers[Wiring[i].topic]) > 0
    BY WiringIs DEF Covered
  <1> QED BY <1>1, WiringIs

-----------------------------------------------------------------------------
(* Each step of the process is a step of the bus or does not touch it.     *)
LEMMA StepOfBus ==
  ASSUME Inv, [Next]_vars
  PROVE  [BusNext]_busVars
  <1>1. CASE SubscribeNext
    <2>1. wired + 1 \in 1..5
      BY <1>1, WiringIs DEF SubscribeNext, Inv, TypeOK
    <2>2. /\ Wiring[wired + 1].topic \in Topics
          /\ Wiring[wired + 1].handler \in Handlers
      BY <2>1, WiringIs
    <2> QED BY <1>1, <2>2 DEF SubscribeNext, BusNext
  <1>2. CASE ExitMain
    BY <1>2 DEF ExitMain, BusNext
  <1>3. CASE TakeUpdate
    <2>1. Head(inbox) \in Data
      BY <1>3, HeadTailProperties, DataAssumption DEF TakeUpdate, Inv, TypeOK
    <2>2. ASSUME NEW t \in TopicsOf(kinds[Head(inbox)]),
                 Publish(Loop, t, Head(inbox))
          PROVE  BusNext
      <3>1. t \in Topics
        BY TopicsOfKinds, WiringIs
      <3> QED BY <2>1, <2>2, <3>1 DEF BusNext
    <2>3. \/ \E t \in TopicsOf(kinds[Head(inbox)]) : Publish(Loop, t, Head(inbox))
          \/ UNCHANGED busVars
      BY <1>3 DEF TakeUpdate
    <2> QED BY <2>2, <2>3
  <1>4. ASSUME NEW d \in running, NEW t \in Verdicts, PublishVerdict(d, t)
        PROVE  BusNext
    <2>1. t \in Topics
      BY TopicsAssumption
    <2>2. events[d.event].data \in Data
      BY EventParts DEF Inv, BusInv, Launches
    <2> QED BY <1>4, <2>1, <2>2 DEF PublishVerdict, BusNext
  <1>5. CASE Goroutines \/ ReviewPanics \/ WorkerPanics
    BY <1>5 DEF Goroutines, ReviewPanics, WorkerPanics, Panic, BusNext
  <1>6. CASE UNCHANGED vars
    BY <1>6 DEF vars
  <1>7. CASE \/ Cancel \/ LoadConfig \/ DecodeKey \/ MakeCipher \/ OpenDatabase
             \/ ConnectBots \/ StartServers \/ WaitForServers \/ CloseDatabase
    BY <1>7 DEF Cancel, LoadConfig, DecodeKey, MakeCipher, OpenDatabase,
                ConnectBots, StartServers, WaitForServers, CloseDatabase, Goto
  <1>8. CASE \/ \E s \in Servers : Connect(s) \/ ListenFails(s)
             \/ StopCustomer \/ StopModerator \/ HandlersAreGone
             \/ \E k \in Kinds : Arrive(k)
             \/ \E u \in knocking : Offer(u)
    BY <1>8 DEF Connect, ListenFails, StopCustomer, StopModerator,
                HandlersAreGone, Arrive, Offer, Move
  <1> QED BY <1>1, <1>2, <1>3, <1>4, <1>5, <1>6, <1>7, <1>8
         DEF Next, MainStep, LiveStep

-----------------------------------------------------------------------------
LEMMA InitInv == Init => Inv
  <1> SUFFICES ASSUME Init PROVE Inv
    OBVIOUS
  <1>1. BusInv
    BY BusInitInv DEF Init
  <1>2. TypeOK
    <2>1. /\ kinds = <<>> /\ kinds \in Seq(Kinds) /\ Len(kinds) = 0
          /\ inbox = <<>> /\ inbox \in Seq(1..MaxUpdates) /\ Len(inbox) = 0
      BY EmptySeq DEF Init
    <2>2. cfg \in ConfigTypes /\ server \in [Servers -> ServerPlaces]
      BY ConfigsAssumption DEF Init, ServerPlaces
    <2>3. main \in Starting /\ wired \in 0..Len(Wiring)
      BY WiringIs DEF Init, Starting
    <2>4. Len(kinds) <= MaxUpdates /\ Len(inbox) <= InboxCap
      BY <2>1, MaxUpdatesAssumption, InboxCapAssumption
    <2> QED BY <1>1, <2>1, <2>2, <2>3, <2>4 DEF Init, TypeOK, BusInv
  <1>3. Configured /\ Staged /\ Served
    BY DEF Init, BusInit, Configured, Staged, Served, Starting, Fatal, Over, Done
  <1>4. Covered
    BY DEF Init, BusInit, Covered, EveryEventHasAudience
  <1> QED BY <1>1, <1>2, <1>3, <1>4 DEF Inv

(* What main does before the servers start.                                *)
LEMMA StartingInv ==
  ASSUME Inv, BusInv',
         \/ LoadConfig \/ DecodeKey \/ MakeCipher \/ OpenDatabase \/ ConnectBots
  PROVE  Inv'
  <1> USE DEF Inv
  <1>0. /\ UNCHANGED <<cfg, cancelled, serverVars, workVars, wired, busVars>>
        /\ main \in {"load", "key", "cipher", "database", "bots"}
        /\ main' \in {"key", "cipher", "database", "bots", "wiring", "closing",
                      "bad_config", "bad_key", "bad_cipher", "no_database"}
        /\ db' \in {db, "open"}
    BY DEF LoadConfig, DecodeKey, MakeCipher, OpenDatabase, ConnectBots, Goto
  <1>1. TypeOK'
    BY <1>0 DEF TypeOK, BusInv, Starting, Fatal, Over, serverVars, sourceVars, workVars,
                BusTypeOK, busVars
  <1>2. Configured'
    <2>1. main # "load" => Accepts(cfg)
      BY <1>0 DEF Configured
    <2>2. (main = "load" /\ ~Accepts(cfg)) => main' = "bad_config"
      BY DEF LoadConfig, DecodeKey, MakeCipher, OpenDatabase, ConnectBots, Goto
    <2>3. main' \notin {"load", "bad_config"} => Accepts(cfg)
      BY <2>1, <2>2
    <2>4. main' # "bad_cipher"
      <3>1. CASE MakeCipher
        <4>1. cfg.keyLen = 64
          BY <3>1, <2>1 DEF MakeCipher, Accepts
        <4>2. cfg.keyLen \div 2 \in KeySizes
          BY <4>1 DEF KeySizes
        <4> QED BY <3>1, <4>2 DEF MakeCipher, Goto
      <3>2. CASE ~MakeCipher
        BY <3>2 DEF LoadConfig, DecodeKey, OpenDatabase, ConnectBots, Goto
      <3> QED BY <3>1, <3>2
    <2> QED BY <1>0, <2>3, <2>4 DEF Configured, Accepts
  <1>3. Staged'
    BY <1>0 DEF Staged, ServesUntilBothStop, Starting, Fatal, serverVars, busVars
  <1>4. Served' /\ Covered'
    BY <1>0 DEF Served, Covered, EveryEventHasAudience, serverVars, busVars
  <1> QED BY <1>1, <1>2, <1>3, <1>4

LEMMA SubscribeNextInv ==
  ASSUME Inv, BusInv', SubscribeNext
  PROVE  Inv'
  <1> USE DEF Inv
  <1> DEFINE t == Wiring[wired + 1].topic
  <1> DEFINE h == Wiring[wired + 1].handler
  <1>0. /\ main = "wiring" /\ wired' = wired + 1
        /\ subscribers' = [subscribers EXCEPT ![t] = Append(@, h)]
        /\ UNCHANGED <<cancelled, cfg, main, db, serverVars, workVars, alive, events,
                       publishing, running>>
    BY DEF SubscribeNext, Subscribe
  <1>1. wired \in 0..4 /\ wired' \in 1..5 /\ wired + 1 \in 1..5
    BY <1>0, WiringIs DEF SubscribeNext, TypeOK
  <1>2. t \in Topics /\ h \in Handlers
    BY <1>1, WiringIs
  <1> HIDE DEF t, h
  <1>3. subscribers \in [Topics -> Seq(Handlers)]
    BY DEF BusInv, BusTypeOK
  <1>4. /\ \A x \in Topics : Len(subscribers'[x]) >= Len(subscribers[x])
        /\ Len(subscribers'[t]) > 0
        /\ \A x \in Topics : Len(subscribers[x]) \in Nat
    <2>1. \A x \in Topics : Len(subscribers[x]) \in Nat
      BY <1>3, LenProperties
    <2>2. Len(Append(subscribers[t], h)) = Len(subscribers[t]) + 1
      BY <1>2, <1>3, AppendProperties
    <2>3. \A x \in Topics : subscribers'[x] =
             IF x = t THEN Append(subscribers[t], h) ELSE subscribers[x]
      BY <1>0, <1>3
    <2>4. Len(subscribers'[t]) = Len(subscribers[t]) + 1
      BY <1>2, <2>2, <2>3
    <2>5. \A x \in Topics \ {t} : subscribers'[x] = subscribers[x]
      BY <2>3
    <2> HIDE <1>0
    <2>6. \A x \in Topics : Len(subscribers'[x]) >= Len(subscribers[x])
      <3> SUFFICES ASSUME NEW x \in Topics
                   PROVE  Len(subscribers'[x]) >= Len(subscribers[x])
        OBVIOUS
      <3>1. Len(subscribers[x]) \in Nat
        BY <2>1
      <3>2. CASE x = t
        BY <2>4, <3>1, <3>2
      <3>3. CASE x # t
        BY <2>5, <3>1, <3>3
      <3> QED BY <3>2, <3>3
    <2> QED BY <1>2, <2>1, <2>4, <2>6
  <1>5. TypeOK'
    BY <1>0, <1>1, WiringIs DEF TypeOK, BusInv, serverVars, sourceVars, workVars
  <1>6. Configured' /\ Staged' /\ Served'
    BY <1>0 DEF Configured, Staged, Served, serverVars, Accepts
  <1>7. Covered'
    <2>1. \A s \in Servers : server'[s] = "off"
      BY <1>0 DEF Staged, Starting, serverVars
    <2>2. \A i \in 1..wired' : Len(subscribers'[Wiring[i].topic]) > 0
      <3> SUFFICES ASSUME NEW i \in 1..wired'
                   PROVE  Len(subscribers'[Wiring[i].topic]) > 0
        OBVIOUS
      <3>1. Wiring[i].topic \in Topics
        BY <1>1, WiringIs
      <3>2. CASE i = wired + 1
        BY <1>4, <3>2 DEF t
      <3>3. CASE i \in 1..wired
        <4>1. Len(subscribers[Wiring[i].topic]) > 0
          BY <3>3 DEF Covered
        <4>2. /\ Len(subscribers'[Wiring[i].topic]) >= Len(subscribers[Wiring[i].topic])
              /\ Len(subscribers[Wiring[i].topic]) \in Nat
          BY <1>4, <3>1
        <4>3. Len(subscribers'[Wiring[i].topic]) \in Nat
          BY <3>1, LenProperties DEF BusInv, BusTypeOK
        <4> QED BY <4>1, <4>2, <4>3
      <3> QED BY <1>0, <1>1, <3>2, <3>3
    <2>3. EveryEventHasAudience'
      BY <1>0 DEF Covered, EveryEventHasAudience
    <2> QED BY <2>1, <2>2, <2>3 DEF Covered
  <1> QED BY <1>5, <1>6, <1>7

(* From the start of the servers to the end of main, and the signal.       *)
LEMMA MainInv ==
  ASSUME Inv, BusInv',
         \/ Cancel \/ StartServers \/ WaitForServers \/ CloseDatabase \/ ExitMain
  PROVE  Inv'
  <1> USE DEF Inv
  <1>1. TypeOK'
    BY DEF Cancel, StartServers, WaitForServers, CloseDatabase, ExitMain, Goto,
           TypeOK, BusInv, Starting, ServerPlaces, Over, serverVars, sourceVars, workVars,
           mainVars
  <1>2. Configured'
    BY DEF Cancel, StartServers, WaitForServers, CloseDatabase, ExitMain, Goto,
           Configured, mainVars, Accepts
  <1>3. Staged'
    BY DEF Cancel, StartServers, WaitForServers, CloseDatabase, ExitMain, Exit,
           Goto, Staged, ServesUntilBothStop, Starting, Fatal, Over, serverVars,
           mainVars, busVars
  <1>4. Served'
    BY DEF Cancel, StartServers, WaitForServers, CloseDatabase, ExitMain, Exit,
           Goto, Staged, Served, Starting, Servers, serverVars, mainVars, busVars
  <1>5. Covered'
    BY DEF Cancel, StartServers, WaitForServers, CloseDatabase, ExitMain, Exit,
           Goto, Covered, EveryEventHasAudience, serverVars, mainVars, busVars
  <1> QED BY <1>1, <1>2, <1>3, <1>4, <1>5

(* A server goes on: main is waiting for it.                               *)
LEMMA MoveInv ==
  ASSUME Inv, BusInv', alive, NEW s \in Servers,
         NEW place \in {"listening", "failed", "draining", "returned"},
         Move(s, place),
         server[s] \in {"connecting", "listening", "draining"},
         place = "failed" => server[s] = "connecting" /\ cfg.mode[s] = "webhook",
         place \in {"draining", "returned"} => cancelled
  PROVE  Inv'
  <1> USE DEF Inv
  <1>0. /\ server' = [server EXCEPT ![s] = place]
        /\ UNCHANGED <<cancelled, mainVars, deaf, sourceVars, workVars, busVars>>
    BY DEF Move
  <1>1. server \in [Servers -> ServerPlaces]
    BY DEF TypeOK
  <1>2. main = "waiting"
    <2>1. server[s] \notin {"off"} \cup Done
      BY DEF Done
    <2>2. main \notin Starting \cup Fatal
                   \cup {"closing", "exiting", "exited", "panicked"}
      BY <2>1 DEF Staged
    <2> QED BY <2>2 DEF TypeOK, Over
  <1>3. /\ server'[s] = place
        /\ \A x \in Servers \ {s} : server'[x] = server[x]
    BY <1>0, <1>1
  <1>4. TypeOK'
    BY <1>0, <1>1 DEF TypeOK, BusInv, ServerPlaces, mainVars, sourceVars, workVars
  <1>5. Configured'
    BY <1>0 DEF Configured, mainVars, Accepts
  <1>6. Staged'
    BY <1>0, <1>2, <1>3 DEF Staged, mainVars, busVars, Starting, Fatal
  <1>7. Served'
    <2>1. \A x \in Servers : server'[x] \in {"draining", "returned"} => cancelled
      BY <1>3 DEF Served
    <2>2. \A x \in Servers : server'[x] = "failed" => cfg.mode[x] = "webhook"
      BY <1>3 DEF Served
    <2>3. server'["moderator"] \in {"off", "connecting", "failed"} => events = <<>>
      BY <1>3 DEF Served, Servers
    <2> QED BY <1>0, <2>1, <2>2, <2>3 DEF Served, mainVars, busVars
  <1>8. Covered'
    <2>1. wired = Len(Wiring)
      BY DEF Covered
    <2> QED BY <1>0, <2>1 DEF Covered, EveryEventHasAudience, mainVars, busVars
  <1> QED BY <1>4, <1>5, <1>6, <1>7, <1>8

(* While goroutines run, a step that leaves main and the servers where they *)
(* are has only to keep the types and to publish to somebody.              *)
LEMMA QuietInv ==
  ASSUME Inv, BusInv', TypeOK', alive,
         UNCHANGED <<alive, cancelled, mainVars, server, subscribers>>,
         events' # events => server["moderator"] \notin {"off", "connecting", "failed"},
         EveryEventHasAudience'
  PROVE  Inv'
  <1>1. Configured' /\ Staged'
    BY DEF Inv, Configured, Accepts, Staged, ServesUntilBothStop, mainVars
  <1>2. Served'
    BY DEF Inv, Served, mainVars
  <1>3. Covered'
    BY DEF Inv, Covered, mainVars
  <1> QED BY <1>1, <1>2, <1>3 DEF Inv

(* The servers, as long as they leave the bus alone.                       *)
LEMMA ServersInv ==
  ASSUME Inv, BusInv', alive,
         \/ \E s \in Servers : Connect(s)
         \/ StopCustomer \/ StopModerator \/ HandlersAreGone
  PROVE  Inv'
  <1>1. ASSUME NEW s \in Servers, Connect(s) PROVE Inv'
    <2>1. cfg.mode[s] \in {"polling", "webhook"}
      <3>1. main \notin Starting \cup Fatal
        BY <1>1 DEF Inv, Staged, Connect
      <3> QED BY <3>1 DEF Inv, Configured, Accepts, Starting, Fatal
    <2> QED BY <1>1, <2>1, MoveInv DEF Connect
  <1>2. CASE StopCustomer
    BY <1>2, MoveInv DEF StopCustomer, Servers
  <1>3. CASE StopModerator
    BY <1>3, MoveInv DEF StopModerator, AtSelect, Servers
  <1>4. CASE HandlersAreGone
    <2>1. cancelled
      BY <1>4 DEF HandlersAreGone, Inv, Served, Servers
    <2> QED BY <1>4, <2>1, MoveInv DEF HandlersAreGone, Servers
  <1> QED BY <1>1, <1>2, <1>3, <1>4

(* The source of updates.                                                  *)
LEMMA SourceInv ==
  ASSUME Inv, BusInv', alive,
         \/ \E s \in Servers : ListenFails(s)
         \/ \E k \in Kinds : Arrive(k)
         \/ \E u \in knocking : Offer(u)
  PROVE  Inv'
  <1>0. UNCHANGED <<cancelled, mainVars, server, workVars, busVars>>
    BY DEF ListenFails, Arrive, Offer
  <1>1. deaf' \subseteq Servers
    BY DEF ListenFails, Arrive, Offer, Inv, TypeOK
  <1>2. kinds \in Seq(Kinds) /\ Len(kinds) \in Nat
    BY LenProperties DEF Inv, TypeOK
  <1>3. kinds' \in Seq(Kinds) /\ Len(kinds') <= MaxUpdates
    <2>1. ASSUME NEW k \in Kinds, Arrive(k)
          PROVE  kinds' \in Seq(Kinds) /\ Len(kinds') <= MaxUpdates
      <3>1. Append(kinds, k) \in Seq(Kinds) /\ Len(Append(kinds, k)) = Len(kinds) + 1
        BY <1>2, AppendProperties
      <3> QED BY <1>2, <2>1, <3>1, MaxUpdatesAssumption DEF Arrive
    <2>2. CASE UNCHANGED kinds
      BY <2>2 DEF Inv, TypeOK
    <2> QED BY <2>1, <2>2 DEF ListenFails, Offer, sourceVars
  <1>4. knocking' \subseteq 1..MaxUpdates
    <2>1. ASSUME NEW k \in Kinds, Arrive(k) PROVE knocking' \subseteq 1..MaxUpdates
      <3>1. Len(kinds') = Len(kinds) + 1
        BY <1>2, <2>1, AppendProperties DEF Arrive
      <3>2. Len(kinds') \in 1..MaxUpdates
        BY <1>2, <2>1, <3>1, MaxUpdatesAssumption DEF Arrive
      <3> QED BY <2>1, <3>2 DEF Arrive, Inv, TypeOK
    <2>2. CASE knocking' \subseteq knocking
      BY <2>2 DEF Inv, TypeOK
    <2> QED BY <2>1, <2>2 DEF ListenFails, Offer, sourceVars
  <1>5. inbox' \in Seq(1..MaxUpdates) /\ Len(inbox') <= InboxCap
    <2>1. ASSUME NEW u \in knocking, Offer(u)
          PROVE  inbox' \in Seq(1..MaxUpdates) /\ Len(inbox') <= InboxCap
      <3>1. u \in 1..MaxUpdates /\ inbox \in Seq(1..MaxUpdates)
        BY DEF Inv, TypeOK
      <3>2. /\ Append(inbox, u) \in Seq(1..MaxUpdates)
            /\ Len(Append(inbox, u)) = Len(inbox) + 1 /\ Len(inbox) \in Nat
        BY <3>1, AppendProperties, LenProperties
      <3> QED BY <2>1, <3>2, InboxCapAssumption DEF Offer
    <2>2. CASE UNCHANGED inbox
      BY <2>2 DEF Inv, TypeOK
    <2> QED BY <2>1, <2>2 DEF ListenFails, Arrive, sourceVars
  <1>6. TypeOK'
    BY <1>0, <1>1, <1>3, <1>4, <1>5 DEF Inv, TypeOK, BusInv, mainVars, workVars
  <1>7. EveryEventHasAudience'
    BY <1>0 DEF Inv, Covered, EveryEventHasAudience, busVars
  <1> QED BY <1>0, <1>6, <1>7, QuietInv DEF busVars

(* Goroutines that publish nothing.                                        *)
LEMMA GoroutinesInv ==
  ASSUME Inv, BusInv', alive, Goroutines
  PROVE  Inv'
  <1>0. UNCHANGED <<alive, subscribers, events, cancelled, mainVars, serverVars, workVars>>
    BY DEF Goroutines, Launch, Unlock, Return
  <1>1. TypeOK'
    BY <1>0 DEF Inv, TypeOK, BusInv, mainVars, serverVars, sourceVars, workVars
  <1>2. EveryEventHasAudience'
    BY <1>0 DEF Inv, Covered, EveryEventHasAudience
  <1> QED BY <1>0, <1>1, <1>2, QuietInv DEF serverVars

(* A panic ends the process: what is left of it says no more than before.  *)
LEMMA PanicInv ==
  ASSUME Inv, BusInv', alive, ReviewPanics \/ WorkerPanics
  PROVE  Inv'
  <1>0. /\ alive' = FALSE /\ main' = "panicked"
        /\ publishing' = {} /\ running' = {}
        /\ UNCHANGED <<cancelled, cfg, db, wired, serverVars, workVars,
                       subscribers, events>>
    BY DEF ReviewPanics, WorkerPanics, Panic, Exit
  <1>1. \E s \in Servers : server[s] # "off"
    <2>1. CASE ReviewPanics
      <3>1. running # {}
        BY <2>1 DEF ReviewPanics
      <3>2. \E e : e \in DOMAIN events
        BY <3>1 DEF Inv, BusInv, Launches
      <3>3. server["moderator"] # "off"
        BY <3>2, EmptySeq DEF Inv, Served
      <3> QED BY <3>3 DEF Servers
    <2>2. CASE WorkerPanics
      BY <2>2 DEF WorkerPanics, Servers
    <2> QED BY <2>1, <2>2
  <1>2. main \notin Starting \cup Fatal
    BY <1>1 DEF Inv, Staged
  <1>3. TypeOK'
    BY <1>0 DEF Inv, TypeOK, BusInv, Over, serverVars, sourceVars, workVars
  <1>4. Configured'
    BY <1>0, <1>2 DEF Inv, Configured, Accepts, Starting, Fatal
  <1>5. Staged'
    BY <1>0 DEF Inv, Staged, ServesUntilBothStop, Starting, Fatal, serverVars
  <1>6. Served'
    BY <1>0 DEF Inv, Served, serverVars
  <1>7. Covered'
    BY <1>0 DEF Inv, Covered, EveryEventHasAudience, serverVars
  <1> QED BY <1>0, <1>3, <1>4, <1>5, <1>6, <1>7 DEF Inv

(* Whoever publishes finds all handlers subscribed.                        *)
LEMMA HeardWhenPublished ==
  ASSUME Inv, NEW by, NEW x \in Data, server["moderator"] # "off",
         NEW t \in {"mod:message", "mod:callback_query", "mod:channel_post",
                    "user:approved", "user:rejected"},
         Publish(by, t, x)
  PROVE  /\ EveryEventHasAudience'
         /\ UNCHANGED <<alive, subscribers>>
  <1>1. t \in Topics /\ Len(subscribers[t]) > 0
    BY AllHeard DEF Inv, Covered, Servers
  <1>2. /\ Len(subscribers[t]) \in Nat
        /\ Len(events) \in Nat
        /\ DOMAIN events = 1..Len(events)
        /\ DOMAIN events' = 1..(Len(events) + 1)
        /\ \A e \in DOMAIN events : events'[e] = events[e]
        /\ events'[Len(events) + 1] =
              [topic |-> t, data |-> x, audience |-> Len(subscribers[t])]
    BY <1>1, PublishEvents DEF Inv, TypeOK
  <1>3. \A e \in DOMAIN events' : e \in DOMAIN events \/ e = Len(events) + 1
    BY <1>2
  <1>4. EveryEventHasAudience'
    BY <1>1, <1>2, <1>3 DEF Inv, Covered, EveryEventHasAudience
  <1> QED BY <1>4 DEF Publish

LEMMA TakeUpdateInv ==
  ASSUME Inv, BusInv', alive, TakeUpdate
  PROVE  Inv'
  <1>0. /\ UNCHANGED <<cancelled, mainVars, server, deaf, kinds, knocking, workVars>>
        /\ server["moderator"] = "listening"
    BY DEF TakeUpdate, AtSelect
  <1>1. inbox \in Seq(1..MaxUpdates) /\ inbox # <<>> /\ inbox' = Tail(inbox)
    BY DEF TakeUpdate, Inv, TypeOK
  <1>2. /\ Head(inbox) \in Data
        /\ inbox' \in Seq(1..MaxUpdates) /\ Len(inbox') = Len(inbox) - 1
        /\ Len(inbox) \in Nat
    BY <1>1, HeadTailProperties, LenProperties, DataAssumption
  <1>3. TypeOK'
    BY <1>0, <1>2, InboxCapAssumption DEF Inv, TypeOK, BusInv, mainVars, workVars
  <1>4. EveryEventHasAudience' /\ UNCHANGED <<alive, subscribers>>
    <2>1. CASE UNCHANGED busVars
      BY <2>1 DEF Inv, Covered, EveryEventHasAudience, busVars
    <2>2. ASSUME NEW t \in TopicsOf(kinds[Head(inbox)]), Publish(Loop, t, Head(inbox))
          PROVE  EveryEventHasAudience' /\ UNCHANGED <<alive, subscribers>>
      BY <1>0, <1>2, <2>2, TopicsOfKinds, HeardWhenPublished
    <2>3. \/ \E t \in TopicsOf(kinds[Head(inbox)]) : Publish(Loop, t, Head(inbox))
          \/ UNCHANGED busVars
      BY DEF TakeUpdate
    <2> QED BY <2>1, <2>2, <2>3
  <1> QED BY <1>0, <1>3, <1>4, QuietInv

LEMMA PublishVerdictInv ==
  ASSUME Inv, BusInv', alive, NEW d \in running, NEW t \in Verdicts,
         PublishVerdict(d, t)
  PROVE  Inv'
  <1>0. UNCHANGED <<cancelled, mainVars, serverVars>> /\ spoke' = spoke \cup {d}
    BY DEF PublishVerdict
  <1>6. nameless' \subseteq spoke'
    BY <1>0 DEF PublishVerdict, Inv, TypeOK
  <1>1. d.event \in DOMAIN events /\ d \in Deliveries
    BY DEF Inv, BusInv, BusTypeOK, Launches
  <1>2. events[d.event].data \in Data
    BY <1>1, EventParts DEF Inv, BusInv
  <1>3. server["moderator"] \notin {"off", "connecting", "failed"}
    BY <1>1, EmptySeq DEF Inv, Served
  <1>4. EveryEventHasAudience' /\ UNCHANGED <<alive, subscribers>>
    BY <1>2, <1>3, HeardWhenPublished DEF PublishVerdict, Verdicts
  <1>5. TypeOK'
    BY <1>0, <1>6, <1>1 DEF Inv, TypeOK, BusInv, mainVars, serverVars, sourceVars
  <1> QED BY <1>0, <1>3, <1>4, <1>5, QuietInv DEF serverVars

-----------------------------------------------------------------------------
LEMMA NextInv ==
  ASSUME Inv, [Next]_vars
  PROVE  Inv'
  <1>0. BusInv'
    BY StepOfBus, BusNextInv DEF Inv
  <1>1. CASE LoadConfig \/ DecodeKey \/ MakeCipher \/ OpenDatabase \/ ConnectBots
    BY <1>0, <1>1, StartingInv
  <1>2. CASE SubscribeNext
    BY <1>0, <1>2, SubscribeNextInv
  <1>3. CASE Cancel \/ StartServers \/ WaitForServers \/ CloseDatabase \/ ExitMain
    BY <1>0, <1>3, MainInv
  <1>4. CASE alive /\ LiveStep
    BY <1>0, <1>4, ServersInv, SourceInv, GoroutinesInv, TakeUpdateInv,
       PublishVerdictInv, PanicInv
       DEF LiveStep
  <1>5. CASE UNCHANGED vars
    <2>1. UNCHANGED <<cancelled, mainVars, serverVars, workVars, busVars>>
      BY <1>5 DEF vars
    <2> QED BY <1>0, <2>1
            DEF Inv, TypeOK, BusInv, Configured, Accepts, Staged, Served, Covered,
                EveryEventHasAudience, ServesUntilBothStop, mainVars, serverVars, sourceVars, workVars, busVars
  <1> QED BY <1>1, <1>2, <1>3, <1>4, <1>5 DEF Next, MainStep

(* The inductive invariant, for all configurations, failures and updates.  *)
THEOREM InvHolds == Spec => []Inv
  BY InitInv, NextInv, PTL DEF Spec

(* Every variable of the process, its servers and its bus has its type.    *)
THEOREM TypesHold == Spec => []TypeOK
  BY InvHolds, PTL DEF Inv

(* A configuration that config.Load accepts does not fail in the cipher,   *)
(* nor for its mode in a server.                                           *)
THEOREM ConfigIsEnough == Spec => []AcceptedConfigWorks
  <1>1. Inv => AcceptedConfigWorks
    BY DEF Inv, Configured, Served, AcceptedConfigWorks
  <1> QED BY <1>1, InvHolds, PTL

(* No update and no verdict is published to a topic nobody listens to.     *)
THEOREM NobodyIsMissed == Spec => []EveryEventHasAudience
  BY InvHolds, PTL DEF Inv, Covered

(* main closes the database only after both servers have ended.            *)
THEOREM DatabaseOutlivesServers == Spec => []ServesUntilBothStop
  <1>1. Inv => ServesUntilBothStop
    BY DEF Inv, Staged, ServesUntilBothStop
  <1> QED BY <1>1, InvHolds, PTL

(* If the process ends while something is owed to a handler, a signal came *)
(* or something panicked: no failure of a server has that effect.          *)
THEOREM CutOffsHaveACause == Spec => CutOffHasACause
  <1>1. ASSUME Inv, [Next]_vars, Owed # {}, ~alive', main' # "panicked"
        PROVE  cancelled
    <2>1. publishing # {} \/ running # {}
      BY <1>1 DEF Owed
    <2>2. alive
      BY <1>1, <2>1 DEF Inv, Staged
    <2>3. events # <<>>
      <3>1. \E e : e \in DOMAIN events
        BY <1>1, <2>1 DEF Inv, BusInv, Launches
      <3> QED BY <3>1, EmptySeq
    <2>4. main = "exiting"
      <3>1. \/ ExitMain
            \/ ReviewPanics \/ WorkerPanics
            \/ Cancel \/ LoadConfig \/ DecodeKey \/ MakeCipher \/ OpenDatabase
            \/ ConnectBots \/ SubscribeNext \/ StartServers \/ WaitForServers
            \/ CloseDatabase \/ UNCHANGED vars
            \/ \E s \in Servers : Connect(s) \/ ListenFails(s)
            \/ StopCustomer \/ StopModerator \/ HandlersAreGone
            \/ \E k \in Kinds : Arrive(k)
            \/ \E u \in knocking : Offer(u)
            \/ TakeUpdate \/ \E d \in running, t \in Verdicts : PublishVerdict(d, t)
            \/ Goroutines
        BY <1>1 DEF Next, MainStep, LiveStep
      <3>2. ASSUME \/ Cancel \/ LoadConfig \/ DecodeKey \/ MakeCipher
                   \/ OpenDatabase \/ ConnectBots \/ SubscribeNext
                   \/ StartServers \/ WaitForServers \/ CloseDatabase
                   \/ UNCHANGED vars
            PROVE  UNCHANGED alive
        BY <3>2 DEF Cancel, LoadConfig, DecodeKey, MakeCipher, OpenDatabase,
              ConnectBots, SubscribeNext, Subscribe, StartServers,
              WaitForServers, CloseDatabase, Goto, vars, busVars
      <3>3. ASSUME \/ \E s \in Servers : Connect(s) \/ ListenFails(s)
                   \/ StopCustomer \/ StopModerator \/ HandlersAreGone
                   \/ \E k \in Kinds : Arrive(k)
                   \/ \E u \in knocking : Offer(u)
                   \/ TakeUpdate
                   \/ \E d \in running, t \in Verdicts : PublishVerdict(d, t)
                   \/ Goroutines
            PROVE  UNCHANGED alive
        BY <3>3 DEF Connect, ListenFails, StopCustomer, StopModerator,
              HandlersAreGone, Move, Arrive, Offer, TakeUpdate, PublishVerdict,
              Publish, Goroutines, Launch, Unlock, Return, busVars
      <3>4. ~ReviewPanics /\ ~WorkerPanics
        BY <1>1 DEF ReviewPanics, WorkerPanics, Panic
      <3> QED BY <1>1, <2>2, <3>1, <3>2, <3>3, <3>4 DEF ExitMain
    <2>5. server["moderator"] \in {"returned", "failed"}
      BY <1>1, <2>3, <2>4 DEF Inv, Staged, Served, Servers, Done
    <2> QED BY <1>1, <2>3, <2>5 DEF Inv, Served, Servers
  <1>2. Inv /\ [Next]_vars =>
          [Owed # {} /\ ~alive' => cancelled \/ main' = "panicked"]_vars
    BY <1>1
  <1> QED BY <1>2, InvHolds, PTL DEF Spec, CutOffHasACause

(* In the process, too, every event is delivered at most once to each      *)
(* handler that was subscribed when it was published.                      *)
THEOREM ProcessKeepsPromise == Spec => ImplementsPubSub
  <1>1. Init => BusInit
    BY DEF Init
  <1>2. Inv /\ [Next]_vars => [BusNext]_busVars
    BY StepOfBus
  <1>3. Spec => BusSpec
    BY <1>1, <1>2, InvHolds, PTL DEF Spec, BusSpec
  <1> QED BY <1>3, BusKeepsPromise
=============================================================================
