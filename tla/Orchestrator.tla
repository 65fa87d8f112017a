----------------------------- MODULE Orchestrator -----------------------------
(***************************************************************************)
(* The life of the process: main loads the configuration, makes the        *)
(* cipher, opens the database and calls Orchestrator.Start, which connects *)
(* the two bots, subscribes the handlers, starts the two servers and waits *)
(* for both; then main closes the database and returns, whatever the       *)
(* goroutines of the bus are doing.  Nothing recovers a panic: one in a    *)
(* worker or in a goroutine of the bus ends the process where it is.  The  *)
(* moderator server is modelled with its update loop; of the customer      *)
(* server only start, end and panic (see WorkerPool for what is between).  *)
(***************************************************************************)
EXTENDS EventBus, FiniteSets

CONSTANTS
    Configs,        \* the contents of config.yaml that a run looks at
    Failures,       \* the outside failures a run allows
    InboxCap,       \* buffer of the library's channel (100 in the library)
    MaxUpdates      \* bound: updates that Telegram has for the moderator bot

FailureKinds == {"database", "api", "webhook", "listen"}

ASSUME FailuresAssumption == Failures \subseteq FailureKinds
ASSUME MaxUpdatesAssumption == MaxUpdates \in Nat
ASSUME InboxCapAssumption == InboxCap \in Nat \ {0}
ASSUME DataAssumption == Data = 1..MaxUpdates

Servers == {"customer", "moderator"}

VARIABLES
    cfg,            \* the contents of config.yaml
    cancelled,      \* ctx is done
    main,           \* where main is, or why it ended
    db,             \* the connection pool: "none", "open", "closed"
    wired,          \* how many subscriptions Start has made
    server,         \* where each server is
    deaf,           \* webhook servers whose HTTP listener has failed
    kinds,          \* the kinds of the moderator bot's updates, in order
    knocking,       \* updates the library holds, blocked on its channel
    inbox,          \* the library's channel
    spoke,          \* deliveries whose handler has published a verdict
    nameless        \* those among them whose card needs a name that is nil

mainVars == <<cfg, main, db, wired>>
sourceVars == <<kinds, knocking, inbox>>
serverVars == <<server, deaf, sourceVars>>
workVars == <<spoke, nameless>>
vars == <<cancelled, mainVars, serverVars, workVars, busVars>>

-----------------------------------------------------------------------------
(* Configuration.  `complete` says that the database URL, the tokens, the  *)
(* channel ids and the countries are there.                                *)
Modes == {"polling", "webhook", "other"}
ConfigTypes == [complete: BOOLEAN, keyLen: Nat, keyIsHex: BOOLEAN,
                mode: [Servers -> Modes]]

ASSUME ConfigsAssumption == Configs \subseteq ConfigTypes

\* Mutant: the length of the key is not looked at.
AcceptsAnyKey(c) ==
    /\ c.complete
    /\ c.keyLen # 0
    /\ \A s \in Servers : c.mode[s] \in {"polling", "webhook"}

Accepts(c) ==
    /\ c.complete
    /\ c.keyLen = 64
    /\ \A s \in Servers : c.mode[s] \in {"polling", "webhook"}

Decodes(c) == c.keyIsHex /\ c.keyLen % 2 = 0
KeySizes == {16, 32}

-----------------------------------------------------------------------------
(* What Start subscribes, in its order, and the topics of the bus.         *)
Verdicts == {"user:approved", "user:rejected"}
Kinds == {"message", "callback_query", "channel_post", "other"}

\* Mutant: the queue is never subscribed.
WiringWithoutQueue ==
    << [topic |-> "mod:message", handler |-> "router"],
       [topic |-> "mod:callback_query", handler |-> "router"],
       [topic |-> "user:approved", handler |-> "notification"],
       [topic |-> "user:rejected", handler |-> "notification"] >>

Wiring ==
    << [topic |-> "mod:message", handler |-> "router"],
       [topic |-> "mod:callback_query", handler |-> "router"],
       [topic |-> "user:approved", handler |-> "notification"],
       [topic |-> "user:rejected", handler |-> "notification"],
       [topic |-> "mod:channel_post", handler |-> "queue"] >>

\* Mutant: a post is taken for a message.
TopicsOfMessages(kind) ==
    CASE kind \in {"channel_post", "message"} -> {"mod:message"}
      [] kind = "callback_query" -> {"mod:callback_query"}
      [] OTHER -> {}

\* The topic of an update of this kind, if it has one.
TopicsOf(kind) ==
    CASE kind = "channel_post" -> {"mod:channel_post"}
      [] kind = "message" -> {"mod:message"}
      [] kind = "callback_query" -> {"mod:callback_query"}
      [] OTHER -> {}

ASSUME TopicsAssumption ==
    Verdicts \cup UNION {TopicsOf(k) : k \in Kinds} \subseteq Topics
ASSUME HandlersAssumption ==
    {"router", "notification", "queue"} \subseteq Handlers

\* When polling, the bot asks for three kinds only.
KindsFor(mode) == IF mode = "polling" THEN Kinds \ {"other"} ELSE Kinds

Starting == {"load", "key", "cipher", "database", "bots", "wiring"}
Fatal == {"bad_config", "bad_key", "bad_cipher", "no_database"}
Over == Fatal \cup {"exited", "panicked"}
ServerPlaces == {"off", "connecting", "listening", "draining", "returned",
                 "failed"}
Done == {"returned", "failed"}

TypeOK ==
    /\ BusTypeOK
    /\ cfg \in ConfigTypes
    /\ cancelled \in BOOLEAN
    /\ main \in Starting \cup {"waiting", "closing", "exiting"} \cup Over
    /\ db \in {"none", "open", "closed"}
    /\ wired \in 0..Len(Wiring)
    /\ server \in [Servers -> ServerPlaces]
    /\ deaf \subseteq Servers
    /\ kinds \in Seq(Kinds) /\ Len(kinds) <= MaxUpdates
    /\ knocking \subseteq 1..MaxUpdates
    /\ inbox \in Seq(1..MaxUpdates) /\ Len(inbox) <= InboxCap
    /\ spoke \subseteq Deliveries
    /\ nameless \subseteq spoke

Init ==
    /\ BusInit
    /\ cfg \in Configs
    /\ cancelled = FALSE
    /\ main = "load" /\ db = "none" /\ wired = 0
    /\ server = [s \in Servers |-> "off"]
    /\ deaf = {}
    /\ kinds = <<>> /\ knocking = {} /\ inbox = <<>>
    /\ spoke = {} /\ nameless = {}

-----------------------------------------------------------------------------
(* A signal.  Before main asks to be notified of it, it ends the process,  *)
(* of which there is nothing to say; a second signal changes nothing.      *)
Cancel ==
    /\ ~cancelled /\ main \notin Over \cup {"load"}
    /\ cancelled' = TRUE
    /\ UNCHANGED <<mainVars, serverVars, workVars, busVars>>

(* main, up to Orchestrator.Start.                                         *)
Goto(place) == main' = place /\ UNCHANGED <<cfg, cancelled, serverVars, workVars>>

LoadConfig ==
    /\ main = "load"
    /\ Goto(IF Accepts(cfg) THEN "key" ELSE "bad_config")
    /\ UNCHANGED <<db, wired, busVars>>

DecodeKey ==
    /\ main = "key"
    /\ Goto(IF Decodes(cfg) THEN "cipher" ELSE "bad_key")
    /\ UNCHANGED <<db, wired, busVars>>

MakeCipher ==
    /\ main = "cipher"
    /\ Goto(IF cfg.keyLen \div 2 \in KeySizes THEN "database" ELSE "bad_cipher")
    /\ UNCHANGED <<db, wired, busVars>>

\* The ping is under ctx, so it fails after a signal.
OpenDatabase ==
    /\ main = "database"
    /\ \/ ~cancelled /\ db' = "open" /\ Goto("bots")
       \/ /\ cancelled \/ "database" \in Failures
          /\ Goto("no_database") /\ UNCHANGED db
    /\ UNCHANGED <<wired, busVars>>

-----------------------------------------------------------------------------
(* Orchestrator.Start.                                                     *)
\* An error of either bot returns at once: no server has been started.
ConnectBots ==
    /\ main = "bots"
    /\ \/ Goto("wiring")
       \/ "api" \in Failures /\ Goto("closing")
    /\ UNCHANGED <<db, wired, busVars>>

SubscribeNext ==
    /\ main = "wiring"
    /\ wired < Len(Wiring)
    /\ Subscribe(Wiring[wired + 1].topic, Wiring[wired + 1].handler)
    /\ wired' = wired + 1
    /\ UNCHANGED <<cancelled, cfg, main, db, serverVars, workVars>>

StartServers ==
    /\ main = "wiring"
    /\ wired = Len(Wiring)
    /\ main' = "waiting"
    /\ server' = [s \in Servers |-> "connecting"]
    /\ UNCHANGED <<cancelled, cfg, db, wired, deaf, sourceVars, workVars, busVars>>

\* Mutant: the counter is 1, so the first server to end is enough.
WaitForOneServer ==
    /\ main = "waiting"
    /\ \E s \in Servers : server[s] \in Done
    /\ Goto("closing")
    /\ UNCHANGED <<db, wired, busVars>>

\* Mutant: a server that fails skips wg.Done.
WaitForReturned ==
    /\ main = "waiting"
    /\ \A s \in Servers : server[s] = "returned"
    /\ Goto("closing")
    /\ UNCHANGED <<db, wired, busVars>>

WaitForServers ==
    /\ main = "waiting"
    /\ \A s \in Servers : server[s] \in Done
    /\ Goto("closing")
    /\ UNCHANGED <<db, wired, busVars>>

CloseDatabase ==
    /\ main = "closing"
    /\ db' = "closed"
    /\ Goto("exiting")
    /\ UNCHANGED <<wired, busVars>>

ExitMain ==
    /\ main = "exiting"
    /\ Exit
    /\ Goto("exited")
    /\ UNCHANGED <<db, wired>>

-----------------------------------------------------------------------------
(* The servers.                                                            *)
Move(s, place) ==
    /\ server' = [server EXCEPT ![s] = place]
    /\ UNCHANGED <<cancelled, mainVars, deaf, sourceVars, workVars, busVars>>

\* Failing to delete a webhook is passed over, failing to set one is not.
Connect(s) ==
    /\ server[s] = "connecting"
    /\ \/ cfg.mode[s] \in {"polling", "webhook"} /\ Move(s, "listening")
       \/ cfg.mode[s] = "webhook" /\ "webhook" \in Failures /\ Move(s, "failed")
       \/ cfg.mode[s] \notin {"polling", "webhook"} /\ Move(s, "failed")

\* ListenAndServe returns an error, which is logged; the loop goes on.
ListenFails(s) ==
    /\ server[s] = "listening" /\ s \notin deaf
    /\ cfg.mode[s] = "webhook" /\ "listen" \in Failures
    /\ deaf' = deaf \cup {s}
    /\ UNCHANGED <<cancelled, mainVars, server, sourceVars, workVars, busVars>>

\* After the signal, or later if the customer server hangs.
StopCustomer ==
    /\ server["customer"] = "listening"
    /\ cancelled
    /\ Move("customer", "returned")

-----------------------------------------------------------------------------
(* The moderator server's source of updates, as in WorkerPool.             *)
Arrive(kind) ==
    /\ server["moderator"] = "listening" /\ "moderator" \notin deaf
    /\ Len(kinds) < MaxUpdates
    /\ kind \in KindsFor(cfg.mode["moderator"])
    /\ cfg.mode["moderator"] = "polling" => knocking = {}
    /\ kinds' = Append(kinds, kind)
    /\ knocking' = knocking \cup {Len(kinds')}
    /\ UNCHANGED <<cancelled, mainVars, server, deaf, inbox, workVars, busVars>>

Offer(u) ==
    /\ u \in knocking
    /\ Len(inbox) < InboxCap
    /\ inbox' = Append(inbox, u)
    /\ knocking' = knocking \ {u}
    /\ UNCHANGED <<cancelled, mainVars, server, deaf, kinds, workVars, busVars>>

\* The loop is in its select: it is not publishing.
AtSelect ==
    /\ server["moderator"] = "listening"
    /\ \A p \in publishing : p.by # Loop

TakeUpdate ==
    /\ AtSelect
    /\ inbox # <<>>
    /\ inbox' = Tail(inbox)
    /\ LET topics == TopicsOf(kinds[Head(inbox)]) IN
       \/ \E t \in topics : Publish(Loop, t, Head(inbox))
       \/ topics = {} /\ UNCHANGED busVars
    /\ UNCHANGED <<cancelled, mainVars, server, deaf, kinds, knocking, workVars>>

\* Mutant: the server returns when its HTTP listener fails.
StopWhenDeaf ==
    /\ AtSelect
    /\ cancelled \/ "moderator" \in deaf
    /\ Move("moderator",
            IF cfg.mode["moderator"] = "webhook" THEN "draining" ELSE "returned")

\* Shutdown waits for the HTTP handlers; polling stops at once.
StopModerator ==
    /\ AtSelect
    /\ cancelled
    /\ Move("moderator",
            IF cfg.mode["moderator"] = "webhook" THEN "draining" ELSE "returned")

HandlersAreGone ==
    /\ server["moderator"] = "draining"
    /\ knocking = {}
    /\ Move("moderator", "returned")

-----------------------------------------------------------------------------
(* Goroutines of the bus.                                                  *)
\* Mutant: the verdict carries the number of the event, not its update.
PublishVerdictOfEvent(d, t) ==
    /\ d \in running \ spoke
    /\ events[d.event].topic = "mod:callback_query"
    /\ Publish(d, t, d.event)
    /\ spoke' = spoke \cup {d}
    /\ \/ nameless' = nameless \cup {d}
       \/ t = "user:approved" /\ UNCHANGED nameless
    /\ UNCHANGED <<cancelled, mainVars, serverVars>>

\* A review publishes its verdict after the write, so the pool may be closed
\* by then.  A rejection has set the names it needs for the card to nil; an
\* approval finds them nil if the user has not given them.
PublishVerdict(d, t) ==
    /\ d \in running \ spoke
    /\ events[d.event].topic = "mod:callback_query"
    /\ Publish(d, t, events[d.event].data)
    /\ spoke' = spoke \cup {d}
    /\ \/ nameless' = nameless \cup {d}
       \/ t = "user:approved" /\ UNCHANGED nameless
    /\ UNCHANGED <<cancelled, mainVars, serverVars>>

Goroutines ==
    /\ \/ \E p \in publishing : Launch(p) \/ Unlock(p)
       \/ \E d \in running \ nameless : Return(d)
    /\ UNCHANGED <<cancelled, mainVars, serverVars, workVars>>

-----------------------------------------------------------------------------
(* Panics: every goroutine ends with the process, and main's deferred      *)
(* Close of the database does not run.                                     *)
Panic ==
    /\ Exit
    /\ main' = "panicked"
    /\ UNCHANGED <<cancelled, cfg, db, wired, serverVars, workVars>>

\* A review writes the names of the user on the card after the verdict.
ReviewPanics ==
    /\ \E d \in running \cap nameless : \A p \in publishing : p.by # d
    /\ Panic

\* A worker writes a name of a user who has not given it.
WorkerPanics ==
    /\ server["customer"] = "listening"
    /\ Panic

-----------------------------------------------------------------------------
MainStep == \/ LoadConfig \/ DecodeKey \/ MakeCipher \/ OpenDatabase
            \/ ConnectBots \/ SubscribeNext \/ StartServers
            \/ WaitForServers \/ CloseDatabase \/ ExitMain

\* Steps that end with the process.
LiveStep ==
    \/ \E s \in Servers : Connect(s) \/ ListenFails(s)
    \/ StopCustomer \/ StopModerator \/ HandlersAreGone
    \/ \E k \in Kinds : Arrive(k)
    \/ \E u \in knocking : Offer(u)
    \/ TakeUpdate
    \/ \E d \in running, t \in Verdicts : PublishVerdict(d, t)
    \/ Goroutines
    \/ ReviewPanics \/ WorkerPanics

Next == Cancel \/ MainStep \/ (alive /\ LiveStep)

Spec == Init /\ [][Next]_vars

(* Goroutines that can run do run, and handlers return.  Of the customer   *)
(* server nothing is asked after the signal (see WorkerPool), nor of the   *)
(* ones who send updates, verdicts and signals.                            *)
Fairness ==
    /\ WF_vars(MainStep)
    /\ \A s \in Servers : WF_vars(alive /\ Connect(s))
    /\ \A u \in 1..MaxUpdates : WF_vars(alive /\ Offer(u))
    /\ WF_vars(alive /\ TakeUpdate)
    /\ WF_vars(alive /\ (StopModerator \/ HandlersAreGone))
    /\ WF_vars(alive /\ Goroutines)
    /\ WF_vars(alive /\ ReviewPanics)

FairSpec == Spec /\ Fairness

-----------------------------------------------------------------------------
(* Of a configuration that config.Load accepts, the cipher takes the size  *)
(* of the key, and only a webhook keeps a server from starting.  Two things *)
(* that Load does not look at fail later all the same: a key that is not   *)
(* hexadecimal, and a postgres.url that cannot be parsed (one of the ways  *)
(* to fail at opening the database).                                       *)
AcceptedConfigWorks ==
    /\ main # "bad_cipher"
    /\ \A s \in Servers : server[s] = "failed" => cfg.mode[s] = "webhook"

(* No event goes to a topic without handlers: everything is subscribed     *)
(* before the first update comes, and every topic published has a handler. *)
EveryEventHasAudience == \A e \in DOMAIN events : events[e].audience > 0

(* The pool is closed only when no server needs it any more, whichever     *)
(* server failed or stopped first.                                         *)
ServesUntilBothStop ==
    db = "closed" => \A s \in Servers : server[s] \in Done \cup {"off"}

(* The process ends in the middle of the work of the bus only after a      *)
(* signal or by a panic: a server that fails, or goes deaf, never ends it. *)
CutOffHasACause ==
    [][Owed # {} /\ ~alive' => cancelled \/ main' = "panicked"]_vars

(* After a signal the process ends, if the customer server does not hang   *)
(* and no HTTP handler of the moderator server is stuck at a full channel. *)
HandlerStuck ==
    /\ server["moderator"] = "draining"
    /\ knocking # {} /\ Len(inbox) = InboxCap

EndsOnSignal ==
    <>cancelled => \/ <>(main \in Over)
                   \/ <>[](server["customer"] = "listening" \/ HandlerStuck)

(* A post of the upload channel that reaches the program is handled by the *)
(* queue, unless a signal or a panic comes first.                          *)
PostsReachQueue ==
    \A u \in 1..MaxUpdates :
        u \in DOMAIN kinds /\ kinds[u] = "channel_post"
        ~> \/ cancelled \/ main = "panicked"
           \/ \E d \in finished : HandlerOf(d) = "queue" /\ events[d.event].data = u
=============================================================================
