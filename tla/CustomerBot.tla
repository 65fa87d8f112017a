----------------------------- MODULE CustomerBot -----------------------------
(***************************************************************************)
(* The customer bot: CustomerRouter.HandleUpdate, run by the workers of    *)
(* the polling server's pool, and the handlers it routes to.               *)
(*                                                                         *)
(* A task is an update a worker has taken.  The worker reads the user's    *)
(* row, hands the copy to a handler, and the handler writes it back; other *)
(* workers and the moderator bot run between the read and the write.  The  *)
(* write and the reply that follows it are one step where nothing else can *)
(* tell them apart.  `terms` is a history variable: the users who pressed  *)
(* the policy's accept button.                                             *)
(***************************************************************************)
EXTENDS SharedState

CONSTANTS
    Workers,            \* the worker goroutines of the pool
    Inputs,             \* what users send in this run
    MaxPosts            \* bound: photos that reach the upload channel

Taps == {"policy_accept", "policy_decline"}

ASSUME InputsAssumption == Inputs \subseteq Messages \cup Taps \cup {"start"}
ASSUME BoundsAssumption == MaxPosts \in Nat

VARIABLES
    tasks,      \* updates being handled, at most one for each worker
    offered,    \* users who have a policy message, with its two buttons
    terms       \* history: users who accepted the policy at least once

customerVars == <<tasks, offered, terms>>

Tasks == [worker: Workers, user: Users, input: Inputs,
          pc: {"route", "start", "register", "save_doc", "policy"},
          row: Rows \cup {NoRow}]

CustomerTypeOK ==
    /\ tasks \subseteq Tasks
    /\ offered \subseteq Users
    /\ terms \subseteq Users

CustomerInit ==
    /\ tasks = {}
    /\ offered = {}
    /\ terms = {}

-----------------------------------------------------------------------------
Finish(t) == tasks' = tasks \ {t}
Continue(t, next) == tasks' = (tasks \ {t}) \cup {next}

\* A handler that changes nothing but its own task.
Quiet == UNCHANGED <<sharedVars, offered, terms>>

\* The policy message may fail to arrive.
SendPolicy(u) ==
    \/ offered' = offered \cup {u}
    \/ "send" \in Faults /\ UNCHANGED offered

-----------------------------------------------------------------------------
(* A worker takes an update: a message, or a press of a policy button.  A  *)
(* press that Telegram holds is taken even after the message was edited,   *)
(* and again after a restart that came before its acknowledgement, so the  *)
(* model lets a button be pressed at any time once it was sent.  The bound *)
(* on photos counts those in flight.                                       *)
PhotosInFlight == {t \in tasks : t.input = "photo"}

Receive(w, u, x) ==
    /\ \A t \in tasks : t.worker # w
    /\ x \in Taps => u \in offered
    /\ x = "photo" => Len(posts) + Cardinality(PhotosInFlight) < MaxPosts
    /\ tasks' = tasks \cup {[worker |-> w, user |-> u, input |-> x,
                             pc |-> "route", row |-> NoRow]}
    /\ Quiet

(* HandleUpdate: read the user, then commands, unknown users, callbacks    *)
(* and messages, in this order.  The start handler reads the user again    *)
(* and ignores the router's copy, so its read is the one that counts.      *)
Route(t) ==
    LET row == db[t.user] IN
    /\ t.pc = "route"
    /\ \/ /\ t.input = "start"
          /\ Continue(t, [t EXCEPT !.pc = "start", !.row = row])
       \/ /\ t.input # "start"
          /\ row = NoRow
          /\ Finish(t)
       \/ /\ t.input \in Taps
          /\ row # NoRow
          /\ Continue(t, [t EXCEPT !.pc = "policy", !.row = row])
       \/ /\ t.input \in Messages
          /\ row # NoRow
          /\ Continue(t, [t EXCEPT !.pc = "register", !.row = row])
    /\ Quiet

(* GetByTelegramID, Create or Update failed, or the queue's Publish did:   *)
(* the handler sends an error message and gives up.  A call that fails may *)
(* have taken effect all the same; the actions below say so where it makes *)
(* a difference.                                                           *)
GiveUp(t) ==
    /\ \/ "db" \in Faults
       \/ "send" \in Faults /\ t.input = "photo" /\ t.pc = "register"
    /\ Finish(t)
    /\ Quiet

-----------------------------------------------------------------------------
(* /start.                                                                 *)
Starts(t) == t.pc = "start"

StartNewUser(t) ==
    /\ Starts(t)
    /\ t.row = NoRow
    /\ Create(t.user, NewUser)
    /\ Finish(t)
    /\ UNCHANGED <<proc, posts, offered, terms>>

StartPending(t) ==
    /\ Starts(t)
    /\ t.row # NoRow
    /\ t.row.status = "pending"
    /\ Finish(t)
    /\ Quiet

StartRejected(t) ==
    /\ Starts(t)
    /\ t.row # NoRow
    /\ t.row.status = "rejected"
    /\ Update(t.user, RestartRegistration(t.row))
    /\ Finish(t)
    /\ UNCHANGED <<proc, posts, offered, terms>>

\* The welcome dereferences FirstName, which may be NULL.
StartVerified(t) ==
    /\ Starts(t)
    /\ t.row # NoRow
    /\ t.row.status = "level_1"
    /\ proc' = IF "first_name" \in t.row.filled THEN proc ELSE "start_welcome"
    /\ Finish(t)
    /\ UNCHANGED <<db, posts, offered, terms>>

-----------------------------------------------------------------------------
(* The registration steps.  Each looks at the state of the copy.           *)
Registers(t, state, inputs) ==
    /\ t.pc = "register"
    /\ t.row.state = state
    /\ t.input \in inputs

Save(t, row) ==
    /\ Update(t.user, row)
    /\ Finish(t)
    /\ UNCHANGED <<posts, offered, terms>>

HandleFirstName(t) ==
    /\ Registers(t, "awaiting_first_name", Names)
    /\ Save(t, TakeFirstName(t.row))
    /\ UNCHANGED proc

HandleLastName(t) ==
    /\ Registers(t, "awaiting_last_name", Names)
    /\ Save(t, TakeLastName(t.row))
    /\ UNCHANGED proc

HandlePhoneNumber(t) ==
    /\ Registers(t, "awaiting_phone_number", {"own_contact"})
    /\ Save(t, TakePhoneNumber(t.row))
    /\ UNCHANGED proc

\* The reply dereferences FirstName.
HandleGovID(t) ==
    /\ Registers(t, "awaiting_gov_id", GovIDs)
    /\ Save(t, TakeGovID(t.row))
    /\ proc' = IF "first_name" \in t.row.filled THEN proc ELSE "gov_id_reply"

HandleLocation(t) ==
    /\ Registers(t, "awaiting_location", {"country"})
    /\ Save(t, TakeLocation(t.row))
    /\ UNCHANGED proc

(* handleIdentityDoc publishes to the upload channel first, and writes the *)
(* row with the reference it got back in a second step.                    *)
PublishDoc(t) ==
    /\ Registers(t, "awaiting_identity_doc", {"photo"})
    /\ PublishUpload(t.user)
    /\ \/ Continue(t, [t EXCEPT !.pc = "save_doc",
                                !.row = TakeIdentityDoc(@, NextRef)])
       \/ "send" \in Faults /\ Finish(t)
    /\ UNCHANGED <<proc, db, offered, terms>>

\* Mutant: the worker waits until its photo has been forwarded.
SaveDocWhenForwarded(t) ==
    /\ t.pc = "save_doc"
    /\ posts[t.row.doc].st = "forwarded"
    /\ Update(t.user, t.row)
    /\ SendPolicy(t.user)
    /\ Finish(t)
    /\ UNCHANGED <<proc, posts, terms>>

SaveDoc(t) ==
    /\ t.pc = "save_doc"
    /\ Update(t.user, t.row)
    /\ SendPolicy(t.user)
    /\ Finish(t)
    /\ UNCHANGED <<proc, posts, terms>>

\* Any message while the policy is open sends the policy again.
HandlePolicyApproval(t) ==
    /\ Registers(t, "awaiting_policy_approval", Messages)
    /\ SendPolicy(t.user)
    /\ Finish(t)
    /\ UNCHANGED <<sharedVars, terms>>

\* An answer the step refuses is answered with a prompt; in state "none"
\* nothing listens.
Accepted == [awaiting_first_name |-> Names, awaiting_last_name |-> Names,
             awaiting_phone_number |-> {"own_contact"},
             awaiting_gov_id |-> GovIDs, awaiting_location |-> {"country"},
             awaiting_identity_doc |-> {"photo"},
             awaiting_policy_approval |-> Messages, none |-> {}]

AskAgain(t) ==
    /\ t.pc = "register"
    /\ t.input \notin Accepted[t.row.state]
    /\ Finish(t)
    /\ Quiet

-----------------------------------------------------------------------------
(* The policy buttons.  Neither looks at the state or status of the row.   *)
\* The confirmation dereferences FirstName after the write.
AcceptPolicy(t) ==
    /\ t.pc = "policy"
    /\ t.input = "policy_accept"
    /\ Update(t.user, CompleteRegistration(t.row))
    /\ terms' = terms \cup {t.user}
    /\ \/ "first_name" \in t.row.filled /\ UNCHANGED proc
       \/ "first_name" \notin t.row.filled /\ proc' = "policy_accept"
       \/ "db" \in Faults /\ UNCHANGED proc
    /\ Finish(t)
    /\ UNCHANGED <<posts, offered>>

RefusePolicy(t) ==
    /\ t.pc = "policy"
    /\ t.input = "policy_decline"
    /\ Save(t, DeclinePolicy(t.row))
    /\ UNCHANGED proc

-----------------------------------------------------------------------------
Handle(t) ==
    \/ Route(t) \/ StartNewUser(t) \/ StartPending(t) \/ StartRejected(t)
    \/ StartVerified(t) \/ HandleFirstName(t) \/ HandleLastName(t)
    \/ HandlePhoneNumber(t) \/ HandleGovID(t) \/ HandleLocation(t)
    \/ PublishDoc(t) \/ SaveDoc(t) \/ HandlePolicyApproval(t) \/ AskAgain(t)
    \/ AcceptPolicy(t) \/ RefusePolicy(t)

CustomerNext ==
    /\ proc = "up"
    /\ \/ \E w \in Workers, u \in Users, x \in Inputs : Receive(w, u, x)
       \/ \E t \in tasks : Handle(t) \/ GiveUp(t)
=============================================================================
