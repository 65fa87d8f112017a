----------------------------- MODULE AsaExchange -----------------------------
(***************************************************************************)
(* Registration and verification end to end: the two bots over the table,  *)
(* the upload channel and the process they share, with crashes.            *)
(***************************************************************************)
EXTENDS CustomerBot, ModeratorBot

CONSTANT MaxRestarts        \* bound: how often the process is started again

ASSUME MaxRestartsAssumption == MaxRestarts \in Nat

VARIABLE restarts

vars == <<sharedVars, customerVars, moderatorVars, restarts>>

Init ==
    /\ SharedInit
    /\ CustomerInit
    /\ ModeratorInit
    /\ restarts = 0

-----------------------------------------------------------------------------
Kill ==
    /\ "kill" \in Faults
    /\ proc = "up"
    /\ proc' = "killed"
    /\ UNCHANGED <<db, posts, customerVars, moderatorVars, restarts>>

(* Everything in memory is lost: updates taken by workers, reviews and     *)
(* events of the bus.  The table and Telegram's messages remain.           *)
Restart ==
    /\ proc # "up"
    /\ restarts < MaxRestarts
    /\ restarts' = restarts + 1
    /\ proc' = "up"
    /\ posts' = [p \in DOMAIN posts |-> PostAfterRestart(posts[p])]
    /\ tasks' = {}
    /\ reviews' = {}
    /\ events' = {}
    /\ UNCHANGED <<db, offered, terms, cards, clicks, decisions, notified>>

Next ==
    \/ CustomerNext /\ UNCHANGED <<moderatorVars, restarts>>
    \/ ModeratorNext /\ UNCHANGED <<customerVars, restarts>>
    \/ Kill
    \/ Restart

Spec == Init /\ [][Next]_vars

-----------------------------------------------------------------------------
(* Fairness: a goroutine that can take its next step eventually takes it,  *)
(* and the poller keeps polling.  Users, moderators and the outside        *)
(* failures owe nothing, nor does whoever would start the process again.   *)

WorkerStep(w) ==
    /\ proc = "up"
    /\ \E t \in tasks : t.worker = w /\ Handle(t)
    /\ UNCHANGED <<moderatorVars, restarts>>

BusStep(A) == proc = "up" /\ A /\ UNCHANGED <<customerVars, restarts>>

QueueStep(p) ==
    p \in DOMAIN posts /\ BusStep(Deliver(p) \/ Forward(p) \/ ForwardFails(p))

ReviewStep(id) == BusStep(\E r \in reviews : r.id = id /\ Review(r))

NotifyStep(id) == BusStep(id \in events /\ Notify(id))

Fairness ==
    /\ \A w \in Workers : WF_vars(WorkerStep(w))
    /\ \A p \in 1..MaxPosts : WF_vars(QueueStep(p))
    /\ \A id \in Clicks : WF_vars(ReviewStep(id)) /\ WF_vars(NotifyStep(id))

FairSpec == Spec /\ Fairness

-----------------------------------------------------------------------------
TypeOK ==
    /\ SharedTypeOK
    /\ CustomerTypeOK
    /\ ModeratorTypeOK
    /\ restarts \in 0..MaxRestarts

(* The registration state machine survives every interleaving: each row of *)
(* the table holds exactly the answers of the steps before its state, even *)
(* when two workers, or a worker and a moderator, overwrite each other's   *)
(* rows.  (Update writes the whole copy; user_repository.go.)              *)
RowsInStep == \A u \in Users : db[u] # NoRow => InStep(db[u])

(* handleGovID never dereferences a NULL FirstName in its reply, because a *)
(* copy in state awaiting_gov_id always has one.                           *)
GovReplyNeverPanics == proc # "gov_id_reply"

(* A document reference in the table is a message of the upload channel    *)
(* that carries the photo of that same user.                               *)
DocRefIsOwnUpload ==
    \A u \in Users : (db[u] # NoRow /\ db[u].doc # 0) =>
        /\ db[u].doc \in DOMAIN posts
        /\ posts[db[u].doc].user = u

(* Whatever stale copies are written back, a status that a moderator gives *)
(* is one a moderator did give to this user: who is no moderator, and a    *)
(* race between workers, cannot produce it.                                *)
StatusOf(v) == IF v = "accept" THEN "level_1" ELSE "rejected"

StatusHasVerdict ==
    \A u \in Users : (db[u] # NoRow /\ db[u].status # "pending") =>
        \E d \in decisions : /\ d.user = u
                             /\ db[u].status = StatusOf(d.verdict)
                             /\ d.by \in Moderators

(* A user whose registration counts as submitted ("pending admin           *)
(* verification", state none) has pressed the policy's accept button.      *)
SubmittedAcceptedTerms ==
    \A u \in Users :
        (db[u] # NoRow /\ db[u].state = "none" /\ db[u].status # "level_1")
            => u \in terms

(* A moderator decides about a user only after that user has uploaded a    *)
(* photo: a card is never about somebody else.                             *)
DecisionNeedsUpload ==
    \A d \in decisions : \E p \in DOMAIN posts : posts[p].user = d.user

(* The bus carries, and the user receives, the news of a verdict only      *)
(* after the verdict is in the table.                                      *)
NewsIsOfDecision ==
    \A id \in events \cup notified : \E d \in decisions : d.id = id

(* A second /start that still believes the user to be new never touches    *)
(* the row the first one made, whatever the user has answered meanwhile.   *)
LateStartStep ==
    \A t \in tasks : (t.pc = "start" /\ t.row = NoRow /\ t \notin tasks') =>
        \A u \in Users : db[u] # NoRow => db'[u] = db[u]

LateStartKeepsProgress == [][LateStartStep]_vars

-----------------------------------------------------------------------------
(* If the process eventually stays up, every worker comes back for its     *)
(* next update, and every uploaded photo is forwarded or its one attempt   *)
(* has failed.                                                             *)
StaysUp == <>[](proc = "up")

Busy(w) == \E t \in tasks : t.worker = w

WorkersComeBack == StaysUp => \A w \in Workers : Busy(w) ~> ~Busy(w)

Pending(p) == p \in DOMAIN posts /\ posts[p].st \in {"queued", "forwarding"}

UploadsLeaveTheQueue ==
    StaysUp => \A p \in 1..MaxPosts : Pending(p) ~> ~Pending(p)

-----------------------------------------------------------------------------
(* What the repository says of the program and the runs find not to hold.  *)

(* policy_handler.go:107: "To use this bot, you must accept the terms".    *)
ApprovedHasAcceptedTerms ==
    \A u \in Users : (db[u] # NoRow /\ db[u].status = "level_1") => u \in terms

(* Readme.md:17: the user is "automatically notified of their new status": *)
(* every verdict in the table reaches its user, even if the process is     *)
(* started again when it ends.                                             *)
EveryDecisionIsTold ==
    StaysUp => \A id \in Clicks :
        (\E d \in decisions : d.id = id) ~> id \in notified

(* Readme.md:17 again: the status the user is told of is the one they have.*)
ToldApprovedIsApproved ==
    \A u \in Users :
        (/\ \E d \in decisions :
                d.user = u /\ d.verdict = "accept" /\ d.id \in notified
         /\ \A d \in decisions : d.user = u => d.verdict = "accept")
            => db[u].status = "level_1"
=============================================================================
