----------------------------- MODULE ModeratorBot -----------------------------
(***************************************************************************)
(* The moderator bot: its poller, which publishes every update to the      *)
(* event bus; the queue's subscriber, which forwards an uploaded photo to  *)
(* the admin review channel as a card with two buttons; the router and the *)
(* approval handler behind those buttons; and the notification handler,    *)
(* which the customer client uses to tell the user.                        *)
(*                                                                         *)
(* Each subscriber runs in a goroutine of its own, so deliveries, reviews  *)
(* and notifications interleave freely.  `decisions` is a history of the   *)
(* verdicts that were written to the table; a verdict is known by the      *)
(* number of the click that caused it.                                     *)
(***************************************************************************)
EXTENDS SharedState

CONSTANTS
    Admins,         \* who can press a button in the admin review channel
    Moderators,     \* those whose row says is_moderator; set outside the program
    Verdicts,       \* the buttons pressed in this run
    MaxClicks       \* bound: buttons pressed

ASSUME ModeratorsAssumption == Moderators \subseteq Admins
ASSUME VerdictsAssumption == Verdicts \subseteq {"accept", "reject"}
ASSUME MaxClicksAssumption == MaxClicks \in Nat

VARIABLES
    cards,          \* users who have a card in the review channel
    clicks,         \* how many buttons were pressed
    reviews,        \* button presses being handled
    decisions,      \* history: verdicts written to the table
    events,         \* user:approved and user:rejected events not yet handled
    notified        \* verdicts whose user has received the notification

moderatorVars == <<cards, clicks, reviews, decisions, events, notified>>

Clicks == 1..MaxClicks
Reviews == [id: Clicks, admin: Admins, user: Users,
            verdict: {"accept", "reject"},
            pc: {"check", "decide", "publish", "edit"},
            row: Rows \cup {NoRow}]
Decisions == [id: Clicks, user: Users, verdict: {"accept", "reject"},
              by: Admins]

ModeratorTypeOK ==
    /\ cards \subseteq Users
    /\ clicks \in 0..MaxClicks
    /\ reviews \subseteq Reviews
    /\ decisions \subseteq Decisions
    /\ events \subseteq Clicks
    /\ notified \subseteq Clicks

ModeratorInit ==
    /\ cards = {}
    /\ clicks = 0
    /\ reviews = {}
    /\ decisions = {}
    /\ events = {}
    /\ notified = {}

-----------------------------------------------------------------------------
\* Mutant: only a post whose reference has been saved is taken.
DeliverWhenSaved(p) ==
    /\ posts[p].st = "queued"
    /\ db[posts[p].user].doc = p
    /\ posts' = [posts EXCEPT ![p].st = "forwarding"]
    /\ UNCHANGED <<proc, db, moderatorVars>>

(* The queue.  The poller takes a post and publishes it to the bus; a      *)
(* later call of the poller acknowledges it.                               *)
Deliver(p) ==
    /\ posts[p].st = "queued"
    /\ posts' = [posts EXCEPT ![p].st = "forwarding"]
    /\ UNCHANGED <<proc, db, moderatorVars>>

Confirm(p) ==
    /\ posts[p].st # "queued"
    /\ ~posts[p].confirmed
    /\ posts' = [posts EXCEPT ![p].confirmed = TRUE]
    /\ UNCHANGED <<proc, db, moderatorVars>>

\* Mutant: the card is about whichever user the caption seems to name.
ForwardToAnother(p) ==
    /\ posts[p].st = "forwarding"
    /\ posts' = [posts EXCEPT ![p].st = "forwarded"]
    /\ \E u \in Users : cards' = cards \cup {u}
    /\ UNCHANGED <<proc, db, clicks, reviews, decisions, events, notified>>

(* HandleEvent reads the user named in the caption and sends the card.  If *)
(* either fails the bus logs the error and the event is gone.              *)
Forward(p) ==
    /\ posts[p].st = "forwarding"
    /\ posts' = [posts EXCEPT ![p].st = "forwarded"]
    /\ cards' = cards \cup {posts[p].user}
    /\ UNCHANGED <<proc, db, clicks, reviews, decisions, events, notified>>

ForwardFails(p) ==
    /\ Faults \cap {"db", "send"} # {}
    /\ posts[p].st = "forwarding"
    /\ posts' = [posts EXCEPT ![p].st = "lost"]
    /\ UNCHANGED <<proc, db, moderatorVars>>

-----------------------------------------------------------------------------
(* The review of a card.                                                   *)
EndReview(r) == reviews' = reviews \ {r}
ContinueReview(r, next) == reviews' = (reviews \ {r}) \cup {next}

\* A press that Telegram holds is delivered even after the card was edited,
\* and again after a restart that came before its acknowledgement, so the
\* model lets a button be pressed at any time; each delivery has a number.
Click(a, u, v) ==
    /\ clicks < MaxClicks
    /\ u \in cards
    /\ clicks' = clicks + 1
    /\ reviews' = reviews \cup
          {[id |-> clicks + 1, admin |-> a, user |-> u, verdict |-> v,
            pc |-> "check", row |-> NoRow]}
    /\ UNCHANGED <<sharedVars, cards, decisions, events, notified>>

\* Mutant: whoever presses the button is taken for a moderator.
CheckModeratorForAnyone(r) ==
    /\ r.pc = "check"
    /\ ContinueReview(r, [r EXCEPT !.pc = "decide", !.row = db[r.user]])
    /\ UNCHANGED <<sharedVars, cards, clicks, decisions, events, notified>>

\* handleCallbackQuery turns away who is not a moderator; the handler then
\* reads the user under review.  Rows are never deleted, so there is one.
CheckModerator(r) ==
    /\ r.pc = "check"
    /\ \/ /\ r.admin \in Moderators
          /\ ContinueReview(r, [r EXCEPT !.pc = "decide", !.row = db[r.user]])
       \/ /\ r.admin \notin Moderators
          /\ EndReview(r)
    /\ UNCHANGED <<sharedVars, cards, clicks, decisions, events, notified>>

\* A failing read or write ends the review, with at most an error text on the
\* card.
ReviewFails(r) ==
    /\ "db" \in Faults
    /\ r.pc \in {"check", "decide"}
    /\ EndReview(r)
    /\ UNCHANGED <<sharedVars, cards, clicks, decisions, events, notified>>

Verdict(row, v) == IF v = "accept" THEN Approve(row) ELSE Reject(row)

(* The verdict is written whatever the state and status of the row are.    *)
(* If the write takes effect but its answer is lost, the review ends here. *)
Decide(r) ==
    /\ r.pc = "decide"
    /\ Update(r.user, Verdict(r.row, r.verdict))
    /\ decisions' = decisions \cup
          {[id |-> r.id, user |-> r.user, verdict |-> r.verdict, by |-> r.admin]}
    /\ \/ ContinueReview(r, [r EXCEPT !.pc = "publish",
                                      !.row = Verdict(@, r.verdict)])
       \/ "db" \in Faults /\ EndReview(r)
    /\ UNCHANGED <<proc, posts, cards, clicks, events, notified>>

\* Mutant: the event may be published before the verdict is written.
PublishEarly(r) ==
    /\ r.pc \in {"decide", "publish"}
    /\ events' = events \cup {r.id}
    /\ ContinueReview(r, [r EXCEPT !.pc = IF @ = "decide" THEN @ ELSE "edit"])
    /\ UNCHANGED <<sharedVars, cards, clicks, decisions, notified>>

PublishDecision(r) ==
    /\ r.pc = "publish"
    /\ events' = events \cup {r.id}
    /\ ContinueReview(r, [r EXCEPT !.pc = "edit"])
    /\ UNCHANGED <<sharedVars, cards, clicks, decisions, notified>>

\* The text of the edited card dereferences both names of the row in memory.
EditCard(r) ==
    /\ r.pc = "edit"
    /\ proc' = IF {"first_name", "last_name"} \subseteq r.row.filled
               THEN proc ELSE "approval_reply"
    /\ EndReview(r)
    /\ UNCHANGED <<db, posts, cards, clicks, decisions, events, notified>>

-----------------------------------------------------------------------------
(* The notification handler: one attempt, in a goroutine of its own.       *)
Notify(d) ==
    /\ events' = events \ {d}
    /\ \/ notified' = notified \cup {d}
       \/ "send" \in Faults /\ UNCHANGED notified
    /\ UNCHANGED <<sharedVars, cards, clicks, reviews, decisions>>

-----------------------------------------------------------------------------
Review(r) == \/ CheckModerator(r) \/ Decide(r) \/ PublishDecision(r)
             \/ EditCard(r)

ModeratorNext ==
    /\ proc = "up"
    /\ \/ \E p \in DOMAIN posts : \/ Deliver(p) \/ Confirm(p)
                                  \/ Forward(p) \/ ForwardFails(p)
       \/ \E a \in Admins, u \in cards, v \in Verdicts : Click(a, u, v)
       \/ \E r \in reviews : Review(r) \/ ReviewFails(r)
       \/ \E d \in events : Notify(d)
=============================================================================
