----------------------------- MODULE SharedState -----------------------------
(***************************************************************************)
(* What the two bots of the monolith share: the process they run in, the   *)
(* users table behind postgres.userRepository, and the private upload      *)
(* channel behind telegramQueue.                                           *)
(*                                                                         *)
(* A panic anywhere ends the process, because no goroutine of the program  *)
(* recovers; `proc` then names the handler that panicked.                  *)
(***************************************************************************)
EXTENDS UserRows, Sequences, FiniteSets

CONSTANTS
    Users,      \* Telegram users of the customer bot
    Faults      \* the outside failures a run allows, a subset of FaultKinds

FaultKinds == {"db", "send", "kill"}

ASSUME FaultsAssumption == Faults \subseteq FaultKinds

VARIABLES
    proc,       \* "up", or why the process is down
    db,         \* the users table: a row for each user, or NoRow
    posts       \* the messages of the upload channel, numbered from 1

sharedVars == <<proc, db, posts>>

PanicSites == {"gov_id_reply", "policy_accept", "start_welcome",
               "approval_reply"}
Downs == PanicSites \cup {"killed"}

-----------------------------------------------------------------------------
(* The repository.  Update writes every column from the caller's copy,     *)
(* with no check that the row is still the one the caller read.            *)

\* Mutant: columns that are NULL in the copy are left alone.
UpdateSkippingNulls(u, row) ==
    db' = [db EXCEPT ![u] = [row EXCEPT !.filled = @ \cup db[u].filled]]

Update(u, row) == db' = [db EXCEPT ![u] = row]

\* Mutant: an insert that replaces the row of the same user.
Upsert(u, row) == db' = [db EXCEPT ![u] = row]

\* telegram_id is UNIQUE: a second row for the same user is refused.
Create(u, row) ==
    db' = IF db[u] = NoRow THEN [db EXCEPT ![u] = row] ELSE db

-----------------------------------------------------------------------------
(* The upload channel.  A post is "queued" until the moderator bot's       *)
(* poller receives it, "forwarding" while the bus runs the forwarding      *)
(* handler, then "forwarded" or "lost".  `confirmed` says that a later     *)
(* getUpdates call of the poller has acknowledged it to Telegram, which    *)
(* then never delivers it again.                                           *)

PostStates == {"queued", "forwarding", "forwarded", "lost"}
Posts == [user: Users, st: PostStates, confirmed: BOOLEAN]

NextRef == Len(posts) + 1

\* Mutant: the error of SendPhoto is dropped, the reference used all the same.
PublishNothing(u) == u \in Users /\ UNCHANGED posts

PublishUpload(u) ==
    posts' = Append(posts, [user |-> u, st |-> "queued", confirmed |-> FALSE])

\* What the channel looks like to a process that starts again: a post that
\* was not acknowledged comes back, one that was and is not forwarded never.
PostAfterRestart(post) ==
    CASE ~post.confirmed -> [post EXCEPT !.st = "queued"]
      [] post.confirmed /\ post.st = "forwarding" -> [post EXCEPT !.st = "lost"]
      [] OTHER -> post

-----------------------------------------------------------------------------
SharedTypeOK ==
    /\ proc \in {"up"} \cup Downs
    /\ db \in [Users -> Rows \cup {NoRow}]
    /\ posts \in Seq(Posts)

SharedInit ==
    /\ proc = "up"
    /\ db = [u \in Users |-> NoRow]
    /\ posts = <<>>
=============================================================================
