# Verification of AsaExchange

TLA+ models of the Telegram bot monolith in this repository, TLC runs that
check them on small instances, and TLAPS proofs of what holds for instances of
any size. Paths are relative to the repository; `internal/` is left out of file
names where they are unambiguous.

## 1. Inventory

One Go process (`cmd/server/main.go`) runs two Telegram bots over one Postgres
database. A customer registers with the *customer bot*; when the photo of the
identity document arrives it is posted to a private *upload channel*, which the
*moderator bot* polls; it forwards the photo as a card with two buttons to an
admin channel; the verdict of a moderator is written to the users table and
announced over an in-memory event bus, and the customer is told.

| Component | State it keeps | Operations |
|---|---|---|
| main `cmd/server/main.go` | the context of the signals, the database pool | load, make the cipher, open, start, close, return |
| Configuration `shared/config/config.go` | the values of `config.yaml` | `Load` with its validations |
| Orchestrator `adapters/telegram/orchestrator.go` | wait group | connect both bots, subscribe the handlers, start both servers, wait for both |
| Customer server `bot/customer/server.go` | channel of updates, channel of jobs, worker goroutines | `startPolling`, `startWebhook`, shutdown |
| Customer router `bot/customer/router.go` | maps of handlers (fixed at start) | `HandleUpdate`: read the user, route command, callback, message |
| Start handler | none; reads and writes the row | create, resume, restart after rejection, welcome |
| Registration handler | none; the row's `user_state` is its state machine | one step for each question; photo to the queue; policy message |
| Policy handler | none | accept, decline |
| Notification handler | none | tell the user of approval or rejection |
| Moderator server `bot/moderator/server.go` | channel of updates | publish each update to the bus, shutdown |
| Moderator router | maps of handlers | callback: is the presser a moderator? |
| Approval handler | none | write the verdict, publish the event, edit the card |
| Forwarding handler | none | read the user, send the card |
| Verification queue `adapters/telegram/queue.go` | Telegram's upload channel | `Publish`, `Subscribe`, caption coding |
| Event bus `adapters/eventbus/in_memory_bus.go` | subscriptions under a lock | `Subscribe`; `Publish` starts a goroutine for each handler |
| User repository `adapters/postgres/user_repository.go` | the users table | `Create`, whole-row `Update`, `Delete`, reads, column encryption |
| Bank account repository | the bank accounts | `Create`, `GetByUserID` |
| Encryption service `adapters/security/aes_service.go` | one key | `Encrypt`, `Decrypt` |
| Message builder, Telegram client | what Telegram shows of a chat | texts, parse mode, keyboards; send and edit |
| Handler registries, logger, migrations | - | see "Not modelled" |

How they interact. Workers of the customer server and goroutines of the bus all
read and write the same row with no transaction: a handler reads a copy, decides
on the copy, and `Update` writes *every* column of the copy back. The two bots
meet only in the table, in the upload channel and, for the news of a verdict,
on the bus. All that a user knows is what the last reply that reached him put
on his screen.

What is hard.

* Two workers handle two messages of one user at once, and a moderator decides
  meanwhile; each overwrites the others' rows.
* The buttons of a card, of a policy message and of a reply keyboard outlive the
  situation they were sent for, and can be pressed twice, late, and by two people.
* No goroutine recovers: a nil dereference anywhere ends both bots, with what
  the bus and the workers had in memory. There are four places where a handler
  dereferences a name that may be NULL.
* A call to Postgres or Telegram can fail, and can fail after it took effect;
  a reply can be refused for the characters in it after the row was saved.
* Telegram delivers an update again until a later poll acknowledges it; that
  poll does not wait for the handler, so a crash may repeat or lose an update.
* Start-up and shutdown: either server can fail alone, shutdown races with full
  channels, and `main` returns without waiting for the bus's goroutines.
* A column that was sealed with another key makes its whole row unreadable.

What makes each part correct: a row always holds exactly the answers of the
steps before its state (registration, policy, start, approval, repository); a
document reference is a post of that user (registration, queue); a status
other than pending is a moderator's verdict about an upload of this user
(approval, router, forwarding); a submitted registration was accepted (policy);
news follows the verdict (notification); the screen asks for what the row awaits,
or `/start` brings that back (replies, builder); the pool takes each update once and stops
(server); an event reaches each of its handlers at most once and none is published
before they are subscribed (bus, orchestrator); the database outlives the servers
(main); what is read is what was written (repositories). `PROJECT.json` lists the
hazards line by line, with the properties that cover each and a note at those that
no property covers.

## 2. Modules

| Module | Models | Uses |
|---|---|---|
| `UserRows` | a row, and what each handler makes of its copy | - |
| `SharedState` | process, users table, upload channel | `UserRows` |
| `CustomerBot` | `CustomerRouter.HandleUpdate` and its handlers | `SharedState` |
| `ModeratorBot` | poller, queue, forwarding, router, approval, notification | `SharedState` |
| `AsaExchange` | both bots composed, crash and restart, all their properties | both bots |
| `MCAsaExchange` | model values, symmetry, initial tables | `AsaExchange` |
| `JobRunner` | abstract: what an update loop with workers promises | - |
| `WorkerPool` | `startPolling`, `startWebhook` of the customer server; refines `JobRunner` | instances `JobRunner` |
| `MCWorkerPool` | model values | `WorkerPool` |
| `PubSub` | abstract: what an event bus promises | - |
| `EventBus` | `inMemoryEventBus`; refines `PubSub` | instances `PubSub` |
| `Orchestrator` | `main`, configuration, `Orchestrator.Start`, both servers' life, the moderator server's loop, all over the bus | `EventBus` |
| `MCOrchestrator` | the configurations of a run | `Orchestrator` |
| `UserTable` | abstract: the two repositories without encryption | - |
| `Repositories` | both repositories and the encryption service; refines `UserTable` | instances `UserTable` |
| `MCRepositories` | symmetry | `Repositories` |
| `Markdown` | what MarkdownV2 makes of a text, `escapeMarkdown` | - |
| `Dialogue` | the reply of each branch of each customer handler, the builder, and the user's screen | `UserRows`, `Markdown` |
| `MCDialogue` | countries and spellings | `Dialogue` |
| `UserRows_proofs` | lemmas about the row operators | `UserRows` |
| `Induction` | lemmas: induction and recursion over numbers and sequences | - |
| `AsaExchange_proofs` | the inductive invariant and its theorems; news follows the verdict; the late `/start` | `AsaExchange`, `UserRows_proofs` |
| `WorkerPool_proofs` | types and refinement of the pool | `WorkerPool` |
| `EventBus_proofs` | refinement of the bus | `EventBus` |
| `Orchestrator_proofs` | types, safety and refinement of the process | `Orchestrator`, `EventBus_proofs` |
| `Repositories_proofs` | types, unique rows, sealed data, rights, refinement | `Repositories`, `Induction` |
| `Dialogue_proofs` | texts of any length, replies, the screen | `Dialogue`, `Induction` |

The row operators of `UserRows` are shared: `CustomerBot` and `ModeratorBot` save
what they return one step at a time, with everything else running in between, and
`Dialogue` saves the same rows in one step and adds the answer. The splits follow
the questions: who overwrites whom is `AsaExchange`'s, what the user sees is
`Dialogue`'s, where updates are is `WorkerPool`'s, who is alive is
`Orchestrator`'s, and what a column holds is `Repositories`'.

### State and code

`AsaExchange` and below:

* `db[u]` is the row of `u` or `NoRow`. A row keeps the set of its non-NULL
  columns (`filled`), the status, the state and the document reference. What
  the answers say is never looked at again, so their values are left out.
* `tasks` are updates that workers are handling. `pc` says at which read or
  write the handler is, `row` is the copy in its hands. `Route` is the
  router's read, the action that ends the task is the handler's write with what
  follows; the two steps are apart because everything else can run between
  them. `/start` makes a second read of its own, and only that one counts.
* `posts` are the messages of the upload channel, numbered as their references
  are: queued, forwarding, forwarded or lost, and acknowledged or not.
* `offered` and `cards` are the users for whom policy buttons and a card exist.
  A button once sent can be pressed at any time: Telegram may hold a press
  while the message is edited, and delivers it again after a crash that came
  before its acknowledgement. So the edits that take buttons away are not modelled
  here (`Dialogue` has them).
* `reviews` are presses of card buttons in the hands of a goroutine: `check`
  (router and read), `decide` (write), `publish`, `edit`. `decisions` is a
  history of the verdicts written, `events` what is on the bus, `notified` what
  reached its user. A verdict is known by the number of its press.
* `terms` is a history: who pressed the accept button.
* `proc` is `"up"`, or why the process is down: killed, or the handler whose
  dereference panicked. `Restart` drops what was in memory and keeps the table,
  the messages, and the posts that were not acknowledged.

Texts are four classes that the validations of the steps tell apart (`short`,
`word`, `line`, `country`, by their length in bytes and membership of the
country list); contacts are three. Messages the steps refuse change nothing.

`WorkerPool`: channels are sequences with a capacity, a `select` with
several ready cases takes any, and a closed channel still yields what it holds. The
Telegram library is external: with polling one goroutine hands updates over in
order; with a webhook each HTTP handler blocks on the channel by itself.

`EventBus`: `subscribers[t]` is the bus's map; its n-th handler gets delivery n of
each event. A call of `Publish` is a record in `publishing` from `RLock` to
`RUnlock`, and starts one goroutine at a time (`Launch`), so that an early one can
run, end and publish while later ones are not yet started. The publisher is the
loop of the moderator server or a delivery that publishes a verdict.

`Orchestrator`: `main` is where `main.go` is, with the four fatal ends by name;
`server[s]` where each server is; `deaf` the webhook servers whose
`ListenAndServe` failed, which is logged and nothing else; `wired` how far `Start`
has come with its subscriptions. `cfg` is the file's contents down to what `Load`,
the cipher and the servers look at. The moderator server's updates are `kinds`, and
go from `knocking` through `inbox` to a topic of the bus. `Exit` ends the goroutines
of the bus wherever they are. The customer server only starts and ends here; it may
fail to end, as `WorkerPool` says it does. `nameless` are the deliveries that have
published a verdict on a user without a name: always after a rejection, possibly after
an approval. Once `Publish` has returned they dereference the name
(`approval_handler.go:131`, `:104`) and do nothing else than panic (`ReviewPanics`); a
worker may panic while its server runs (`WorkerPanics`: `start_handler.go:152`,
`policy_handler.go:74`). Either ends the whole process at once, with `main` at
`"panicked"` and `db.Close` not called.

`Repositories`: a stored value is a cell, a plain value with the key that sealed it,
and opens with that key only. Four columns stand for all: the status for those
stored as they are, the phone number and the government id for those encrypted, and
`is_moderator`, which only the administrator of the database sets and every `Update`
writes. `copies[c]` is the decrypted user a caller holds. `turns` and `seen` are
histories of `is_moderator`. The refinement maps each cell to its plain value, so
`ImplementsUserTable` says that encryption does not show.

`Dialogue`: `Respond` is `HandleUpdate` as a function of the row, the words quoted in
replies and the incoming message; `screen` is what the user has: the question last
asked, the reply keyboard, and how many policy messages carry buttons. A reply is
shown, refused by Telegram (`Markdown` decides which text is), or lost. `uploaded` says
that a card exists, so that a moderator may decide. `outlived` is a history: what first
made the keyboard on the screen older than the question.

### Faults

`Faults` in `AsaExchange` names what may go wrong outside: `db` (a query fails),
`send` (a Telegram call fails), `kill` (the process is ended). A failed call that may
have taken effect does both in the model: `Decide`, `AcceptPolicy` and `PublishDoc`
have the disjunct "the effect, then the error path"; the writes after which the
handler does nothing else that matters need none. `Failures` in `Orchestrator`:
the database does not answer, the API refuses a bot, a webhook cannot be set, a
listener fails; panics need no constant. `Lossy` in `Dialogue`: a message does not
arrive. `Failing` in `Dialogue`: a read, an upload or a write fails, before or after it
took effect, and the handler answers with an error and returns (`CutShort`, for every
handler and the router). In `Repositories`
any query may fail, and the process may start again with another key.

## 3. Runs

Passing runs (`tlc -config <name>.cfg MC...`):

| Run | Bounds | Shows |
|---|---|---|
| `registration` | 1 user, 1 worker, empty table, every input, every fault, 1 photo, 1 press, 1 restart | the state machine in sequence: `TypeOK`, `RowsInStep`, `GovReplyNeverPanics`, `SubmittedAcceptedTerms`, `NewsIsOfDecision` |
| `races` | 1 user, 2 workers, 2 admins of whom 1 moderates, both verdicts, 1 photo, 2 presses | stale copies overwrite each other, reviews overlap, a late `/start`: `RowsInStep`, `StatusHasVerdict`, `SubmittedAcceptedTerms`, `LateStartKeepsProgress` |
| `progress` | 2 users about to upload, 1 worker, 2 photos, 1 press, `send` faults, 1 restart, fairness | photos, cards and verdicts are not mixed up and none gets stuck: `DocRefIsOwnUpload`, `DecisionNeedsUpload`, `WorkersComeBack`, `UploadsLeaveTheQueue` |
| `pool` | both modes, 2 workers, channels of 2 and 1, 5 updates, fairness | `TypeOK`, `ImplementsJobRunner`, `StopsUnlessStuck`, `UpdatesAreHandled` |
| `lifecycle` | 3 pairs of modes (one with an unknown mode) and 3 faulty configurations, every failure, panics, 2 updates, library channel of 1, fairness | `TypeOK`, `AcceptedConfigWorks`, `EveryEventHasAudience`, `ServesUntilBothStop`, `ImplementsPubSub`, `CutOffHasACause`, `EndsOnSignal`, `PostsReachQueue` |
| `storage` | 2 clients, 2 accounts, 2 users ever, 2 keys, 4 changes | `TypeOK`, `OneRowPerUser`, `ImplementsUserTable`, `SealedDataSurvives`, `OnlyStaleCopiesChangeRights` |
| `dialogue` | 3 countries, 3 spellings, 2 policy messages, failing calls, lost replies | `TypeOK`, `OnlyQuotesAreRefused`, `ScreenServesState`, `HelpIsTwoMessagesAway`, `CardShowsTheWords`, `LateButtonsHaveACause` |

Why the bounds are enough.

* `AsaExchange`: a race needs two copies of one row, so two workers, or a worker
  and a review, show each pair of handlers; `races` has two of each. More at once
  are covered by the proofs, which have no bounds. One photo makes a card; two are
  needed only where posts could be taken for each other's. `progress` starts the
  process over a table the `registration` run reaches ("about to upload",
  `LateSpec`), so that the state space is spent on the end of the story.
* `pool` needs a jobs channel that fills while every worker is busy and one more
  update in the loop's hand: 2 + 2 + 1 = 5.
* `lifecycle`: a verdict needs one update that is a press; a second update
  overlaps with it on the bus and fills the library's channel of 1 with one more
  knocking. Both servers in polling mode, both in webhook mode, a mode that the
  validation rejects, a key of the wrong length, a key that is no hexadecimal and a
  value that is missing. The two servers meet only in the wait of `Start`; the theorems
  are about mixed modes too.
* `storage`: the worst stories are two copies of one row, and a row deleted and
  made anew while a copy of the old one is held; a write under one key, another
  key, a write, and the old key again are 4 changes.
* `dialogue`: an odd number of countries leaves a half row in the grid of two
  columns; the spellings are a plain word, one with two characters that must be escaped
  (one of which ends the entity of the ID), and a backslash, which would escape what
  the reply puts after it; the second policy message is the one that outlives the
  first.

`SYMMETRY` permutes workers, users, clients, accounts and keys and is used only in
runs without liveness properties. `CHECK_DEADLOCK FALSE` is said where the system may
really stop: nothing in the repository starts the process again when the
restarts of a run are used up, the update loop returns after the signal, the process
exits, and the changes of `storage` are bounded. `dialogue` never stops, and
says nothing of it.

Violation runs show where code and repository text disagree:

| Run | What is said | What the code does |
|---|---|---|
| `terms` | `policy_handler.go:107` "To use this bot, you must accept the terms" | the photo is forwarded to the moderators before the policy is shown, and approval looks at neither: a user is approved who accepted nothing |
| `rejected_not_told` | `Readme.md:17` "automatically notified of their new status" | `approval_handler.go:131` dereferences the names that the rejection has just set to nil; the panic ends the goroutine that would tell the user, and the whole process |
| `approval_overwritten` | the same line | the photo handler publishes the photo (`registration_handler.go:375`) before it saves its copy of the row (`:386`); a moderator who approves in between is overwritten by that save (`user_repository.go:222`), and the user who is told of the approval is `pending` |
| `polling_hangs` | `server.go:43` "will block until the context is cancelled" | `jobs <- update` has no case for the context; the workers leave, the buffer is full, the loop never returns |
| `reply_refused` | `registration_handler.go:249` "Ask for the next piece of information" | the reply quotes the first name unescaped, so for a name like Anne-Marie Telegram refuses it after the row was saved, and the question and the country buttons never come |

More of what the models show of this code, without a run of its own:

* The same hang exists with a webhook: `Shutdown`, with no deadline, waits for HTTP
  handlers that send to a channel nobody reads. `StopsUnlessStuck` and
  `EndsOnSignal` name these hangs as the only ones.
* The panic of a rejection also ends the goroutines that forward other users'
  photos, whose posts are already acknowledged: their cards are never sent.
* `policy_handler.go:64` ("user.VerificationStatus is already 'pending'") is wrong
  whenever a moderator decides before the policy is answered, as in `terms`; and a
  user approved so who then presses Decline (`policy_handler.go:90`) is `level_1`
  in the middle of a registration, which `/start` hides from him.
* Texts that quote a name, or the wrong choice of a country in backticks
  (`registration_handler.go:299`), are refused for some words, and the prompt for a
  photo (`registration_handler.go:336`) always is: its full stop is not escaped.
  `OnlyQuotesAreRefused` says there are no others. `escapeMarkdown`
  (`forwarding_handler.go:112`) leaves the backslash, the one exception of
  `CardShowsTheWords`.
* The country keyboard can outlive its question, and a press is then stored as a
  name; `LateButtonsHaveACause` lists the five ways: the reply that removes it was
  lost, refused, or replaced by an error because the write failed after its effect;
  a moderator decided; an old policy button was pressed. A contact whose number the
  pattern refuses takes the contact button away (`registration_handler.go:189`), and
  `/start` while the policy is awaited sends no buttons (`start_handler.go:117`):
  `HelpIsTwoMessagesAway` shows what repairs either: `/start`, and in the second case
  any one message after it. It promises nothing of what comes after an answer: the
  reply to an ID quotes the first name, and is refused as in `reply_refused`.
* An error reply (`registration_handler.go:430`) asks for nothing, and after a write
  that failed in spite of its effect the user is one question behind without knowing.
  These replies, two others and the welcome of a verified user are the exceptions of
  `ScreenServesState`.
* Any handler that holds an older copy, such as one behind a policy button, overwrites
  a verdict in the same way as in `approval_overwritten`.
* `Load` accepts a key of 64 characters that are no hexadecimal, which fails
  later, at `main.go:40`. It does not parse `postgres.url` either; a malformed one is
  among the ways in which opening the database fails (`AcceptedConfigWorks`).
* The process can end in the middle of a delivery for two reasons: the signal, because
  `main` does not wait for the bus, and a panic. `CutOffHasACause` says there are no
  others; a server that fails or goes deaf is none.
* A server that fails leaves the other one running until a signal
  (`ServesUntilBothStop`), and `main` returns normally whatever `Start` ended with.

### Fairness

In `AsaExchange`, weak fairness of each worker's next step and of the bus's handling
of each post, review and event; in `WorkerPool`, of the update loop, of each worker
and of handing each update over; in `Orchestrator`, of `main`, of each server's
connecting, of handing each update over, of taking updates, of the moderator server's
shutdown, of the goroutines of the bus and of the panic that a review without a name
ends in. The scheduler of Go runs every goroutine
that can run; calls to Postgres and Telegram return, with an error if need be, and
the poller keeps polling. No strong fairness is used. Users, moderators, failures, the
signal, the restart and the panics of workers are unfair, and so is, in
`Orchestrator`, the end of the customer server, which may hang. The liveness properties of `AsaExchange` are
conditional on the process staying up in the end (`StaysUp`), because nothing
restarts it.

## 4. Proofs

All theorems hold for all values of the constants under the assumptions named in
the modules, and no others.

`AsaExchange_proofs`:

* `InvHolds`: the inductive invariant `Inv`;
* `TypesHold` (`TypeOK`), `RowsStayInStep` (`RowsInStep`), `GovReplySafe`
  (`GovReplyNeverPanics`), `DocRefsResolve` (`DocRefIsOwnUpload`),
  `StatusNeedsVerdict` (`StatusHasVerdict`), `SubmissionNeedsTerms`
  (`SubmittedAcceptedTerms`), `VerdictNeedsUpload` (`DecisionNeedsUpload`).

Why an invariant of the table alone is not inductive: the next row is computed
from a copy in a handler's hands, which may be old. So what a row must satisfy
(`Good`: in step with its state, its document a post of this user, its status
backed by a decision of a moderator, its submission by an acceptance) is asked
of *every copy*: of the table, of each task (`TaskOK`) and of each review
(`ReviewOK`). What makes a copy stay good while others work is that all it
refers to only grows: posts are appended and keep their user, decisions and
acceptances are added (`Grows`). The proof is then: the lemmas of `UserRows_proofs`
show that each row operator keeps a row in step; a lemma shows that a good copy stays good
under any step that `Grows`; one lemma for each action shows that what it
stores or holds is good; a frame lemma disposes of what an action leaves alone.

The second part of the module is about news, from `TypesHold` and an invariant of its own:

* `NewsInvHolds`: the invariant `NewsInv`;
* `NewsFollowsDecision` (`NewsIsOfDecision`);
* `LateStartIsHarmless` (`LateStartKeepsProgress`), an action property: only the
  step that ends the late task could touch the table, and it is `Create`, which
  leaves a table that has the user alone.

`NewsIsOfDecision` is not inductive: it says nothing of a review before it publishes.
`NewsInv` adds that whoever is about to publish has written the decision.

`WorkerPool_proofs`: `TypesHold` (`TypeOK`) and `PoolIsJobRunner`
(`ImplementsJobRunner`). The refinement needs to know that the update a worker takes
is nowhere else, and that it is the oldest one. So the invariant says that every
number was handed out by the library (`Numbered`), that an update is in one place
(`OnePlace`), and that, when polling, the places stand in a line in which numbers
increase (`InLine`); `Places` relates hands to program counters. Two lemmas about
channels (`Put`, `Get`) carry each action; a count of the busy workers (`RoomToRun`)
shows that a free one leaves room for another job.

`EventBus_proofs`: `BusKeepsPromise`, the refinement of `PubSub`. What is owed is
what runs or is still to be started, so a launch must be a stutter: the invariant
`Launches` says that a call under the lock has started only deliveries below its
`next`, and that no two calls are about one event.

`Orchestrator_proofs`: `TypesHold`, `ConfigIsEnough` (`AcceptedConfigWorks`),
`NobodyIsMissed` (`EveryEventHasAudience`), `DatabaseOutlivesServers`
(`ServesUntilBothStop`), `CutOffsHaveACause` (`CutOffHasACause`) and
`ProcessKeepsPromise` (`ImplementsPubSub`). Every step of the process is a step of
the bus or leaves it alone, so the bus's invariant and refinement carry over. The
rest of the invariant: past the validation the configuration is a good one
(`Configured`); the servers' places follow from where `main` is (`Staged`); a server
stops only after a signal, and before it listens nothing was published (`Served`);
every topic wired so far has a handler (`Covered`). `PanicInv` shows that a panic
preserves all of it.

`Repositories_proofs`: `RowsAreUnique` (`OneRowPerUser`), `ForeignDataIsKept`
(`SealedDataSurvives`), `RightsChangeByStaleCopies` (`OnlyStaleCopiesChangeRights`),
`TypesHold` (`TypeOK`) and `TableKeepsPromise` (`ImplementsUserTable`). The
invariant's heart is `CopyFits`: whoever holds a copy of a row that is still there has
the same Telegram id, the row can be read with the present key, and if the copy is as
new as the last change of `is_moderator` it agrees with it. That a written row can be
read is why nothing foreign is ever overwritten. `Records` (`RecordsHold`) adds that
every bank account belongs to a user who is there.

The refinement maps every cell to its plain value, so a step of the repositories must
be the same step of `UserTable` on plain users. For `Create` and `Update` this is
`OpenedSealed`: what is sealed opens as it was, with the key of the moment.
A row or an account that does not open makes the call fail, which `UserTable` allows
(`Fail`). For `Delete` and `GetByUserID` it is `OwnedOpens`: selecting accounts by
their owner and opening them can be done in either order, for a list of any length.

`Dialogue_proofs`: `InvHolds` (the invariant `Inv`), `TypesHold` (`TypeOK`),
`RefusalsQuoteTheUser` (`OnlyQuotesAreRefused`), `ScreensServe`
(`ScreenServesState`), `LateButtonsAreExplained` (`LateButtonsHaveACause`),
`CardsShowTheWords` (`CardShowsTheWords`) and `HelpIsNear`
(`HelpIsTwoMessagesAway`). Three parts:

* *Texts.* `Reads(text, at, shown)`: at the end of the text its reader is `at` (in
  plain text or inside an entity) and has understood `shown`. By induction over the
  text, `ReadsEscape` shows that what `escapeMarkdown` makes of words without a
  backslash adds these words, wherever the reader is; `ThankAccepted`, `QuoteAccepted`
  and `CaptionShows` follow. `CountryKeyboard` shows that a grid of two columns holds
  every country and nothing else.
* *Replies.* `Answers` says what any reply has in common: the row it saves is a row,
  the message asks for what that row awaits with the buttons it needs, it can be
  refused only for what it quotes or as the prompt for a photo, and an answer to the
  question for the country takes its keyboard away. One lemma for each handler
  (`FirstNameAnswers` ... `DeclineAnswers`) shows it, and `RespondAnswers` joins them
  as the router does.
* *The screen.* `Inv` is the shape of the state, `OnlyQuotesAreRefused`,
  `ScreenServesState` and `FreshButtons`: a country keyboard that nothing has outlived
  stands with the question for the country. `FreshButtons` is what gives a late press
  its cause: without it the action property does not follow from the types.
  `CutShortAnswers` shows that a handler that is cut short stays within `Answers`.
  `HelpIsNear` speaks of two replies that are not sent: it follows them with
  `Starting` and `AskingPolicy`, from any state of the right shape.

`Induction` is how data of any length is reasoned about. The provers cannot instantiate
a theorem with an operator for a parameter, so the library's induction is out of
reach; the lemmas here have *sets* for parameters instead. Its root is `LeastNumber`,
from the library's `WFMin`: a set of numbers has a least one. From it follow
`SetInduction` (a set with 0 and the successors of its members has all numbers),
`RangeInduction`, `SeqInduction` (the same for the sequences over a set), and
`Recursion`: a function on `0..n` can be given by its first value and a step, so that
`Read` and the library's `FlattenSeq` mean what their definitions seem to say
(`ReadingRuns`, `FlattenIs`, `FlattenAppend`).

Assumptions on constants beyond types, and why the code justifies them:
`Countries # {}`, because `Load` refuses a configuration without `country_strategies`
(`config.go:152`); titles are not the names the model gives to the other buttons;
`NullAssumption`, because a NULL column is no value. The others say that bounds are
numbers and that sets of model values are sets of the right kind.

Every safety property, action property and refinement that a run checks is also a
theorem. Model-checked only:

* liveness: `WorkersComeBack`, `UploadsLeaveTheQueue`, `StopsUnlessStuck`,
  `UpdatesAreHandled`, `EndsOnSignal` and `PostsReachQueue` (liveness under fairness and
  `ENABLED` are out of this prover's reach);
* the violations, which are examples and need no proof.

There are no `RECURSIVE` operators.

## 5. Not modelled

* Telegram's and Postgres's insides: external, by what the code relies on.
* The translation of the client's parameters to the library's structures, and
  `SetMenuCommands`: no state, no decision.
* The wording of messages beyond what MarkdownV2 tells apart; the caption's layout.
* The two notifications as messages on the screen (they carry no question).
* Handler registries: filled once by `init` functions, one handler for each purpose.
* Reading the configuration file and finding the project's root; logging; the
  migrations, which are run by hand.
* Parse errors of callback data and captions: the program writes both itself.
* The moderator router's `handleMessage`: the repository registers no command and no
  message handler for it.
* Lengths of names and ids as numbers: the models take classes by length in bytes,
  as the code does.
* In `AsaExchange` the set of moderators is fixed in a run and stored values decode;
  `Repositories` looks at both.

## 6. Plan

Done: the two bots, the pool, the bus, the process, the repositories, the dialogue,
and the proofs above. What could follow:

1. A proof that `Dialogue` saves only rows that `AsaExchange` can store, so that the
   invariant of the rows (`RowsInStep`) holds of the conversation too.
2. Lemmas about the shutdown that its liveness rests on: which steps remain once the
   signal has come, and that their number only falls.
3. The composition of `WorkerPool` with `Orchestrator`, so that the end of the
   customer server is a step of its loop.
4. A run of `AsaExchange` whose moderators change while reviews are under way.
