------------------------------- MODULE Dialogue -------------------------------
(***************************************************************************)
(* What a user of the customer bot sees.  The handlers of CustomerBot save *)
(* a row first and answer afterwards; here the answer counts: its text,    *)
(* which Telegram may refuse, its keyboard, and whether the screen then    *)
(* asks for what the row's state awaits.  One user talks to the bot, one   *)
(* message at a time, and a moderator decides at any moment after a photo; *)
(* the interleavings of the workers are CustomerBot's subject, and         *)
(* messages that carry no question (the two notifications) are left out.   *)
(*                                                                         *)
(* A reply is a function of the row and the message, so the handlers are   *)
(* operators here: each returns the row it saves, the words it stores and  *)
(* the message it sends.  A call that fails on the way cuts every handler  *)
(* short in the same manner, with a plain sentence: see CutShort.          *)
(***************************************************************************)
EXTENDS UserRows, Markdown, FiniteSets

CONSTANTS
    Countries,      \* the titles of the supported countries
    Spellings,      \* how a text may be spelled, see Markdown
    MaxPolicies,    \* bound: policy messages on the screen
    Lossy,          \* whether Telegram may fail to take a message
    Failing         \* whether a read, an upload or a write may fail

ASSUME SpellingsAssumption == Spellings \subseteq Seq(Chars)
ASSUME CountriesAssumption ==
    /\ IsFiniteSet(Countries) /\ Countries # {}
    /\ Countries \cap {"share_contact", "policy_accept", "policy_decline"} = {}
ASSUME MaxPoliciesAssumption == MaxPolicies \in Nat
ASSUME LossyAssumption == Lossy \in BOOLEAN
ASSUME FailingAssumption == Failing \in BOOLEAN

VARIABLES
    row,        \* the user's row
    said,       \* the words behind its first_name and government_id
    screen,     \* the question, the keyboard and the policy messages shown
    sent,       \* the last reply and what became of it
    uploaded,   \* whether the moderators have a card of the user
    outlived    \* history: what first let the keyboard shown grow old

vars == <<row, said, screen, sent, uploaded, outlived>>

-----------------------------------------------------------------------------
(* messages.Builder and the client's SendMessage.  `asks` is the state     *)
(* whose question the wording asks, or what else it is about.              *)
NewBuilder(asks, text) ==
    [asks |-> asks, text |-> text, mode |-> "MarkdownV2", remove |-> FALSE,
     markup |-> <<>>]

WithParseMode(m, mode) == [m EXCEPT !.mode = mode]
WithRemoveKeyboard(m) == [m EXCEPT !.remove = TRUE, !.markup = <<>>]
WithMarkup(m, markup) == [m EXCEPT !.remove = FALSE, !.markup = markup]

ContactButton == <<<<"share_contact">>>>
PolicyButtons == <<<<"policy_accept", "policy_decline">>>>

WithContactButton(m) == WithMarkup(m, ContactButton)
WithInlineButtons(m) == WithMarkup(m, PolicyButtons)

\* Mutant: the last row is added only when it is full.
FullRows(titles, columns) ==
    [r \in 1 .. Len(titles) \div columns |->
        SubSeq(titles, (r - 1) * columns + 1, r * columns)]

(* The loop of WithReplyButtons: a row ends at the column limit or at the  *)
(* last title.                                                             *)
Grid(titles, columns) ==
    [r \in 1 .. (Len(titles) + columns - 1) \div columns |->
        SubSeq(titles, (r - 1) * columns + 1,
               Min({r * columns, Len(titles)}))]

\* Titles come from ranging over a map; no property depends on the order.
CountryButtons == Grid(SetToSeq(Countries), 2)
WithReplyButtons(m) == WithMarkup(m, CountryButtons)

Plain(asks) == WithParseMode(NewBuilder(asks, BarePrompt), "")
Ask(asks) == NewBuilder(asks, Prompt)

\* sendErrorMessage, and the router's answer when the user cannot be read.
Error == Plain("error")

Arrives(m) == m.mode = "MarkdownV2" => Accepts(m.text)

\* Removal wins over a markup; an inline markup leaves the keyboard alone.
Show(scr, m) ==
    [scr EXCEPT
        !.asks = m.asks,
        !.keyboard = IF m.remove THEN <<>>
                     ELSE IF m.markup \in {<<>>, PolicyButtons} THEN @
                     ELSE m.markup,
        !.policies = IF m.markup = PolicyButtons THEN @ + 1 ELSE @]

-----------------------------------------------------------------------------
(* What comes in: a message of UserRows with its spelling, /start or a     *)
(* press of a policy button.  Only texts have a spelling that matters.     *)
Taps == {"policy_accept", "policy_decline"}
Inputs == [kind: Texts \ {"country"}, words: Spellings]
    \cup [kind: {"country"} \cup Contacts \cup {"photo", "start"} \cup Taps,
          words: {<<>>}]

(* A handler's outcome.  A step that saves sends its question, one that    *)
(* refuses sends a prompt, and "none" hears nothing.                       *)
Silence == NewBuilder("silence", <<>>)
Panic == NewBuilder("panic", <<>>)
Unsent(m) == m.asks \in {"silence", "panic"}

Save(c, next, m) == [c EXCEPT !.row = next, !.msg = m]
Say(c, m) == [c EXCEPT !.msg = m]

\* The replies that quote the first name dereference a nullable column.
Quote(asks, c) ==
    IF "first_name" \in c.row.filled
    THEN NewBuilder(asks, Thank(c.said.first_name))
    ELSE Panic

\* Mutant: the refusal keeps the builder's default parse mode.
RefuseInMarkdown(c, in) ==
    IF in.kind \in Names
    THEN [Save(c, TakeFirstName(c.row), Ask("awaiting_last_name"))
            EXCEPT !.said.first_name = in.words]
    ELSE Say(c, NewBuilder("awaiting_first_name", BarePrompt))

HandleFirstName(c, in) ==
    IF in.kind \in Names
    THEN [Save(c, TakeFirstName(c.row), Ask("awaiting_last_name"))
            EXCEPT !.said.first_name = in.words]
    ELSE Say(c, Plain("awaiting_first_name"))

AskPhone == WithContactButton(Ask("awaiting_phone_number"))

HandleLastName(c, in) ==
    IF in.kind \in Names
    THEN Save(c, TakeLastName(c.row), AskPhone)
    ELSE Say(c, Plain("awaiting_last_name"))

\* A number the pattern refuses takes the button away.
HandlePhoneNumber(c, in) ==
    CASE in.kind = "own_contact" ->
            Save(c, TakePhoneNumber(c.row),
                 WithRemoveKeyboard(Ask("awaiting_gov_id")))
      [] in.kind = "odd_contact" ->
            Say(c, WithRemoveKeyboard(Plain("support")))
      [] OTHER -> Say(c, AskPhone)

HandleGovID(c, in) ==
    CASE in.kind \in GovIDs ->
            [Save(c, TakeGovID(c.row),
                  WithReplyButtons(Quote("awaiting_location", c)))
                EXCEPT !.said.government_id = in.words]
      [] in.kind \in Contacts \cup {"photo"} -> Say(c, Plain("awaiting_gov_id"))
      [] OTHER -> Say(c, Ask("awaiting_gov_id"))

AskDoc == Ask("awaiting_identity_doc")

\* Mutant: the country buttons stay.
ChooseKeepingButtons(c, in) ==
    IF in.kind = "country"
    THEN Save(c, TakeLocation(c.row), AskDoc)
    ELSE Say(c, WithReplyButtons(NewBuilder("awaiting_location",
                    InTicks(in.words) \o Prompt)))

\* The choice is quoted in an entity, as the user wrote it.
HandleLocation(c, in) ==
    IF in.kind = "country"
    THEN Save(c, TakeLocation(c.row), WithRemoveKeyboard(AskDoc))
    ELSE Say(c, WithReplyButtons(NewBuilder("awaiting_location",
                    InTicks(in.words) \o Prompt)))

AskPolicy == WithInlineButtons(Ask("awaiting_policy_approval"))

\* The prompt for a photo is the one text whose full stop is not escaped.
HandleIdentityDoc(c, in) ==
    IF in.kind = "photo"
    THEN [Save(c, TakeIdentityDoc(c.row, 1), AskPolicy)
            EXCEPT !.uploaded = TRUE]
    ELSE Say(c, NewBuilder("awaiting_identity_doc", BarePrompt))

HandlePolicyApproval(c) == Say(c, AskPolicy)

Register(c, in) ==
    CASE c.row.state = "awaiting_first_name" -> HandleFirstName(c, in)
      [] c.row.state = "awaiting_last_name" -> HandleLastName(c, in)
      [] c.row.state = "awaiting_phone_number" -> HandlePhoneNumber(c, in)
      [] c.row.state = "awaiting_gov_id" -> HandleGovID(c, in)
      [] c.row.state = "awaiting_location" -> HandleLocation(c, in)
      [] c.row.state = "awaiting_identity_doc" -> HandleIdentityDoc(c, in)
      [] c.row.state = "awaiting_policy_approval" -> HandlePolicyApproval(c)
      [] OTHER -> Say(c, Silence)

-----------------------------------------------------------------------------
(* /start and the policy buttons.                                          *)
\* Mutant: no case for the state that awaits a photo.
PendingWithoutDoc(c) ==
    CASE c.row.state = "awaiting_phone_number" -> AskPhone
      [] c.row.state = "awaiting_location" ->
            WithReplyButtons(Ask("awaiting_location"))
      [] c.row.state = "awaiting_policy_approval" ->
            WithRemoveKeyboard(Ask("decide"))
      [] c.row.state \in {"awaiting_identity_doc", "none"} ->
            WithRemoveKeyboard(Ask("wait"))
      [] OTHER -> WithRemoveKeyboard(Ask(c.row.state))

Pending(c) ==
    CASE c.row.state = "awaiting_phone_number" -> AskPhone
      [] c.row.state = "awaiting_location" ->
            WithReplyButtons(Ask("awaiting_location"))
      [] c.row.state = "awaiting_policy_approval" ->
            WithRemoveKeyboard(Ask("decide"))
      [] c.row.state = "none" ->
            WithRemoveKeyboard(IF "first_name" \in c.row.filled
                               THEN Quote("wait", c) ELSE Ask("wait"))
      [] OTHER -> WithRemoveKeyboard(Ask(c.row.state))

Start(c) ==
    CASE c.row.status = "pending" -> Say(c, Pending(c))
      [] c.row.status = "rejected" ->
            Save(c, RestartRegistration(c.row),
                 WithRemoveKeyboard(Ask("awaiting_first_name")))
      [] OTHER -> Say(c, WithRemoveKeyboard(Quote("wait", c)))

Accept(c) == Save(c, CompleteRegistration(c.row), Quote("wait", c))
Decline(c) == Save(c, DeclinePolicy(c.row), Ask("awaiting_first_name"))

\* HandleUpdate for a user who has a row, when every call succeeds.
Respond(c, in) ==
    CASE in.kind = "start" -> Start(c)
      [] in.kind = "policy_accept" -> Accept(c)
      [] in.kind = "policy_decline" -> Decline(c)
      [] OTHER -> Register(c, in)

(* When a call fails, the handler answers Error and returns at once.  That *)
(* may be the read of the row, the upload or the write, and an upload or a *)
(* write may have taken effect before it fails: `r` is what the handler    *)
(* would have done, and this is how far it may have come.                  *)
CutShort(c, r) ==
    {[got EXCEPT !.msg = Error] :
        got \in {c, [c EXCEPT !.uploaded = r.uploaded], r}}

-----------------------------------------------------------------------------
Unsaid == [first_name |-> <<>>, government_id |-> <<>>]
Chat == [row |-> row, said |-> said, uploaded |-> uploaded, msg |-> Silence]
Fates == {"shown", "refused", "nothing"}
Wordings == States \cup {"support", "wait", "decide", "error"}

\* A step after which the user hears nothing: no reply was due, the reply was
\* lost, or a moderator decided.  What a refused reply was about, and whether
\* the words it may quote have a character with a meaning, is kept.
Fate(fate) == [fate |-> fate, asks |-> "wait", special |-> FALSE]

\* The user has just been created and greeted.
Init ==
    /\ row = NewUser
    /\ said = Unsaid
    /\ screen = [asks |-> "awaiting_first_name", keyboard |-> <<>>,
                 policies |-> 0]
    /\ sent = Fate("shown")
    /\ uploaded = FALSE
    /\ outlived = {}

\* The characters with a meaning among the words a reply may quote.
Special(c, in) ==
    \E i \in DOMAIN (c.said.first_name \o in.words) :
        (c.said.first_name \o in.words)[i] # "letter"

\* What first made a keyboard older than the question, until it changes.
Outlive(why) ==
    outlived' = IF screen'.keyboard # screen.keyboard \/ screen.keyboard = <<>>
                THEN {} ELSE IF outlived = {} THEN why ELSE outlived

\* The buttons of a policy message work in every state.
OldPolicy(in) ==
    IF in.kind \in Taps /\ row.state # "awaiting_policy_approval"
    THEN {"policy"} ELSE {}

\* The reply to a write that failed after all removes no keyboard.
FailedWrite(r) == IF r.msg = Error /\ r.row # row THEN {"error"} ELSE {}

(* The reply arrives, Telegram refuses its text, or it is lost on the way. *)
Reply(scr, m, special, why) ==
    \/ IF Arrives(m)
       THEN /\ screen' = Show(scr, m)
            /\ sent' = Fate("shown")
            /\ Outlive(why)
       ELSE /\ screen' = scr
            /\ sent' = [fate |-> "refused", asks |-> m.asks,
                        special |-> special]
            /\ Outlive(why \cup {"refused"})
    \/ /\ Lossy
       /\ screen' = scr
       /\ sent' = Fate("nothing")
       /\ Outlive(why \cup {"lost"})

\* The buttons of the policy message that was pressed go with an edit,
\* unless the handler panicked or was cut short before it.
EditPolicy(in, msg) ==
    LET reached == in.kind \in Taps /\ ~Unsent(msg) /\ msg # Error
    IN  {scr \in {screen, [screen EXCEPT !.policies = @ - 1]} :
            IF scr = screen THEN ~reached \/ Lossy ELSE reached}

Handle(in) ==
    LET done == Respond(Chat, in) IN
    \E r \in {done} \cup (IF Failing THEN CutShort(Chat, done) ELSE {}) :
        /\ in.kind \in Taps => screen.policies > 0
        /\ r.msg = AskPolicy => screen.policies < MaxPolicies
        /\ row' = r.row
        /\ said' = IF "first_name" \in r.row.filled THEN r.said ELSE Unsaid
        /\ uploaded' = r.uploaded
        /\ \E scr \in EditPolicy(in, r.msg) :
              IF Unsent(r.msg)
              THEN /\ screen' = scr
                   /\ sent' = Fate("nothing")
                   /\ Outlive(OldPolicy(in))
              ELSE Reply(scr, r.msg, Special(Chat, in),
                         OldPolicy(in) \cup FailedWrite(r))

(* A moderator decides; the card and its buttons outlive every reset.      *)
Verdict ==
    /\ uploaded
    /\ \E decided \in {Approve(row), Reject(row)} :
          /\ row' = decided
          /\ said' = IF "first_name" \in decided.filled THEN said ELSE Unsaid
    /\ sent' = Fate("nothing")
    /\ UNCHANGED <<screen, uploaded>>
    /\ Outlive({"verdict"})

Next == Verdict \/ \E in \in Inputs : Handle(in)

Spec == Init /\ [][Next]_vars

-----------------------------------------------------------------------------
(* The parts of the conversation are of their types.                       *)
TypeOK ==
    /\ row \in Rows
    /\ \A f \in DOMAIN said : said[f] \in Spellings \cup {<<>>}
    /\ screen.asks \in Wordings
    /\ screen.keyboard \in {<<>>, ContactButton, CountryButtons}
    /\ screen.policies \in 0 .. MaxPolicies
    /\ sent.fate \in Fates /\ sent.asks \in Wordings /\ sent.special \in BOOLEAN
    /\ uploaded \in BOOLEAN
    /\ outlived \subseteq {"refused", "lost", "verdict", "policy", "error"}

(* Telegram refuses a reply only when it quotes a word of the user with a  *)
(* character of MarkdownV2 in it, or is the prompt for a photo: every      *)
(* other text is escaped, or sent with no parse mode.                      *)
OnlyQuotesAreRefused ==
    sent.fate = "refused" =>
        \/ sent.asks \in {"awaiting_location", "wait"} /\ sent.special
        \/ sent.asks = "awaiting_identity_doc"

ButtonsOn(keyboard) == UNION {Range(keyboard[r]) : r \in DOMAIN keyboard}

\* A screen from which the question of a state can be answered.
Serves(scr, state) ==
    /\ scr.asks = state
    /\ state = "awaiting_phone_number" => scr.keyboard = ContactButton
    /\ state = "awaiting_location" => ButtonsOn(scr.keyboard) = Countries
    /\ state = "awaiting_policy_approval" => scr.policies > 0

(* When a reply arrives, the screen asks for what the row awaits, with the *)
(* buttons the answer needs, and a country keyboard has every country.     *)
(* Four kinds of replies break off: a phone number of an odd format sends  *)
(* the user to the support, a call that failed is reported without the     *)
(* question, /start only mentions the policy, and it welcomes a verified   *)
(* user even after a press of the decline button has put him back to the   *)
(* first question.                                                         *)
ScreenServesState ==
    sent.fate = "shown" /\ row.state # "none" =>
        \/ Serves(screen, row.state)
        \/ screen.asks \in {"support", "decide", "error"}
        \/ row.status = "level_1" /\ screen.asks = "wait"

\* What the screen becomes when nothing fails or is lost.
After(c, scr, in) ==
    LET r == Respond(c, in) IN
    [c |-> [r EXCEPT !.msg = Silence],
     screen |-> IF ~Unsent(r.msg) /\ Arrives(r.msg)
                THEN Show(scr, r.msg) ELSE scr]

Restarting == [kind |-> "start", words |-> <<>>]

(* Whatever failed, was lost, refused or decided before, a user in the     *)
(* middle of a registration who types /start is asked the question of his  *)
(* row's state again, with its buttons.  Only where the policy is awaited  *)
(* does /start merely mention it; there any message at all brings it back. *)
HelpIsTwoMessagesAway ==
    row.state # "none" /\ row.status # "level_1" =>
        LET first == After(Chat, screen, Restarting) IN
        \/ Serves(first.screen, first.c.row.state)
        \/ /\ first.c.row.state = "awaiting_policy_approval"
           /\ \A in \in Inputs : in.kind \in Messages =>
                 LET then == After(first.c, first.screen, in)
                 IN  Serves(then.screen, then.c.row.state)

CountryPress == [kind |-> "country", words |-> <<>>]

(* A country button answers the question for the country.  It is taken for *)
(* a name only when the keyboard outlived its question, because the reply  *)
(* that removes it was lost, refused or replaced by an error after the     *)
(* write, because a moderator decided, or because a button of an old       *)
(* policy message was pressed meanwhile.                                   *)
LateButtonsHaveACause ==
    [][/\ screen.keyboard = CountryButtons
       /\ row.state # "awaiting_location"
       /\ row' # row
       /\ Handle(CountryPress)
       => outlived # {}]_vars

ReviewCaption ==
    <<"letter">> \o EscapeMarkdown(said.first_name) \o <<"letter">>
        \o InTicks(EscapeMarkdown(said.government_id))

Words == said.first_name \o said.government_id

(* The card of the user shows the first name and the ID as they were       *)
(* written, unless a backslash is among them: escapeMarkdown leaves it.    *)
CardShowsTheWords ==
    (\A i \in DOMAIN Words : Words[i] # "backslash") =>
        /\ Accepts(ReviewCaption)
        /\ Shown(ReviewCaption) =
              <<"letter">> \o said.first_name \o <<"letter">>
                  \o said.government_id

(* A saved step asks for the next piece of information: with no message    *)
(* lost, the screen asks for what the row awaits.                          *)
AsksForTheNextPiece ==
    row.status = "pending" /\ row.state # "none" /\ ~uploaded =>
        (sent.fate = "refused" => screen.asks = row.state)
=============================================================================
