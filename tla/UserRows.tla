------------------------------- MODULE UserRows -------------------------------
(***************************************************************************)
(* A row of the users table (domain.User) and what each handler makes of   *)
(* the copy of it that it holds.  Values are abstracted to presence: a     *)
(* nullable column is either NULL or holds an answer of the user, so a row *)
(* keeps the set of its non-NULL columns.  identity_doc_ref keeps its      *)
(* value, the number of the message in the upload channel, with 0 for      *)
(* NULL.  The handlers of the two bots never look at a row again between   *)
(* reading it and writing it back, so what they do to it is a function of  *)
(* the row they read.                                                      *)
(***************************************************************************)
EXTENDS Naturals

CONSTANT NoRow      \* what the repository returns for a user it does not know

Statuses == {"pending", "level_1", "rejected"}

States == {"none", "awaiting_first_name", "awaiting_last_name",
           "awaiting_phone_number", "awaiting_gov_id", "awaiting_location",
           "awaiting_identity_doc", "awaiting_policy_approval"}

Fields == {"first_name", "last_name", "phone_number", "government_id",
           "location_country", "verification_strategy"}

Rows == [status: Statuses, state: States, filled: SUBSET Fields, doc: Nat]

ASSUME NoRowAssumption == NoRow \notin Rows

\* The user /start creates: no answers yet.
NewUser == [status |-> "pending", state |-> "awaiting_first_name",
            filled |-> {}, doc |-> 0]

-----------------------------------------------------------------------------
(* What a message is, as far as the registration steps tell apart.  A text *)
(* is "short" (shorter than 2 bytes, or longer than 50), a "word" of 2 to  *)
(* 4 bytes, a "line" of 5 to 50 bytes, or the title of a supported         *)
(* "country" (of 5 bytes or more).  A contact is the sender's own, somebody*)
(* else's, or the sender's own with a number the phone pattern refuses.    *)
Texts == {"short", "word", "line", "country"}
Contacts == {"own_contact", "other_contact", "odd_contact"}
Messages == Texts \cup Contacts \cup {"photo"}

Names == {"word", "line", "country"}
GovIDs == {"line", "country"}

-----------------------------------------------------------------------------
(* The registration steps: each stores its answer and names the next state.*)
Answer(row, fields, next) ==
    [row EXCEPT !.filled = @ \cup fields, !.state = next]

TakeFirstName(row) == Answer(row, {"first_name"}, "awaiting_last_name")
TakeLastName(row) == Answer(row, {"last_name"}, "awaiting_phone_number")
TakePhoneNumber(row) == Answer(row, {"phone_number"}, "awaiting_gov_id")
TakeGovID(row) == Answer(row, {"government_id"}, "awaiting_location")
TakeLocation(row) ==
    Answer(row, {"location_country", "verification_strategy"},
           "awaiting_identity_doc")
TakeIdentityDoc(row, ref) ==
    [row EXCEPT !.doc = ref, !.state = "awaiting_policy_approval"]

(* The policy buttons, whatever the state of the row is.                   *)
CompleteRegistration(row) == [row EXCEPT !.state = "none"]
DeclinePolicy(row) ==
    [row EXCEPT !.state = "awaiting_first_name", !.filled = {}, !.doc = 0]

\* Mutant: the answers go, the state stays.
RestartKeepingState(row) ==
    [row EXCEPT !.status = "pending", !.filled = {}, !.doc = 0]

(* /start of a rejected user.  The strategy is the one column it leaves.   *)
RestartRegistration(row) ==
    [row EXCEPT !.state = "awaiting_first_name", !.status = "pending",
                !.filled = @ \cap {"verification_strategy"}, !.doc = 0]

\* Mutant: a status the table's enumeration does not have.
ApproveAsVerified(row) == [row EXCEPT !.status = "verified", !.state = "none"]

(* The two verdicts of a moderator, whatever the row holds.                *)
Approve(row) == [row EXCEPT !.status = "level_1", !.state = "none"]

\* Mutant: the reference to the photo survives the reset.
RejectKeepingDoc(row) ==
    [row EXCEPT !.status = "rejected", !.state = "awaiting_first_name",
                !.filled = {}]

Reject(row) ==
    [row EXCEPT !.status = "rejected", !.state = "awaiting_first_name",
                !.filled = {}, !.doc = 0]

-----------------------------------------------------------------------------
(* What a row should look like: the answers given are those of the steps   *)
(* before its state.                                                       *)
AnswersBefore(state) ==
    CASE state = "awaiting_first_name" -> {}
      [] state = "awaiting_last_name" -> {"first_name"}
      [] state = "awaiting_phone_number" -> {"first_name", "last_name"}
      [] state = "awaiting_gov_id" ->
            {"first_name", "last_name", "phone_number"}
      [] state = "awaiting_location" ->
            {"first_name", "last_name", "phone_number", "government_id"}
      [] OTHER -> Fields \ {"verification_strategy"}

AsksForDoc == {"awaiting_identity_doc", "awaiting_policy_approval"}

(* A row between two steps holds exactly the answers of the steps before,  *)
(* a document only once it was uploaded, and a strategy once the country   *)
(* is known.  A row in state "none" stopped somewhere along that path.     *)
InStep(row) ==
    /\ row.state # "none" =>
          row.filled \ {"verification_strategy"} = AnswersBefore(row.state)
    /\ row.state \in AsksForDoc => "verification_strategy" \in row.filled
    /\ row.state \notin {"none", "awaiting_policy_approval"} => row.doc = 0
    /\ row.state = "awaiting_policy_approval" => row.doc # 0
    /\ row.state = "none" =>
          /\ \E s \in States \ {"none"} :
                row.filled \ {"verification_strategy"} = AnswersBefore(s)
          /\ row.doc # 0 => Fields = row.filled
=============================================================================
