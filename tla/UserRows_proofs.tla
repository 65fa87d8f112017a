---------------------------- MODULE UserRows_proofs ----------------------------
(***************************************************************************)
(* What the handlers do to a row: each turns a row that is in step into a  *)
(* row that is in step.  Nothing here depends on how handlers interleave;  *)
(* AsaExchange_proofs takes it to the running system.                      *)
(***************************************************************************)
EXTENDS UserRows, TLAPS

(* A fresh user is in step.                                                *)
LEMMA NewUserInStep == NewUser \in Rows /\ InStep(NewUser)
  BY DEF NewUser, Rows, Statuses, States, Fields, InStep, AnswersBefore,
         AsksForDoc

(* The registration steps of the text and contact messages.                *)
LEMMA TakeFirstNameInStep ==
  ASSUME NEW row \in Rows, InStep(row), row.state = "awaiting_first_name"
  PROVE  TakeFirstName(row) \in Rows /\ InStep(TakeFirstName(row))
  BY DEF TakeFirstName, Answer, Rows, Statuses, States, Fields, InStep,
         AnswersBefore, AsksForDoc

LEMMA TakeLastNameInStep ==
  ASSUME NEW row \in Rows, InStep(row), row.state = "awaiting_last_name"
  PROVE  TakeLastName(row) \in Rows /\ InStep(TakeLastName(row))
  BY DEF TakeLastName, Answer, Rows, Statuses, States, Fields, InStep,
         AnswersBefore, AsksForDoc

LEMMA TakePhoneNumberInStep ==
  ASSUME NEW row \in Rows, InStep(row), row.state = "awaiting_phone_number"
  PROVE  TakePhoneNumber(row) \in Rows /\ InStep(TakePhoneNumber(row))
  BY DEF TakePhoneNumber, Answer, Rows, Statuses, States, Fields, InStep,
         AnswersBefore, AsksForDoc

LEMMA TakeGovIDInStep ==
  ASSUME NEW row \in Rows, InStep(row), row.state = "awaiting_gov_id"
  PROVE  TakeGovID(row) \in Rows /\ InStep(TakeGovID(row))
  BY DEF TakeGovID, Answer, Rows, Statuses, States, Fields, InStep,
         AnswersBefore, AsksForDoc

LEMMA TakeLocationInStep ==
  ASSUME NEW row \in Rows, InStep(row), row.state = "awaiting_location"
  PROVE  TakeLocation(row) \in Rows /\ InStep(TakeLocation(row))
  BY DEF TakeLocation, Answer, Rows, Statuses, States, Fields, InStep,
         AnswersBefore, AsksForDoc

(* The photo, stored under a reference that is not NULL.                   *)
LEMMA TakeIdentityDocInStep ==
  ASSUME NEW row \in Rows, InStep(row), row.state = "awaiting_identity_doc",
         NEW ref \in Nat \ {0}
  PROVE  TakeIdentityDoc(row, ref) \in Rows /\ InStep(TakeIdentityDoc(row, ref))
  BY DEF TakeIdentityDoc, Rows, Statuses, States, Fields, InStep,
         AnswersBefore, AsksForDoc

(* Ending the registration: from any state, because nobody checks it.      *)
LEMMA NoneInStep ==
  ASSUME NEW row \in Rows, InStep(row), NEW status \in Statuses
  PROVE  LET new == [row EXCEPT !.status = status, !.state = "none"]
         IN  new \in Rows /\ InStep(new)
  <1> DEFINE new == [row EXCEPT !.status = status, !.state = "none"]
  <1>1. new \in Rows
    BY DEF Rows, States
  <1>2. InStep(new)
    <2>1. CASE row.state = "none"
      BY <2>1 DEF Rows, InStep, AsksForDoc
    <2>2. CASE row.state # "none"
      <3>1. row.state \in States \ {"none"}
        BY <2>2 DEF Rows
      <3>2. /\ new.filled \ {"verification_strategy"} = AnswersBefore(row.state)
            /\ new.state = "none"
            /\ new.doc = row.doc
            /\ new.filled = row.filled
        BY <2>2 DEF Rows, InStep
      <3>3. row.doc # 0 => Fields = row.filled
        <4> SUFFICES ASSUME row.doc # 0 PROVE Fields = row.filled
          OBVIOUS
        <4>1. row.state = "awaiting_policy_approval"
          BY <2>2 DEF InStep
        <4>2. "verification_strategy" \in row.filled
          BY <4>1 DEF InStep, AsksForDoc
        <4>3. row.filled \ {"verification_strategy"}
                 = Fields \ {"verification_strategy"}
          BY <4>1 DEF InStep, AnswersBefore
        <4>4. "verification_strategy" \in Fields
          BY DEF Fields
        <4> QED BY <4>2, <4>3, <4>4
      <3> QED BY <3>1, <3>2, <3>3 DEF InStep, AsksForDoc
    <2> QED BY <2>1, <2>2
  <1> QED BY <1>1, <1>2

LEMMA CompleteRegistrationInStep ==
  ASSUME NEW row \in Rows, InStep(row)
  PROVE  CompleteRegistration(row) \in Rows /\ InStep(CompleteRegistration(row))
  <1>1. row.status \in Statuses
    BY DEF Rows
  <1>2. CompleteRegistration(row)
           = [row EXCEPT !.status = row.status, !.state = "none"]
    BY DEF CompleteRegistration, Rows
  <1> QED BY <1>1, <1>2, NoneInStep

LEMMA ApproveInStep ==
  ASSUME NEW row \in Rows, InStep(row)
  PROVE  Approve(row) \in Rows /\ InStep(Approve(row))
  BY NoneInStep DEF Approve, Statuses

(* The three resets: from any row at all.                                  *)
LEMMA ResetsInStep ==
  ASSUME NEW row \in Rows
  PROVE  /\ DeclinePolicy(row) \in Rows /\ InStep(DeclinePolicy(row))
         /\ RestartRegistration(row) \in Rows /\ InStep(RestartRegistration(row))
         /\ Reject(row) \in Rows /\ InStep(Reject(row))
  <1>1. DeclinePolicy(row) \in Rows /\ InStep(DeclinePolicy(row))
    BY DEF DeclinePolicy, Rows, Statuses, States, Fields, InStep,
           AnswersBefore, AsksForDoc
  <1>2. RestartRegistration(row) \in Rows /\ InStep(RestartRegistration(row))
    BY DEF RestartRegistration, Rows, Statuses, States, Fields, InStep,
           AnswersBefore, AsksForDoc
  <1>3. Reject(row) \in Rows /\ InStep(Reject(row))
    BY DEF Reject, Rows, Statuses, States, Fields, InStep, AnswersBefore,
           AsksForDoc
  <1> QED BY <1>1, <1>2, <1>3
=============================================================================
