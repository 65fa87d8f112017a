-------------------------- MODULE AsaExchange_proofs --------------------------
(***************************************************************************)
(* Safety of registration and verification, for any number of users,       *)
(* workers, moderators, posts and clicks, and every outside failure.       *)
(*                                                                         *)
(* The argument: handlers write back whole copies of a row, so a lost      *)
(* update can replace a row only by another row that some handler derived  *)
(* from a row of the same user.  `Inv` therefore asks of every copy held   *)
(* by a worker or a review what it asks of the table, and a write keeps    *)
(* it however stale the copy is.                                           *)
(***************************************************************************)
EXTENDS AsaExchange, UserRows_proofs, SequenceTheorems

-----------------------------------------------------------------------------
(* What holds of each row of user u, in the table or in a handler's hands, *)
(* given the verdicts ds, the users ts who accepted the terms and the      *)
(* posts ps.                                                               *)
Good(row, u, ds, ts, ps) ==
    /\ row \in Rows
    /\ InStep(row)
    /\ row.status # "pending" =>
          \E d \in ds : /\ d.user = u
                        /\ row.status = StatusOf(d.verdict)
                        /\ d.by \in Moderators
    /\ (row.state = "none" /\ row.status # "level_1") => u \in ts
    /\ row.doc # 0 => row.doc \in DOMAIN ps /\ ps[row.doc].user = u

\* A task or a review holds a good copy from the step that reads the row on.
TaskOK(t, rows, ds, ts, ps) ==
    /\ t \in Tasks
    /\ t.pc \in {"register", "save_doc", "policy"} => t.row # NoRow
    /\ t.row # NoRow => /\ rows[t.user] # NoRow
                        /\ Good(t.row, t.user, ds, ts, ps)

ReviewOK(r, rows, ds, ts, ps) ==
    /\ r \in Reviews
    /\ rows[r.user] # NoRow
    /\ r.pc # "check" => /\ r.row # NoRow
                         /\ r.admin \in Moderators
                         /\ Good(r.row, r.user, ds, ts, ps)

Inv ==
    /\ TypeOK
    /\ \A u \in Users : db[u] # NoRow => Good(db[u], u, decisions, terms, posts)
    /\ \A t \in tasks : TaskOK(t, db, decisions, terms, posts)
    /\ \A r \in reviews : ReviewOK(r, db, decisions, terms, posts)
    /\ \A p \in DOMAIN posts : db[posts[p].user] # NoRow
    /\ \A u \in cards : db[u] # NoRow
    /\ \A d \in decisions : \E p \in DOMAIN posts : posts[p].user = d.user
    /\ \A u \in cards : \E p \in DOMAIN posts : posts[p].user = u
    /\ \A r \in reviews : \E p \in DOMAIN posts : posts[p].user = r.user
    /\ proc # "gov_id_reply"

\* Rows, verdicts, acceptances and posts only accumulate.
Grows ==
    /\ \A u \in Users : db[u] # NoRow => db'[u] # NoRow
    /\ decisions \subseteq decisions'
    /\ terms \subseteq terms'
    /\ \A p \in DOMAIN posts : /\ p \in DOMAIN posts'
                               /\ posts'[p].user = posts[p].user

(* A row stays good while the history grows.                               *)
LEMMA GoodGrows ==
  ASSUME Grows, NEW u, NEW row, Good(row, u, decisions, terms, posts)
  PROVE  Good(row, u, decisions', terms', posts')
  BY DEF Good, Grows

(* The frame: a step keeps the invariant if the history grows, and each    *)
(* row, task, review, post, card and verdict is an old one or all right.   *)
LEMMA Frame ==
  ASSUME Inv, Grows, TypeOK', proc' # "gov_id_reply",
         \A u \in Users : db'[u] = db[u] \/ db'[u] = NoRow
                            \/ Good(db'[u], u, decisions', terms', posts'),
         \A t \in tasks' : t \in tasks
                            \/ TaskOK(t, db', decisions', terms', posts'),
         \A r \in reviews' : r \in reviews
                            \/ ( /\ ReviewOK(r, db', decisions', terms', posts')
                                 /\ \E p \in DOMAIN posts' : posts'[p].user = r.user),
         \A p \in DOMAIN posts' : p \in DOMAIN posts
                            \/ db'[posts'[p].user] # NoRow,
         \A u \in cards' : u \in cards
                            \/ ( /\ db'[u] # NoRow
                                 /\ \E p \in DOMAIN posts' : posts'[p].user = u ),
         \A d \in decisions' : d \in decisions
                            \/ \E p \in DOMAIN posts' : posts'[p].user = d.user
  PROVE  Inv'
  <1>1. \A u \in Users : db'[u] # NoRow =>
            Good(db'[u], u, decisions', terms', posts')
    <2> SUFFICES ASSUME NEW u \in Users, db'[u] # NoRow, db'[u] = db[u]
                 PROVE  Good(db'[u], u, decisions', terms', posts')
      OBVIOUS
    <2> QED BY GoodGrows DEF Inv
  <1>2. \A t \in tasks' : TaskOK(t, db', decisions', terms', posts')
    <2> SUFFICES ASSUME NEW t \in tasks
                 PROVE  TaskOK(t, db', decisions', terms', posts')
      OBVIOUS
    <2>1. t.user \in Users
      BY DEF Inv, TaskOK, Tasks
    <2>2. t.row # NoRow => /\ db'[t.user] # NoRow
                           /\ Good(t.row, t.user, decisions', terms', posts')
      BY <2>1, GoodGrows DEF Inv, TaskOK, Grows
    <2> QED BY <2>2 DEF Inv, TaskOK
  <1>3. \A r \in reviews' :
            /\ ReviewOK(r, db', decisions', terms', posts')
            /\ \E p \in DOMAIN posts' : posts'[p].user = r.user
    <2> SUFFICES ASSUME NEW r \in reviews
                 PROVE  /\ ReviewOK(r, db', decisions', terms', posts')
                        /\ \E p \in DOMAIN posts' : posts'[p].user = r.user
      OBVIOUS
    <2>1. r.user \in Users
      BY DEF Inv, ReviewOK, Reviews
    <2>2. r.pc # "check" => Good(r.row, r.user, decisions', terms', posts')
      BY GoodGrows DEF Inv, ReviewOK
    <2>3. \E p \in DOMAIN posts' : posts'[p].user = r.user
      BY DEF Inv, Grows
    <2> QED BY <2>1, <2>2, <2>3 DEF Inv, ReviewOK, Grows
  <1>4. \A p \in DOMAIN posts : posts[p].user \in Users
    <2>1. posts \in Seq(Posts)
      BY DEF Inv, TypeOK, SharedTypeOK
    <2>2. \A p \in DOMAIN posts : posts[p] \in Posts
      BY <2>1, ElementOfSeq, LenProperties
    <2> QED BY <2>2 DEF Posts
  <1>5. \A p \in DOMAIN posts' : db'[posts'[p].user] # NoRow
    BY <1>4 DEF Inv, Grows
  <1>6. \A u \in cards' : db'[u] # NoRow
    BY DEF Inv, Grows, TypeOK, ModeratorTypeOK
  <1>7. \A u \in cards' : \E p \in DOMAIN posts' : posts'[p].user = u
    BY DEF Inv, Grows
  <1>8. \A d \in decisions' : \E p \in DOMAIN posts' : posts'[p].user = d.user
    BY DEF Inv, Grows
  <1> QED BY <1>1, <1>2, <1>3, <1>5, <1>6, <1>7, <1>8 DEF Inv

-----------------------------------------------------------------------------
(* Two shapes of step that most handlers have.                             *)

(* A step that writes nothing to the table.                                *)
LEMMA QuietKeepsInv ==
  ASSUME Inv, CustomerTypeOK', ModeratorTypeOK',
         proc' \in {"up"} \cup Downs, proc' # "gov_id_reply",
         UNCHANGED <<db, posts, terms, decisions, restarts>>,
         \A t \in tasks' : t \in tasks \/ TaskOK(t, db, decisions, terms, posts),
         \A r \in reviews' : r \in reviews
                     \/ ( /\ ReviewOK(r, db, decisions, terms, posts)
                          /\ \E p \in DOMAIN posts : posts[p].user = r.user),
         cards' \subseteq cards
  PROVE  Inv'
  <1>1. Grows
    BY DEF Grows
  <1>2. TypeOK'
    BY DEF Inv, TypeOK, SharedTypeOK
  <1> QED BY <1>1, <1>2, Frame

(* A handler of the customer bot writes back a good row and ends its task. *)
LEMMA SaveKeepsInv ==
  ASSUME Inv, NEW t \in tasks, NEW row, t.row # NoRow,
         Good(row, t.user, decisions, terms', posts),
         Update(t.user, row), tasks' = tasks \ {t},
         terms \subseteq terms', CustomerTypeOK',
         proc' \in {"up"} \cup Downs, proc' # "gov_id_reply",
         UNCHANGED <<posts, moderatorVars, restarts>>
  PROVE  Inv'
  <1>1. t.user \in Users /\ row \in Rows /\ row # NoRow
    BY NoRowAssumption DEF Inv, TaskOK, Tasks, Good
  <1>2. db \in [Users -> Rows \cup {NoRow}]
    BY DEF Inv, TypeOK, SharedTypeOK
  <1>3. /\ db' \in [Users -> Rows \cup {NoRow}]
        /\ \A u \in Users : db'[u] = db[u] \/ (u = t.user /\ db'[u] = row)
    BY <1>1, <1>2 DEF Update
  <1>4. Grows
    BY <1>1, <1>3 DEF Grows, moderatorVars
  <1>5. TypeOK'
    BY <1>3 DEF Inv, TypeOK, SharedTypeOK, ModeratorTypeOK, moderatorVars
  <1>6. \A u \in Users : db'[u] = db[u]
                   \/ Good(db'[u], u, decisions', terms', posts')
    BY <1>3 DEF moderatorVars
  <1>7. /\ reviews' = reviews /\ cards' = cards /\ decisions' = decisions
        /\ posts' = posts /\ tasks' \subseteq tasks
    BY DEF moderatorVars
  <1> QED BY <1>4, <1>5, <1>6, <1>7, Frame DEF Inv

\* The copy a task holds is good, and its user is in the table.
LEMMA CopyIsGood ==
  ASSUME Inv, NEW t \in tasks, t.row # NoRow
  PROVE  /\ t \in Tasks /\ t.user \in Users /\ t.row \in Rows /\ InStep(t.row)
         /\ db[t.user] # NoRow
         /\ Good(t.row, t.user, decisions, terms, posts)
  BY DEF Inv, TaskOK, Tasks, Good

\* An answer, or a reset, derived from a good copy is good.
LEMMA AnswerIsGood ==
  ASSUME Inv, NEW t \in tasks, t.row # NoRow, NEW new \in Rows, InStep(new),
         new.status = t.row.status, new.state # "none",
         new.doc \in {0, t.row.doc}
  PROVE  Good(new, t.user, decisions, terms, posts)
  BY CopyIsGood DEF Good

\* Ending a task, and sending the policy message, keeps the types.
LEMMA FinishType ==
  ASSUME Inv, NEW t \in tasks, Finish(t), UNCHANGED <<offered, terms>>
  PROVE  CustomerTypeOK' /\ tasks' \subseteq tasks
  BY DEF Inv, TypeOK, CustomerTypeOK, Finish

LEMMA SendPolicyType ==
  ASSUME Inv, NEW u \in Users, SendPolicy(u)
  PROVE  offered' \subseteq Users
  BY DEF Inv, TypeOK, CustomerTypeOK, SendPolicy

-----------------------------------------------------------------------------
(* The customer bot, one lemma for each handler.                           *)

LEMMA ReceiveKeepsInv ==
  ASSUME Inv, NEW w \in Workers, NEW u \in Users, NEW x \in Inputs,
         Receive(w, u, x), UNCHANGED <<moderatorVars, restarts>>
  PROVE  Inv'
  <1> DEFINE new == [worker |-> w, user |-> u, input |-> x, pc |-> "route",
                     row |-> NoRow]
  <1>1. new \in Tasks
    BY DEF Tasks
  <1>2. TaskOK(new, db, decisions, terms, posts)
    BY <1>1 DEF TaskOK
  <1>3. tasks' = tasks \cup {new}
    BY DEF Receive
  <1>4. CustomerTypeOK'
    BY <1>1, <1>3 DEF Receive, Quiet, Inv, TypeOK, CustomerTypeOK
  <1> HIDE DEF new
  <1> QED
    BY <1>2, <1>3, <1>4, QuietKeepsInv
    DEF Receive, Quiet, sharedVars, moderatorVars, Inv, TypeOK, SharedTypeOK,
        ModeratorTypeOK

LEMMA FinishKeepsInv ==
  ASSUME Inv, NEW t \in tasks, Finish(t), Quiet,
         UNCHANGED <<moderatorVars, restarts>>
  PROVE  Inv'
  <1>1. CustomerTypeOK' /\ tasks' \subseteq tasks
    BY FinishType DEF Quiet
  <1> QED
    BY <1>1, QuietKeepsInv
    DEF Quiet, sharedVars, moderatorVars, Inv, TypeOK, SharedTypeOK,
        ModeratorTypeOK

LEMMA RouteKeepsInv ==
  ASSUME Inv, NEW t \in tasks, Route(t), UNCHANGED <<moderatorVars, restarts>>
  PROVE  Inv'
  <1>1. CASE Finish(t)
    BY <1>1, FinishKeepsInv DEF Route
  <1>2. CASE \E pc \in {"start", "policy", "register"} :
                /\ pc # "start" => db[t.user] # NoRow
                /\ Continue(t, [t EXCEPT !.pc = pc, !.row = db[t.user]])
    <2> PICK pc \in {"start", "policy", "register"} :
                /\ pc # "start" => db[t.user] # NoRow
                /\ Continue(t, [t EXCEPT !.pc = pc, !.row = db[t.user]])
      BY <1>2
    <2> DEFINE new == [t EXCEPT !.pc = pc, !.row = db[t.user]]
    <2>1. t \in Tasks /\ t.user \in Users
      BY DEF Inv, TaskOK, Tasks
    <2>2. db[t.user] \in Rows \cup {NoRow}
      BY <2>1 DEF Inv, TypeOK, SharedTypeOK
    <2>3. new \in Tasks /\ new.pc = pc /\ new.row = db[t.user] /\ new.user = t.user
      BY <2>1, <2>2 DEF Tasks
    <2>4. TaskOK(new, db, decisions, terms, posts)
      BY <2>1, <2>3 DEF TaskOK, Inv
    <2>5. tasks' = (tasks \ {t}) \cup {new}
      BY DEF Continue
    <2>6. CustomerTypeOK'
      BY <2>3, <2>5 DEF Route, Quiet, Inv, TypeOK, CustomerTypeOK
    <2> HIDE DEF new
    <2> QED
      BY <2>4, <2>5, <2>6, QuietKeepsInv
      DEF Route, Quiet, sharedVars, moderatorVars, Inv, TypeOK, SharedTypeOK,
          ModeratorTypeOK
  <1> QED BY <1>1, <1>2 DEF Route

LEMMA StartNewUserKeepsInv ==
  ASSUME Inv, NEW t \in tasks, StartNewUser(t),
         UNCHANGED <<moderatorVars, restarts>>
  PROVE  Inv'
  <1>1. NewUser \in Rows /\ InStep(NewUser) /\ NewUser # NoRow
    BY NewUserInStep, NoRowAssumption
  <1>2. t.user \in Users
    BY DEF Inv, TaskOK, Tasks
  <1>3. Good(NewUser, t.user, decisions, terms, posts)
    BY <1>1 DEF Good, NewUser
  <1>4. CustomerTypeOK' /\ tasks' \subseteq tasks
    BY FinishType DEF StartNewUser
  <1>5. db \in [Users -> Rows \cup {NoRow}]
    BY DEF Inv, TypeOK, SharedTypeOK
  <1>6. /\ db' \in [Users -> Rows \cup {NoRow}]
        /\ \A u \in Users : db'[u] = db[u]
                         \/ (db[u] = NoRow /\ u = t.user /\ db'[u] = NewUser)
    BY <1>1, <1>2, <1>5 DEF StartNewUser, Create
  <1>7. Grows
    BY <1>6 DEF Grows, StartNewUser, moderatorVars
  <1>8. TypeOK'
    BY <1>4, <1>6 DEF Inv, TypeOK, SharedTypeOK, ModeratorTypeOK,
                      StartNewUser, moderatorVars
  <1>9. \A u \in Users : db'[u] = db[u]
                   \/ Good(db'[u], u, decisions', terms', posts')
    BY <1>3, <1>6 DEF StartNewUser, moderatorVars
  <1>10. /\ reviews' = reviews /\ cards' = cards /\ decisions' = decisions
         /\ posts' = posts /\ proc' = proc
    BY DEF moderatorVars, StartNewUser
  <1> QED BY <1>4, <1>7, <1>8, <1>9, <1>10, Frame DEF Inv

LEMMA StartRejectedKeepsInv ==
  ASSUME Inv, NEW t \in tasks, StartRejected(t),
         UNCHANGED <<moderatorVars, restarts>>
  PROVE  Inv'
  <1> DEFINE new == RestartRegistration(t.row)
  <1>1. t.row # NoRow /\ t.row \in Rows
    BY CopyIsGood DEF StartRejected
  <1>2. new \in Rows /\ InStep(new)
    BY <1>1, ResetsInStep
  <1>3. /\ new.status = "pending" /\ new.state = "awaiting_first_name"
        /\ new.doc = 0
    BY <1>1 DEF RestartRegistration, Rows
  <1>4. Good(new, t.user, decisions, terms, posts)
    BY <1>2, <1>3 DEF Good
  <1>5. CustomerTypeOK'
    BY FinishType DEF StartRejected
  <1> HIDE DEF new
  <1> QED
    BY <1>1, <1>4, <1>5, SaveKeepsInv
    DEF StartRejected, Finish, Inv, TypeOK, SharedTypeOK, new

LEMMA StartVerifiedKeepsInv ==
  ASSUME Inv, NEW t \in tasks, StartVerified(t),
         UNCHANGED <<moderatorVars, restarts>>
  PROVE  Inv'
  <1>1. CustomerTypeOK' /\ tasks' \subseteq tasks
    BY FinishType DEF StartVerified
  <1>2. proc' \in {"up"} \cup Downs /\ proc' # "gov_id_reply"
    BY DEF StartVerified, Inv, TypeOK, SharedTypeOK, Downs, PanicSites
  <1> QED
    BY <1>1, <1>2, QuietKeepsInv
    DEF StartVerified, moderatorVars, Inv, TypeOK, ModeratorTypeOK

\* The five steps that store an answer given as text or contact, and the
\* decline of the policy.
LEMMA StoreAnswerKeepsInv ==
  ASSUME Inv, NEW t \in tasks, NEW new \in Rows, t.row # NoRow, InStep(new),
         new.status = t.row.status, new.state # "none", new.doc \in {0, t.row.doc},
         Save(t, new), UNCHANGED proc, UNCHANGED <<moderatorVars, restarts>>
  PROVE  Inv'
  <1>1. Good(new, t.user, decisions, terms, posts)
    BY AnswerIsGood
  <1>2. CustomerTypeOK'
    BY FinishType DEF Save
  <1> QED
    BY <1>1, <1>2, SaveKeepsInv DEF Save, Finish, Inv, TypeOK, SharedTypeOK

LEMMA AnswersKeepInv ==
  ASSUME Inv, NEW t \in tasks, UNCHANGED <<moderatorVars, restarts>>,
         \/ HandleFirstName(t) \/ HandleLastName(t) \/ HandlePhoneNumber(t)
         \/ HandleGovID(t) \/ HandleLocation(t)
  PROVE  Inv'
  <1>1. t.pc = "register"
    BY DEF HandleFirstName, HandleLastName, HandlePhoneNumber, HandleGovID,
           HandleLocation, Registers
  <1>2. t.row # NoRow /\ t.row \in Rows /\ InStep(t.row)
    BY <1>1, CopyIsGood DEF Inv, TaskOK
  <1>3. CASE HandleFirstName(t)
    <2>1. t.row.state = "awaiting_first_name"
      BY <1>3 DEF HandleFirstName, Registers
    <2>2. LET new == TakeFirstName(t.row)
          IN  /\ new \in Rows /\ InStep(new) /\ new.status = t.row.status
              /\ new.state # "none" /\ new.doc = t.row.doc
      BY <1>2, <2>1, TakeFirstNameInStep DEF TakeFirstName, Answer, Rows
    <2> QED BY <1>2, <1>3, <2>2, StoreAnswerKeepsInv DEF HandleFirstName
  <1>4. CASE HandleLastName(t)
    <2>1. t.row.state = "awaiting_last_name"
      BY <1>4 DEF HandleLastName, Registers
    <2>2. LET new == TakeLastName(t.row)
          IN  /\ new \in Rows /\ InStep(new) /\ new.status = t.row.status
              /\ new.state # "none" /\ new.doc = t.row.doc
      BY <1>2, <2>1, TakeLastNameInStep DEF TakeLastName, Answer, Rows
    <2> QED BY <1>2, <1>4, <2>2, StoreAnswerKeepsInv DEF HandleLastName
  <1>5. CASE HandlePhoneNumber(t)
    <2>1. t.row.state = "awaiting_phone_number"
      BY <1>5 DEF HandlePhoneNumber, Registers
    <2>2. LET new == TakePhoneNumber(t.row)
          IN  /\ new \in Rows /\ InStep(new) /\ new.status = t.row.status
              /\ new.state # "none" /\ new.doc = t.row.doc
      BY <1>2, <2>1, TakePhoneNumberInStep DEF TakePhoneNumber, Answer, Rows
    <2> QED BY <1>2, <1>5, <2>2, StoreAnswerKeepsInv DEF HandlePhoneNumber
  <1>6. CASE HandleGovID(t)
    <2>1. t.row.state = "awaiting_gov_id"
      BY <1>6 DEF HandleGovID, Registers
    <2>2. LET new == TakeGovID(t.row)
          IN  /\ new \in Rows /\ InStep(new) /\ new.status = t.row.status
              /\ new.state # "none" /\ new.doc = t.row.doc
      BY <1>2, <2>1, TakeGovIDInStep DEF TakeGovID, Answer, Rows
    <2>3. "first_name" \in t.row.filled
      BY <1>2, <2>1 DEF InStep, AnswersBefore
    <2>4. UNCHANGED proc
      BY <1>6, <2>3 DEF HandleGovID
    <2> QED BY <1>2, <1>6, <2>2, <2>4, StoreAnswerKeepsInv DEF HandleGovID
  <1>7. CASE HandleLocation(t)
    <2>1. t.row.state = "awaiting_location"
      BY <1>7 DEF HandleLocation, Registers
    <2>2. LET new == TakeLocation(t.row)
          IN  /\ new \in Rows /\ InStep(new) /\ new.status = t.row.status
              /\ new.state # "none" /\ new.doc = t.row.doc
      BY <1>2, <2>1, TakeLocationInStep DEF TakeLocation, Answer, Rows
    <2> QED BY <1>2, <1>7, <2>2, StoreAnswerKeepsInv DEF HandleLocation
  <1> QED BY <1>3, <1>4, <1>5, <1>6, <1>7

\* What a new post adds to the channel.
LEMMA NewPost ==
  ASSUME Inv, NEW u \in Users, PublishUpload(u)
  PROVE  /\ posts' \in Seq(Posts)
         /\ NextRef \in Nat \ {0}
         /\ DOMAIN posts' = (DOMAIN posts) \cup {NextRef}
         /\ posts'[NextRef].user = u
         /\ \A p \in DOMAIN posts : posts'[p] = posts[p]
  <1>1. posts \in Seq(Posts)
    BY DEF Inv, TypeOK, SharedTypeOK
  <1>2. [user |-> u, st |-> "queued", confirmed |-> FALSE] \in Posts
    BY DEF Posts, PostStates
  <1> QED BY <1>1, <1>2, AppendProperties, LenProperties
          DEF PublishUpload, NextRef

LEMMA PublishDocKeepsInv ==
  ASSUME Inv, NEW t \in tasks, PublishDoc(t),
         UNCHANGED <<moderatorVars, restarts>>
  PROVE  Inv'
  <1> DEFINE row == TakeIdentityDoc(t.row, NextRef)
             new == [t EXCEPT !.pc = "save_doc", !.row = row]
  <1>1. t.row # NoRow /\ t.row.state = "awaiting_identity_doc"
    BY DEF PublishDoc, Registers, Inv, TaskOK
  <1>2. /\ t \in Tasks /\ t.user \in Users /\ t.row \in Rows /\ InStep(t.row)
        /\ db[t.user] # NoRow
        /\ Good(t.row, t.user, decisions, terms, posts)
    BY <1>1, CopyIsGood
  <1>3. /\ posts' \in Seq(Posts)
        /\ NextRef \in Nat \ {0}
        /\ DOMAIN posts' = (DOMAIN posts) \cup {NextRef}
        /\ posts'[NextRef].user = t.user
        /\ \A p \in DOMAIN posts : posts'[p] = posts[p]
    BY <1>2, NewPost DEF PublishDoc
  <1>4. /\ row \in Rows /\ InStep(row)
        /\ row.status = t.row.status /\ row.state = "awaiting_policy_approval"
        /\ row.doc = NextRef
    BY <1>1, <1>2, <1>3, TakeIdentityDocInStep DEF TakeIdentityDoc, Rows
  <1>5. Good(row, t.user, decisions, terms, posts')
    BY <1>2, <1>3, <1>4 DEF Good
  <1>6. /\ new \in Tasks /\ new.pc = "save_doc" /\ new.row = row
        /\ new.user = t.user
    BY <1>2, <1>4 DEF Tasks
  <1>7. row # NoRow
    BY <1>4, NoRowAssumption
  <1>8. TaskOK(new, db, decisions, terms, posts')
    BY <1>2, <1>5, <1>6, <1>7 DEF TaskOK
  <1>9. tasks' \subseteq tasks \cup {new}
    BY DEF PublishDoc, Continue, Finish
  <1>10. CustomerTypeOK'
    BY <1>6, <1>9 DEF PublishDoc, Inv, TypeOK, CustomerTypeOK
  <1>11. TypeOK'
    BY <1>3, <1>10 DEF PublishDoc, Inv, TypeOK, SharedTypeOK, ModeratorTypeOK,
                       moderatorVars
  <1>12. Grows
    BY <1>3 DEF Grows, PublishDoc, moderatorVars
  <1>13. /\ db' = db /\ proc' = proc /\ terms' = terms /\ decisions' = decisions
         /\ reviews' = reviews /\ cards' = cards
    BY DEF PublishDoc, moderatorVars
  <1> HIDE DEF new, row
  <1>14. \A p \in DOMAIN posts' : p \in DOMAIN posts \/ db'[posts'[p].user] # NoRow
    BY <1>2, <1>3, <1>13
  <1> QED BY <1>8, <1>9, <1>11, <1>12, <1>13, <1>14, Frame DEF Inv

LEMMA SaveDocKeepsInv ==
  ASSUME Inv, NEW t \in tasks, SaveDoc(t), UNCHANGED <<moderatorVars, restarts>>
  PROVE  Inv'
  <1>1. t.row # NoRow
    BY DEF SaveDoc, Inv, TaskOK
  <1>2. t.user \in Users /\ Good(t.row, t.user, decisions, terms, posts)
    BY <1>1, CopyIsGood
  <1>3. CustomerTypeOK'
    BY <1>2, SendPolicyType
    DEF SaveDoc, Finish, Inv, TypeOK, CustomerTypeOK
  <1> QED
    BY <1>1, <1>2, <1>3, SaveKeepsInv
    DEF SaveDoc, Finish, Inv, TypeOK, SharedTypeOK

LEMMA HandlePolicyApprovalKeepsInv ==
  ASSUME Inv, NEW t \in tasks, HandlePolicyApproval(t),
         UNCHANGED <<moderatorVars, restarts>>
  PROVE  Inv'
  <1>1. t.user \in Users
    BY DEF Inv, TaskOK, Tasks
  <1>2. CustomerTypeOK' /\ tasks' \subseteq tasks
    BY <1>1, SendPolicyType
    DEF HandlePolicyApproval, Finish, Inv, TypeOK, CustomerTypeOK
  <1> QED
    BY <1>2, QuietKeepsInv
    DEF HandlePolicyApproval, sharedVars, moderatorVars, Inv, TypeOK,
        SharedTypeOK, ModeratorTypeOK

LEMMA AcceptPolicyKeepsInv ==
  ASSUME Inv, NEW t \in tasks, AcceptPolicy(t),
         UNCHANGED <<moderatorVars, restarts>>
  PROVE  Inv'
  <1> DEFINE new == CompleteRegistration(t.row)
  <1>1. t.row # NoRow
    BY DEF AcceptPolicy, Inv, TaskOK
  <1>2. /\ t.user \in Users /\ t.row \in Rows /\ InStep(t.row)
        /\ Good(t.row, t.user, decisions, terms, posts)
    BY <1>1, CopyIsGood
  <1>3. /\ new \in Rows /\ InStep(new)
        /\ new.status = t.row.status /\ new.doc = t.row.doc
    BY <1>2, CompleteRegistrationInStep DEF CompleteRegistration, Rows
  <1>4. terms' = terms \cup {t.user}
    BY DEF AcceptPolicy
  <1>5. Good(new, t.user, decisions, terms', posts)
    BY <1>2, <1>3, <1>4 DEF Good
  <1>7. CustomerTypeOK'
    BY <1>2, <1>4 DEF AcceptPolicy, Finish, Inv, TypeOK, CustomerTypeOK
  <1>8. proc' \in {"up"} \cup Downs /\ proc' # "gov_id_reply"
    BY DEF AcceptPolicy, Inv, TypeOK, SharedTypeOK, Downs, PanicSites
  <1> HIDE DEF new
  <1> QED
    BY <1>1, <1>4, <1>5, <1>7, <1>8, SaveKeepsInv
    DEF AcceptPolicy, Finish, new

LEMMA RefusePolicyKeepsInv ==
  ASSUME Inv, NEW t \in tasks, RefusePolicy(t),
         UNCHANGED <<moderatorVars, restarts>>
  PROVE  Inv'
  <1> DEFINE new == DeclinePolicy(t.row)
  <1>1. t.row # NoRow
    BY DEF RefusePolicy, Inv, TaskOK
  <1>2. t.user \in Users /\ t.row \in Rows
    BY <1>1, CopyIsGood
  <1>3. /\ new \in Rows /\ InStep(new) /\ new.status = t.row.status
        /\ new.state = "awaiting_first_name" /\ new.doc = 0
    BY <1>2, ResetsInStep DEF DeclinePolicy, Rows
  <1>4. Good(new, t.user, decisions, terms, posts)
    BY <1>1, <1>3, AnswerIsGood
  <1> HIDE DEF new
  <1> QED BY <1>1, <1>3, StoreAnswerKeepsInv DEF RefusePolicy, new

LEMMA CustomerNextKeepsInv ==
  ASSUME Inv, CustomerNext, UNCHANGED <<moderatorVars, restarts>>
  PROVE  Inv'
  <1>1. CASE \E w \in Workers, u \in Users, x \in Inputs : Receive(w, u, x)
    BY <1>1, ReceiveKeepsInv DEF CustomerNext
  <1>2. CASE \E t \in tasks : Handle(t) \/ GiveUp(t)
    <2> PICK t \in tasks : Handle(t) \/ GiveUp(t)
      BY <1>2
    <2>1. CASE GiveUp(t) \/ StartPending(t) \/ AskAgain(t)
      BY <2>1, FinishKeepsInv DEF GiveUp, StartPending, AskAgain
    <2>2. CASE Route(t)
      BY <2>2, RouteKeepsInv
    <2>3. CASE StartNewUser(t)
      BY <2>3, StartNewUserKeepsInv
    <2>4. CASE StartRejected(t)
      BY <2>4, StartRejectedKeepsInv
    <2>5. CASE StartVerified(t)
      BY <2>5, StartVerifiedKeepsInv
    <2>6. CASE \/ HandleFirstName(t) \/ HandleLastName(t)
               \/ HandlePhoneNumber(t) \/ HandleGovID(t) \/ HandleLocation(t)
      BY <2>6, AnswersKeepInv
    <2>7. CASE PublishDoc(t)
      BY <2>7, PublishDocKeepsInv
    <2>8. CASE SaveDoc(t)
      BY <2>8, SaveDocKeepsInv
    <2>9. CASE HandlePolicyApproval(t)
      BY <2>9, HandlePolicyApprovalKeepsInv
    <2>10. CASE AcceptPolicy(t)
      BY <2>10, AcceptPolicyKeepsInv
    <2>11. CASE RefusePolicy(t)
      BY <2>11, RefusePolicyKeepsInv
    <2> QED
      BY <2>1, <2>2, <2>3, <2>4, <2>5, <2>6, <2>7, <2>8, <2>9, <2>10, <2>11
      DEF Handle
  <1> QED BY <1>1, <1>2 DEF CustomerNext

-----------------------------------------------------------------------------
(* The moderator bot.                                                      *)

\* A post changes its progress, never its user.
LEMMA PostsStep ==
  ASSUME Inv, NEW post \in Posts, NEW p \in DOMAIN posts,
         post.user = posts[p].user, posts' = [posts EXCEPT ![p] = post]
  PROVE  /\ posts' \in Seq(Posts)
         /\ DOMAIN posts' = DOMAIN posts
         /\ \A q \in DOMAIN posts : posts'[q].user = posts[q].user
  <1>1. posts \in Seq(Posts)
    BY DEF Inv, TypeOK, SharedTypeOK
  <1> QED BY <1>1, ExceptSeq, LenProperties

\* A step of the queue that sends no card.
LEMMA QueueStepKeepsInv ==
  ASSUME Inv, NEW p \in DOMAIN posts, UNCHANGED <<customerVars, restarts>>,
         Deliver(p) \/ Confirm(p) \/ ForwardFails(p)
  PROVE  Inv'
  <1>1. PICK post \in Posts : /\ post.user = posts[p].user
                              /\ posts' = [posts EXCEPT ![p] = post]
    <2>1. posts[p] \in Posts
      <3>1. posts \in Seq(Posts)
        BY DEF Inv, TypeOK, SharedTypeOK
      <3> QED BY <3>1, ElementOfSeq, LenProperties
    <2>2. \A c \in BOOLEAN :
             /\ [posts[p] EXCEPT !.confirmed = c] \in Posts
             /\ [posts[p] EXCEPT !.confirmed = c].user = posts[p].user
      BY <2>1 DEF Posts
    <2>3. CASE Deliver(p)
      <3>1. posts' = [posts EXCEPT ![p] = [posts[p] EXCEPT !.st = "forwarding"]]
        BY <2>3 DEF Deliver
      <3> DEFINE post == [posts[p] EXCEPT !.st = "forwarding"]
      <3>2. post \in Posts /\ post.user = posts[p].user
        BY <2>1 DEF Posts, PostStates
      <3>3. posts' = [posts EXCEPT ![p] = post]
        BY <3>1
      <3> HIDE DEF post
      <3> QED BY <3>2, <3>3
    <2>4. CASE Confirm(p)
      <3>1. posts' = [posts EXCEPT ![p] = [posts[p] EXCEPT !.confirmed = TRUE]]
        BY <2>4 DEF Confirm
      <3> QED BY <2>2, <3>1
    <2>5. CASE ForwardFails(p)
      <3>1. posts' = [posts EXCEPT ![p] = [posts[p] EXCEPT !.st = "lost"]]
        BY <2>5 DEF ForwardFails
      <3> DEFINE post == [posts[p] EXCEPT !.st = "lost"]
      <3>2. post \in Posts /\ post.user = posts[p].user
        BY <2>1 DEF Posts, PostStates
      <3>3. posts' = [posts EXCEPT ![p] = post]
        BY <3>1
      <3> HIDE DEF post
      <3> QED BY <3>2, <3>3
    <2> QED BY <2>3, <2>4, <2>5
  <1>2. /\ posts' \in Seq(Posts)
        /\ DOMAIN posts' = DOMAIN posts
        /\ \A q \in DOMAIN posts : posts'[q].user = posts[q].user
    BY <1>1, PostsStep
  <1>3. /\ db' = db /\ proc' = proc /\ terms' = terms /\ decisions' = decisions
        /\ reviews' = reviews /\ cards' = cards /\ tasks' = tasks
    BY DEF Deliver, Confirm, ForwardFails, moderatorVars, customerVars
  <1>4. Grows
    BY <1>2, <1>3 DEF Grows
  <1>5. TypeOK'
    BY <1>2, <1>3 DEF Deliver, Confirm, ForwardFails, moderatorVars,
        customerVars, Inv, TypeOK, SharedTypeOK, CustomerTypeOK, ModeratorTypeOK
  <1> QED BY <1>2, <1>3, <1>4, <1>5, Frame DEF Inv

LEMMA ForwardKeepsInv ==
  ASSUME Inv, NEW p \in DOMAIN posts, Forward(p),
         UNCHANGED <<customerVars, restarts>>
  PROVE  Inv'
  <1> DEFINE post == [posts[p] EXCEPT !.st = "forwarded"]
             user == posts[p].user
  <1>1. posts \in Seq(Posts)
    BY DEF Inv, TypeOK, SharedTypeOK
  <1>2. posts[p] \in Posts
    BY <1>1, ElementOfSeq, LenProperties
  <1>3. post \in Posts /\ post.user = posts[p].user /\ user \in Users
    BY <1>2 DEF Posts, PostStates
  <1>4. posts' = [posts EXCEPT ![p] = post] /\ cards' = cards \cup {user}
    BY DEF Forward
  <1> HIDE DEF post
  <1>6. /\ posts' \in Seq(Posts)
        /\ DOMAIN posts' = DOMAIN posts
        /\ \A q \in DOMAIN posts : posts'[q].user = posts[q].user
    BY <1>3, <1>4, PostsStep
  <1>8. /\ db' = db /\ proc' = proc /\ terms' = terms /\ decisions' = decisions
        /\ reviews' = reviews /\ tasks' = tasks
    BY DEF Forward, customerVars
  <1>9. Grows
    BY <1>6, <1>8 DEF Grows
  <1>10. TypeOK'
    BY <1>3, <1>4, <1>6, <1>8 DEF Forward, customerVars, Inv, TypeOK,
        SharedTypeOK, CustomerTypeOK, ModeratorTypeOK
  <1>11. db'[user] # NoRow
    BY <1>8 DEF Inv
  <1>12. \E q \in DOMAIN posts' : posts'[q].user = user
    BY <1>6
  <1>13. proc' # "gov_id_reply"
    BY <1>8 DEF Inv
  <1> HIDE DEF user
  <1>14. \A u \in cards' : u \in cards
                         \/ ( /\ db'[u] # NoRow
                              /\ \E q \in DOMAIN posts' : posts'[q].user = u )
    BY <1>4, <1>11, <1>12
  <1> QED BY <1>6, <1>8, <1>9, <1>10, <1>13, <1>14, Frame

LEMMA ClickKeepsInv ==
  ASSUME Inv, NEW a \in Admins, NEW u \in cards, NEW v \in Verdicts,
         Click(a, u, v), UNCHANGED <<customerVars, restarts>>
  PROVE  Inv'
  <1> DEFINE new == [id |-> clicks + 1, admin |-> a, user |-> u, verdict |-> v,
                     pc |-> "check", row |-> NoRow]
  <1>1. cards \subseteq Users /\ clicks \in 0..MaxClicks
    BY DEF Inv, TypeOK, ModeratorTypeOK
  <1>3. clicks + 1 \in Clicks
    BY <1>1, MaxClicksAssumption DEF Click, Clicks
  <1>4. new \in Reviews
    BY <1>1, <1>3, VerdictsAssumption DEF Reviews
  <1>5. ReviewOK(new, db, decisions, terms, posts)
    BY <1>4 DEF ReviewOK, Inv
  <1>6. \E p \in DOMAIN posts : posts[p].user = new.user
    BY DEF Inv
  <1>7. reviews' = reviews \cup {new} /\ clicks' = clicks + 1
    BY DEF Click
  <1>8. ModeratorTypeOK'
    BY <1>1, <1>3, <1>4, <1>7, MaxClicksAssumption
    DEF Click, Clicks, Inv, TypeOK, ModeratorTypeOK
  <1> HIDE DEF new
  <1> QED
    BY <1>5, <1>6, <1>7, <1>8, QuietKeepsInv
    DEF Click, sharedVars, customerVars, Inv, TypeOK, SharedTypeOK,
        CustomerTypeOK

\* A step of a review that writes nothing to the table.
LEMMA ReviewStepKeepsInv ==
  ASSUME Inv, UNCHANGED <<sharedVars, customerVars, restarts>>,
         UNCHANGED <<clicks, decisions>>,
         events' \subseteq Clicks, notified' \subseteq Clicks,
         cards' = cards,
         \A r \in reviews' : r \in reviews
                     \/ ( /\ ReviewOK(r, db, decisions, terms, posts)
                          /\ \E p \in DOMAIN posts : posts[p].user = r.user)
  PROVE  Inv'
  <1>1. reviews' \subseteq Reviews
    BY DEF ReviewOK, Inv, TypeOK, ModeratorTypeOK
  <1>2. ModeratorTypeOK'
    BY <1>1 DEF Inv, TypeOK, ModeratorTypeOK
  <1> QED
    BY <1>2, QuietKeepsInv
    DEF sharedVars, customerVars, Inv, TypeOK, SharedTypeOK, CustomerTypeOK

LEMMA CheckModeratorKeepsInv ==
  ASSUME Inv, NEW r \in reviews, CheckModerator(r),
         UNCHANGED <<customerVars, restarts>>
  PROVE  Inv'
  <1> DEFINE new == [r EXCEPT !.pc = "decide", !.row = db[r.user]]
  <1>1. /\ UNCHANGED <<sharedVars, clicks, decisions>>
        /\ cards' = cards /\ events' = events /\ notified' = notified
    BY DEF CheckModerator
  <1>2. events \subseteq Clicks /\ notified \subseteq Clicks
    BY DEF Inv, TypeOK, ModeratorTypeOK
  <1>3. CASE EndReview(r)
    BY <1>1, <1>2, <1>3, ReviewStepKeepsInv DEF EndReview
  <1>4. CASE r.admin \in Moderators /\ ContinueReview(r, new)
    <2>1. r \in Reviews /\ r.user \in Users /\ db[r.user] # NoRow
      BY DEF Inv, ReviewOK, Reviews
    <2>2. db[r.user] \in Rows /\ Good(db[r.user], r.user, decisions, terms, posts)
      BY <2>1 DEF Inv, Good
    <2>3. /\ new \in Reviews /\ new.user = r.user /\ new.admin = r.admin
          /\ new.row = db[r.user]
      BY <2>1, <2>2 DEF Reviews
    <2>4. ReviewOK(new, db, decisions, terms, posts)
      BY <1>4, <2>1, <2>2, <2>3 DEF ReviewOK
    <2>5. \E p \in DOMAIN posts : posts[p].user = new.user
      BY <2>3 DEF Inv
    <2>6. reviews' = (reviews \ {r}) \cup {new}
      BY <1>4 DEF ContinueReview
    <2> HIDE DEF new
    <2> QED BY <1>1, <1>2, <2>4, <2>5, <2>6, ReviewStepKeepsInv
  <1> QED BY <1>3, <1>4 DEF CheckModerator

LEMMA DecideKeepsInv ==
  ASSUME Inv, NEW r \in reviews, Decide(r), UNCHANGED <<customerVars, restarts>>
  PROVE  Inv'
  <1> DEFINE row == Verdict(r.row, r.verdict)
             new == [r EXCEPT !.pc = "publish", !.row = row]
             d == [id |-> r.id, user |-> r.user, verdict |-> r.verdict,
                   by |-> r.admin]
  <1>1. /\ r \in Reviews /\ r.user \in Users /\ db[r.user] # NoRow
        /\ r.admin \in Moderators /\ Good(r.row, r.user, decisions, terms, posts)
        /\ r.verdict \in {"accept", "reject"}
    BY DEF Decide, Inv, ReviewOK, Reviews
  <1>2. r.row \in Rows /\ InStep(r.row)
    BY <1>1 DEF Good
  <1>3. /\ row \in Rows /\ InStep(row)
        /\ row.status = StatusOf(r.verdict)
        /\ row.state = "none" => row.status = "level_1"
        /\ row.doc \in {0, r.row.doc}
    <2>1. CASE r.verdict = "accept"
      <3>1. row = Approve(r.row)
        BY <2>1 DEF Verdict
      <3>2. Approve(r.row) \in Rows /\ InStep(Approve(r.row))
        BY <1>2, ApproveInStep
      <3> QED BY <1>2, <2>1, <3>1, <3>2 DEF Approve, Rows, StatusOf
    <2>2. CASE r.verdict = "reject"
      <3>1. row = Reject(r.row)
        BY <2>2 DEF Verdict
      <3>2. Reject(r.row) \in Rows /\ InStep(Reject(r.row))
        BY <1>2, ResetsInStep
      <3> QED BY <1>2, <2>2, <3>1, <3>2 DEF Reject, Rows, StatusOf
    <2> QED BY <1>1, <2>1, <2>2
  <1>4. d \in Decisions
    BY <1>1 DEF Decisions, Reviews
  <1>5. decisions' = decisions \cup {d}
    BY DEF Decide
  <1>6. Good(row, r.user, decisions', terms, posts)
    <2>1. /\ d \in decisions' /\ d.user = r.user /\ d.by \in Moderators
          /\ row.status = StatusOf(d.verdict)
      BY <1>1, <1>3, <1>5
    <2>2. row.doc # 0 => row.doc \in DOMAIN posts /\ posts[row.doc].user = r.user
      BY <1>1, <1>3 DEF Good
    <2> HIDE DEF row, d
    <2> QED BY <1>3, <2>1, <2>2 DEF Good
  <1>7. row # NoRow
    BY <1>3, NoRowAssumption
  <1>8. /\ new \in Reviews /\ new.user = r.user /\ new.admin = r.admin
        /\ new.row = row
    BY <1>1, <1>3 DEF Reviews
  <1>9. db' = [db EXCEPT ![r.user] = row]
    BY DEF Decide, Update
  <1>10. reviews' \subseteq reviews \cup {new}
    BY DEF Decide, ContinueReview, EndReview
  <1>11. /\ posts' = posts /\ proc' = proc /\ terms' = terms /\ tasks' = tasks
         /\ cards' = cards /\ offered' = offered /\ clicks' = clicks
         /\ events' = events /\ notified' = notified /\ restarts' = restarts
    BY DEF Decide, customerVars
  <1>12. d.user = r.user
    OBVIOUS
  <1> HIDE DEF row, new, d
  <1>13. db \in [Users -> Rows \cup {NoRow}]
    BY DEF Inv, TypeOK, SharedTypeOK
  <1>14. /\ db' \in [Users -> Rows \cup {NoRow}]
         /\ \A u \in Users : db'[u] = db[u] \/ (u = r.user /\ db'[u] = row)
    BY <1>1, <1>3, <1>9, <1>13
  <1>15. Grows
    BY <1>5, <1>7, <1>11, <1>14 DEF Grows
  <1>16. TypeOK'
    BY <1>4, <1>5, <1>8, <1>10, <1>11, <1>14
    DEF Inv, TypeOK, SharedTypeOK, CustomerTypeOK, ModeratorTypeOK
  <1>17. db'[r.user] # NoRow
    BY <1>1, <1>15 DEF Grows
  <1>18. /\ ReviewOK(new, db', decisions', terms', posts')
         /\ \E p \in DOMAIN posts' : posts'[p].user = new.user
    BY <1>1, <1>6, <1>7, <1>8, <1>11, <1>17 DEF ReviewOK, Inv
  <1>19. \A u \in Users : db'[u] = db[u]
                    \/ Good(db'[u], u, decisions', terms', posts')
    BY <1>6, <1>11, <1>14
  <1>20. \E p \in DOMAIN posts' : posts'[p].user = d.user
    BY <1>11, <1>12 DEF Inv
  <1> QED
    BY <1>5, <1>10, <1>11, <1>15, <1>16, <1>18, <1>19, <1>20, Frame DEF Inv

LEMMA PublishDecisionKeepsInv ==
  ASSUME Inv, NEW r \in reviews, PublishDecision(r),
         UNCHANGED <<customerVars, restarts>>
  PROVE  Inv'
  <1> DEFINE new == [r EXCEPT !.pc = "edit"]
  <1>1. /\ r \in Reviews /\ r.pc = "publish"
        /\ ReviewOK(r, db, decisions, terms, posts)
    BY DEF PublishDecision, Inv, ReviewOK
  <1>2. /\ new \in Reviews /\ new.user = r.user /\ new.admin = r.admin
        /\ new.row = r.row /\ r.id \in Clicks
    BY <1>1 DEF Reviews
  <1>3. ReviewOK(new, db, decisions, terms, posts)
    BY <1>1, <1>2 DEF ReviewOK
  <1>4. \E p \in DOMAIN posts : posts[p].user = new.user
    BY <1>2 DEF Inv
  <1>5. reviews' = (reviews \ {r}) \cup {new}
    BY DEF PublishDecision, ContinueReview
  <1>6. events' \subseteq Clicks /\ notified' \subseteq Clicks
    BY <1>2 DEF PublishDecision, Inv, TypeOK, ModeratorTypeOK
  <1> HIDE DEF new
  <1> QED BY <1>3, <1>4, <1>5, <1>6, ReviewStepKeepsInv DEF PublishDecision

LEMMA EditCardKeepsInv ==
  ASSUME Inv, NEW r \in reviews, EditCard(r), UNCHANGED <<customerVars, restarts>>
  PROVE  Inv'
  <1>1. reviews' \subseteq reviews
    BY DEF EditCard, EndReview
  <1>2. ModeratorTypeOK'
    BY <1>1 DEF EditCard, Inv, TypeOK, ModeratorTypeOK
  <1>3. proc' \in {"up"} \cup Downs /\ proc' # "gov_id_reply"
    BY DEF EditCard, Inv, TypeOK, SharedTypeOK, Downs, PanicSites
  <1> QED
    BY <1>1, <1>2, <1>3, QuietKeepsInv
    DEF EditCard, customerVars, Inv, TypeOK, CustomerTypeOK

LEMMA ReviewFailsKeepsInv ==
  ASSUME Inv, NEW r \in reviews, ReviewFails(r),
         UNCHANGED <<customerVars, restarts>>
  PROVE  Inv'
  <1>1. reviews' \subseteq reviews
    BY DEF ReviewFails, EndReview
  <1>2. events' \subseteq Clicks /\ notified' \subseteq Clicks
    BY DEF ReviewFails, Inv, TypeOK, ModeratorTypeOK
  <1> QED BY <1>1, <1>2, ReviewStepKeepsInv DEF ReviewFails

LEMMA NotifyKeepsInv ==
  ASSUME Inv, NEW id \in events, Notify(id), UNCHANGED <<customerVars, restarts>>
  PROVE  Inv'
  <1>1. events' \subseteq Clicks /\ notified' \subseteq Clicks
    BY DEF Notify, Inv, TypeOK, ModeratorTypeOK
  <1> QED BY <1>1, ReviewStepKeepsInv DEF Notify

LEMMA ModeratorNextKeepsInv ==
  ASSUME Inv, ModeratorNext, UNCHANGED <<customerVars, restarts>>
  PROVE  Inv'
  <1>1. CASE \E p \in DOMAIN posts : \/ Deliver(p) \/ Confirm(p)
                                     \/ Forward(p) \/ ForwardFails(p)
    BY <1>1, QueueStepKeepsInv, ForwardKeepsInv
  <1>2. CASE \E a \in Admins, u \in cards, v \in Verdicts : Click(a, u, v)
    BY <1>2, ClickKeepsInv
  <1>3. CASE \E r \in reviews : Review(r) \/ ReviewFails(r)
    BY <1>3, CheckModeratorKeepsInv, DecideKeepsInv, PublishDecisionKeepsInv,
       EditCardKeepsInv, ReviewFailsKeepsInv DEF Review
  <1>4. CASE \E id \in events : Notify(id)
    BY <1>4, NotifyKeepsInv
  <1> QED BY <1>1, <1>2, <1>3, <1>4 DEF ModeratorNext

-----------------------------------------------------------------------------
(* The process dies and starts again.                                      *)

LEMMA KillKeepsInv ==
  ASSUME Inv, Kill
  PROVE  Inv'
  <1>1. proc' \in {"up"} \cup Downs /\ proc' # "gov_id_reply"
    BY DEF Kill, Downs
  <1> QED
    BY <1>1, QuietKeepsInv
    DEF Kill, customerVars, moderatorVars, Inv, TypeOK, CustomerTypeOK,
        ModeratorTypeOK

LEMMA RestartKeepsInv ==
  ASSUME Inv, Restart
  PROVE  Inv'
  <1>1. posts \in Seq(Posts)
    BY DEF Inv, TypeOK, SharedTypeOK
  <1>2. \A p \in DOMAIN posts : posts[p] \in Posts
    BY <1>1, ElementOfSeq, LenProperties
  <1>3. \A p \in DOMAIN posts : /\ PostAfterRestart(posts[p]) \in Posts
                                /\ PostAfterRestart(posts[p]).user = posts[p].user
    <2> SUFFICES ASSUME NEW p \in DOMAIN posts
                 PROVE  /\ PostAfterRestart(posts[p]) \in Posts
                        /\ PostAfterRestart(posts[p]).user = posts[p].user
      OBVIOUS
    <2> QED BY <1>2 DEF PostAfterRestart, Posts, PostStates
  <1>4. /\ DOMAIN posts' = DOMAIN posts
        /\ \A p \in DOMAIN posts : posts'[p] = PostAfterRestart(posts[p])
    BY DEF Restart
  <1>5. posts' \in Seq(Posts)
    <2>1. DOMAIN posts = 1..Len(posts) /\ Len(posts) \in Nat
      BY <1>1, LenProperties
    <2>2. posts' \in [1..Len(posts) -> Posts]
      BY <1>3, <2>1 DEF Restart
    <2> QED BY <2>1, <2>2
  <1>6. Grows
    BY <1>3, <1>4 DEF Grows, Restart
  <1>7. TypeOK'
    BY <1>5, MaxRestartsAssumption
    DEF Restart, Inv, TypeOK, SharedTypeOK, CustomerTypeOK, ModeratorTypeOK
  <1>8. /\ db' = db /\ proc' = "up" /\ tasks' = {} /\ reviews' = {}
        /\ cards' = cards /\ decisions' = decisions
    BY DEF Restart
  <1> QED BY <1>4, <1>6, <1>7, <1>8, Frame DEF Inv

-----------------------------------------------------------------------------
LEMMA InitInv == ASSUME Init PROVE Inv
  BY EmptySeq, MaxClicksAssumption, MaxRestartsAssumption
  DEF Init, SharedInit, CustomerInit, ModeratorInit, Inv, TypeOK, SharedTypeOK,
      CustomerTypeOK, ModeratorTypeOK

LEMMA NextKeepsInv == Inv /\ [Next]_vars => Inv'
  <1> SUFFICES ASSUME Inv, [Next]_vars PROVE Inv'
    OBVIOUS
  <1>1. CASE UNCHANGED vars
    BY <1>1, QuietKeepsInv
    DEF vars, sharedVars, customerVars, moderatorVars, Inv, TypeOK,
        SharedTypeOK, CustomerTypeOK, ModeratorTypeOK
  <1>2. CASE CustomerNext /\ UNCHANGED <<moderatorVars, restarts>>
    BY <1>2, CustomerNextKeepsInv
  <1>3. CASE ModeratorNext /\ UNCHANGED <<customerVars, restarts>>
    BY <1>3, ModeratorNextKeepsInv
  <1>4. CASE Kill
    BY <1>4, KillKeepsInv
  <1>5. CASE Restart
    BY <1>5, RestartKeepsInv
  <1> QED BY <1>1, <1>2, <1>3, <1>4, <1>5 DEF Next

(* The invariant holds in every reachable state.                           *)
THEOREM InvHolds == Spec => []Inv
  <1>1. Init => Inv
    BY InitInv
  <1> QED BY <1>1, NextKeepsInv, PTL DEF Spec

(* Every variable keeps its type.                                          *)
THEOREM TypesHold == Spec => []TypeOK
  <1>1. Inv => TypeOK
    BY DEF Inv
  <1> QED BY <1>1, InvHolds, PTL

(* Lost updates or not, every row is at a step of the registration with    *)
(* exactly the answers of the steps before it.                             *)
THEOREM RowsStayInStep == Spec => []RowsInStep
  <1>1. Inv => RowsInStep
    BY DEF Inv, RowsInStep, Good
  <1> QED BY <1>1, InvHolds, PTL

(* The reply of handleGovID never dereferences a NULL first name.          *)
THEOREM GovReplySafe == Spec => []GovReplyNeverPanics
  <1>1. Inv => GovReplyNeverPanics
    BY DEF Inv, GovReplyNeverPanics
  <1> QED BY <1>1, InvHolds, PTL

(* A stored reference leads to a photo of the same user.                   *)
THEOREM DocRefsResolve == Spec => []DocRefIsOwnUpload
  <1>1. Inv => DocRefIsOwnUpload
    BY DEF Inv, DocRefIsOwnUpload, Good
  <1> QED BY <1>1, InvHolds, PTL

(* Only a moderator's verdict on this very user approves or rejects.       *)
THEOREM StatusNeedsVerdict == Spec => []StatusHasVerdict
  <1>1. Inv => StatusHasVerdict
    BY DEF Inv, StatusHasVerdict, Good
  <1> QED BY <1>1, InvHolds, PTL

(* Whose registration counts as submitted has accepted the terms.          *)
THEOREM SubmissionNeedsTerms == Spec => []SubmittedAcceptedTerms
  <1>1. Inv => SubmittedAcceptedTerms
    BY DEF Inv, SubmittedAcceptedTerms, Good
  <1> QED BY <1>1, InvHolds, PTL

(* Nobody is decided about who has not uploaded a photo.                   *)
THEOREM VerdictNeedsUpload == Spec => []DecisionNeedsUpload
  <1>1. Inv => DecisionNeedsUpload
    BY DEF Inv, DecisionNeedsUpload
  <1> QED BY <1>1, InvHolds, PTL

-----------------------------------------------------------------------------
(***************************************************************************)
(* What happens to the news of a verdict, and what a late /start does to   *)
(* the table.  A verdict is known by the number of the press that caused   *)
(* it: a review that is about to publish has written it, so what is on the *)
(* bus or told has been written, too.                                      *)
(***************************************************************************)
HasDecision(id) == \E d \in decisions : d.id = id

NewsInv ==
    /\ \A r \in reviews : r.pc = "publish" => HasDecision(r.id)
    /\ \A id \in events \cup notified : HasDecision(id)

newsVars == <<reviews, decisions, events, notified>>

-----------------------------------------------------------------------------
LEMMA NewsInit == Init => NewsInv
  BY DEF Init, ModeratorInit, NewsInv

\* Nothing else than a review, a press and a notification touches the news.
LEMMA NewsFrame ==
  ASSUME NewsInv, UNCHANGED newsVars
  PROVE  NewsInv'
  BY DEF newsVars, NewsInv, HasDecision

\* A review ends without having published anything in this step.
LEMMA EndReviewKeepsNews ==
  ASSUME NewsInv, NEW r \in reviews, EndReview(r), decisions \subseteq decisions',
         UNCHANGED <<events, notified>>
  PROVE  NewsInv'
  BY DEF EndReview, NewsInv, HasDecision

\* A review goes on without publishing; if it is about to publish, its
\* decision is there.
LEMMA ContinueReviewKeepsNews ==
  ASSUME NewsInv, NEW r \in reviews, NEW s, ContinueReview(r, s),
         s.pc = "publish" => \E d \in decisions' : d.id = s.id,
         decisions \subseteq decisions',
         UNCHANGED <<events, notified>>
  PROVE  NewsInv'
  <1>1. \A x \in reviews' : x = s \/ x \in reviews
    BY DEF ContinueReview
  <1>2. \A x \in reviews' : x.pc = "publish" => HasDecision(x.id)'
    BY <1>1 DEF NewsInv, HasDecision
  <1>3. \A id \in (events \cup notified)' : HasDecision(id)'
    BY DEF NewsInv, HasDecision
  <1> QED BY <1>2, <1>3 DEF NewsInv

LEMMA ClickKeepsNews ==
  ASSUME NewsInv, NEW a \in Admins, NEW u \in cards, NEW v \in Verdicts,
         Click(a, u, v)
  PROVE  NewsInv'
  BY DEF Click, NewsInv, HasDecision

LEMMA CheckModeratorKeepsNews ==
  ASSUME TypeOK, NewsInv, NEW r \in reviews, CheckModerator(r)
  PROVE  NewsInv'
  <1> DEFINE s == [r EXCEPT !.pc = "decide", !.row = db[r.user]]
  <1>1. r \in Reviews
    BY DEF TypeOK, ModeratorTypeOK
  <1>2. s.pc = "decide"
    BY <1>1 DEF Reviews
  <1>3. CASE EndReview(r)
    BY <1>3, EndReviewKeepsNews DEF CheckModerator
  <1>4. CASE ContinueReview(r, s)
    BY <1>2, <1>4, ContinueReviewKeepsNews DEF CheckModerator
  <1> QED BY <1>3, <1>4 DEF CheckModerator

LEMMA DecideKeepsNews ==
  ASSUME TypeOK, NewsInv, NEW r \in reviews, Decide(r)
  PROVE  NewsInv'
  <1> DEFINE d == [id |-> r.id, user |-> r.user, verdict |-> r.verdict,
                   by |-> r.admin]
             s == [r EXCEPT !.pc = "publish", !.row = Verdict(@, r.verdict)]
  <1>1. r \in Reviews
    BY DEF TypeOK, ModeratorTypeOK
  <1>2. s.id = r.id
    BY <1>1 DEF Reviews
  <1>3. decisions' = decisions \cup {d} /\ d.id = r.id
    BY DEF Decide
  <1>4. UNCHANGED <<events, notified>>
    BY DEF Decide
  <1>5. CASE EndReview(r)
    BY <1>3, <1>4, <1>5, EndReviewKeepsNews
  <1>6. CASE ContinueReview(r, s)
    <2> HIDE DEF s, d
    <2> QED BY <1>2, <1>3, <1>4, <1>6, ContinueReviewKeepsNews
  <1> QED BY <1>5, <1>6 DEF Decide

LEMMA PublishDecisionKeepsNews ==
  ASSUME TypeOK, NewsInv, NEW r \in reviews, PublishDecision(r)
  PROVE  NewsInv'
  <1> DEFINE s == [r EXCEPT !.pc = "edit"]
  <1>1. r \in Reviews /\ r.pc = "publish"
    BY DEF TypeOK, ModeratorTypeOK, PublishDecision
  <1>2. s.pc = "edit"
    BY <1>1 DEF Reviews
  <1> HIDE DEF s
  <1>3. /\ \A x \in reviews' : x = s \/ x \in reviews
        /\ (events \cup notified)' = events \cup notified \cup {r.id}
        /\ decisions' = decisions
    BY DEF PublishDecision, ContinueReview, s
  <1>4. HasDecision(r.id)
    BY <1>1 DEF NewsInv
  <1> QED BY <1>2, <1>3, <1>4 DEF NewsInv, HasDecision

LEMMA NotifyKeepsNews ==
  ASSUME NewsInv, NEW id \in events, Notify(id)
  PROVE  NewsInv'
  BY DEF Notify, NewsInv, HasDecision

-----------------------------------------------------------------------------
LEMMA ModeratorNextKeepsNews ==
  ASSUME TypeOK, NewsInv, ModeratorNext
  PROVE  NewsInv'
  <1>1. CASE \E p \in DOMAIN posts : \/ Deliver(p) \/ Confirm(p)
                                     \/ Forward(p) \/ ForwardFails(p)
    <2>1. UNCHANGED newsVars
      BY <1>1
      DEF Deliver, Confirm, Forward, ForwardFails, moderatorVars, newsVars
    <2> QED BY <2>1, NewsFrame
  <1>2. CASE \E a \in Admins, u \in cards, v \in Verdicts : Click(a, u, v)
    BY <1>2, ClickKeepsNews
  <1>3. CASE \E r \in reviews : EditCard(r) \/ ReviewFails(r)
    BY <1>3, EndReviewKeepsNews DEF EditCard, ReviewFails, sharedVars
  <1>4. CASE \E r \in reviews : \/ CheckModerator(r) \/ Decide(r)
                                \/ PublishDecision(r)
    BY <1>4, CheckModeratorKeepsNews, DecideKeepsNews, PublishDecisionKeepsNews
  <1>5. CASE \E id \in events : Notify(id)
    BY <1>5, NotifyKeepsNews
  <1> QED BY <1>1, <1>2, <1>3, <1>4, <1>5 DEF ModeratorNext, Review

LEMMA NextKeepsNews == TypeOK /\ NewsInv /\ [Next]_vars => NewsInv'
  <1> SUFFICES ASSUME TypeOK, NewsInv, [Next]_vars PROVE NewsInv'
    OBVIOUS
  <1>1. CASE UNCHANGED vars \/ Kill \/ (CustomerNext /\ UNCHANGED moderatorVars)
    <2>1. UNCHANGED newsVars
      BY <1>1 DEF vars, Kill, moderatorVars, newsVars
    <2> QED BY <2>1, NewsFrame
  <1>2. CASE ModeratorNext
    BY <1>2, ModeratorNextKeepsNews
  <1>3. CASE Restart
    BY <1>3 DEF Restart, NewsInv, HasDecision
  <1> QED BY <1>1, <1>2, <1>3 DEF Next

(* The news follows its verdict, in every reachable state.                 *)
THEOREM NewsInvHolds == Spec => []NewsInv
  <1> QED BY NewsInit, NextKeepsNews, TypesHold, PTL DEF Spec

(* Nobody hears of a verdict that is not in the table.                     *)
THEOREM NewsFollowsDecision == Spec => []NewsIsOfDecision
  <1>1. NewsInv => NewsIsOfDecision
    BY DEF NewsInv, NewsIsOfDecision, HasDecision
  <1> QED BY <1>1, NewsInvHolds, PTL

-----------------------------------------------------------------------------
(* A late /start.  A task ends only by its own step, and the only step of  *)
(* a start task without a row that writes is Create.                       *)

LEMMA CreateKeepsRows ==
  ASSUME TypeOK, NEW u \in Users, NEW row, Create(u, row)
  PROVE  \A x \in Users : db[x] # NoRow => db'[x] = db[x]
  BY DEF TypeOK, SharedTypeOK, Create

LEMMA HandlersEndOnlyTheirTask ==
  ASSUME NEW s \in tasks, Handle(s) \/ GiveUp(s)
  PROVE  tasks \ {s} \subseteq tasks'
  BY DEF Handle, GiveUp, Route, StartNewUser, StartPending, StartRejected,
         StartVerified, HandleFirstName, HandleLastName, HandlePhoneNumber,
         HandleGovID, HandleLocation, PublishDoc, SaveDoc,
         HandlePolicyApproval, AskAgain, AcceptPolicy, RefusePolicy, Save,
         Finish, Continue

LEMMA LateStartTask ==
  ASSUME TypeOK, NEW t \in tasks, t.pc = "start", t.row = NoRow,
         Handle(t) \/ GiveUp(t)
  PROVE  \A u \in Users : db[u] # NoRow => db'[u] = db[u]
  <1>1. t.user \in Users
    BY DEF TypeOK, CustomerTypeOK, Tasks
  <1>2. StartNewUser(t) \/ GiveUp(t)
    BY DEF Handle, Route, Starts, StartPending, StartRejected, StartVerified,
           HandleFirstName, HandleLastName, HandlePhoneNumber, HandleGovID,
           HandleLocation, PublishDoc, SaveDoc, HandlePolicyApproval, AskAgain,
           AcceptPolicy, RefusePolicy, Registers
  <1>3. CASE StartNewUser(t)
    BY <1>1, <1>3, CreateKeepsRows DEF StartNewUser
  <1>4. CASE GiveUp(t)
    BY <1>4 DEF GiveUp, Quiet, sharedVars
  <1> QED BY <1>2, <1>3, <1>4

LEMMA LateStartNext == TypeOK /\ [Next]_vars => [LateStartStep]_vars
  <1> SUFFICES ASSUME TypeOK, Next,
                      NEW t \in tasks, t.pc = "start", t.row = NoRow,
                      t \notin tasks'
               PROVE  \A u \in Users : db[u] # NoRow => db'[u] = db[u]
    BY DEF LateStartStep
  <1>1. CASE CustomerNext
    <2>1. tasks \subseteq tasks'
            \/ \E s \in tasks : Handle(s) \/ GiveUp(s)
      BY <1>1 DEF CustomerNext, Receive
    <2>2. PICK s \in tasks : Handle(s) \/ GiveUp(s)
      BY <2>1
    <2>3. s = t
      BY <2>2, HandlersEndOnlyTheirTask
    <2> QED BY <2>2, <2>3, LateStartTask
  <1>2. CASE UNCHANGED <<customerVars, restarts>> \/ Kill
    BY <1>2 DEF customerVars, Kill
  <1>3. CASE Restart
    BY <1>3 DEF Restart
  <1> QED BY <1>1, <1>2, <1>3 DEF Next

(* A late /start of a user who is no longer new leaves every row alone.    *)
THEOREM LateStartIsHarmless == Spec => LateStartKeepsProgress
  <1> QED BY LateStartNext, TypesHold, PTL DEF Spec, LateStartKeepsProgress
=============================================================================
