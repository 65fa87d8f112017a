-------------------------- MODULE Repositories_proofs --------------------------
(***************************************************************************)
(* What the repositories keep for any number of clients, users, keys and   *)
(* writes.  All of it is about a copy in a client's hands against the row  *)
(* it was read from, whatever has become of the row meanwhile.  The last   *)
(* part shows that the repositories implement UserTable.                   *)
(***************************************************************************)
EXTENDS Repositories, Induction

(* The part of the types that the proofs need.                             *)
Shape ==
    /\ created \in Nat /\ created <= MaxUsers
    /\ DOMAIN table \subseteq 1..created
    /\ table \in [DOMAIN table -> Rows]
    /\ copies \in [Clients -> [id: Nat, user: Users] \cup {Nobody}]
    /\ \A c \in Clients : copies[c] # Nobody => copies[c].id \in 1..created
    /\ turns \in [Ids -> Nat]
    /\ seen \in [Clients -> Nat]

(* A copy belongs to its row: they have one Telegram id, the row opens with *)
(* the key of the process, and if is_moderator has not been changed since  *)
(* the copy was read, the copy still has it.                               *)
CopyFits(c) ==
    LET id == copies[c].id IN
    copies[c] # Nobody /\ id \in DOMAIN table =>
        /\ copies[c].user.tg = table[id].tg
        /\ Readable(table[id])
        /\ seen[c] <= turns[id]
        /\ seen[c] = turns[id] => copies[c].user.moderator = table[id].moderator

Inv == Shape /\ OneRowPerUser /\ \A c \in Clients : CopyFits(c)

-----------------------------------------------------------------------------
(* What is written can be read again in this process, and only the two     *)
(* encrypted columns look different in the table.                          *)
LEMMA SealedFits ==
  ASSUME secret \in Keys, NEW user \in Users
  PROVE  /\ Sealed(user) \in Rows
         /\ Readable(Sealed(user))
         /\ Sealed(user).tg = user.tg
         /\ Sealed(user).moderator = user.moderator
  <1>1. /\ EncryptColumn(user.phone) \in Cells(Phones)
        /\ EncryptColumn(user.gov) \in Cells(GovIDs)
    BY DEF EncryptColumn, Encrypt, Cells, Users
  <1>2. Decrypts(EncryptColumn(user.phone)) /\ Decrypts(EncryptColumn(user.gov))
    BY DEF Decrypts, EncryptColumn, Encrypt
  <1>3. /\ Sealed(user) \in Rows
        /\ Sealed(user).phone = EncryptColumn(user.phone)
        /\ Sealed(user).gov = EncryptColumn(user.gov)
        /\ Sealed(user).tg = user.tg
        /\ Sealed(user).moderator = user.moderator
    BY <1>1 DEF Sealed, Users, Rows, Statuses
  <1> QED BY <1>2, <1>3 DEF Readable

LEMMA OpenedIsUser ==
  ASSUME NEW row \in Rows
  PROVE  /\ Opened(row) \in Users
         /\ Opened(row).tg = row.tg
         /\ Opened(row).moderator = row.moderator
  <1>1. /\ DecryptColumn(row.phone) \in Phones \cup {Null}
        /\ DecryptColumn(row.gov) \in GovIDs \cup {Null}
    BY DEF DecryptColumn, Rows, Cells
  <1> QED BY <1>1 DEF Opened, Rows, Users, Statuses

-----------------------------------------------------------------------------
KeyOK == secret \in Keys

LEMMA InitInv == Init => Inv /\ KeyOK
  BY BoundsAssumption DEF Init, Inv, KeyOK, Shape, OneRowPerUser, CopyFits

LEMMA CreateInv ==
  ASSUME Inv, KeyOK, NEW c \in Clients, NEW tg \in Accounts,
         Create(c, NewUser(tg))
  PROVE  Inv'
  <1> DEFINE id == created + 1
  <1> DEFINE user == NewUser(tg)
  <1>0. UNCHANGED <<secret, copies, turns, seen>>
    BY DEF Create
  <1>1. user \in Users /\ user.tg = tg
    BY DEF NewUser, Users, Statuses
  <1>2. created \in Nat /\ id \notin DOMAIN table /\ created' = id /\ id <= MaxUsers
    BY BoundsAssumption DEF Create, Inv, Shape
  <1>3. CASE table' = table
    BY <1>0, <1>2, <1>3
       DEF Inv, Shape, OneRowPerUser, CopyFits, Readable, Decrypts
  <1>4. CASE /\ \A i \in DOMAIN table : table[i].tg # tg
             /\ table' = [i \in DOMAIN table \cup {id} |->
                            IF i = id THEN Sealed(user) ELSE table[i]]
    <2>1. /\ DOMAIN table' = DOMAIN table \cup {id}
          /\ table'[id] = Sealed(user)
          /\ \A i \in DOMAIN table : table'[i] = table[i]
      BY <1>2, <1>4
    <2>2. Sealed(user) \in Rows /\ Sealed(user).tg = tg
      BY <1>1, SealedFits DEF KeyOK
    <2> HIDE DEF user
    <2>3. Shape'
      <3>1. table' \in [DOMAIN table' -> Rows]
        BY <1>4, <2>1, <2>2 DEF Inv, Shape
      <3>2. \A x \in Clients : copies'[x] # Nobody => copies'[x].id \in 1..created'
        BY <1>0, <1>2 DEF Inv, Shape
      <3> QED BY <1>0, <1>2, <2>1, <3>1, <3>2 DEF Inv, Shape
    <2>4. OneRowPerUser'
      BY <1>4, <2>1, <2>2 DEF Inv, OneRowPerUser
    <2>5. \A x \in Clients : CopyFits(x)'
      <3> SUFFICES ASSUME NEW x \in Clients PROVE CopyFits(x)'
        OBVIOUS
      <3>1. copies[x] # Nobody => copies[x].id # id
        BY <1>2 DEF Inv, Shape
      <3> QED BY <1>0, <2>1, <3>1 DEF Inv, CopyFits, Readable, Decrypts
    <2> QED BY <2>3, <2>4, <2>5 DEF Inv
  <1> QED BY <1>1, <1>3, <1>4 DEF Create

LEMMA UpdateInv ==
  ASSUME Inv, KeyOK, NEW c \in Clients, NEW user \in Users, Update(c, user)
  PROVE  Inv'
  <1> DEFINE id == copies[c].id
  <1>0. /\ copies[c] # Nobody
        /\ user.tg = copies[c].user.tg
        /\ user.moderator = copies[c].user.moderator
        /\ UNCHANGED <<secret, created, seen>>
    BY DEF Update, Edits
  <1>1. CASE UNCHANGED <<table, turns, copies>>
    BY <1>0, <1>1 DEF Inv, Shape, OneRowPerUser, CopyFits, Readable, Decrypts
  <1>2. CASE /\ id \in DOMAIN table
             /\ table' = [table EXCEPT ![id] = Sealed(user)]
             /\ turns' = [turns EXCEPT ![id] =
                             @ + Turned(table[id].moderator, user.moderator)]
             /\ copies' = [copies EXCEPT ![c].user = user]
    <2>1. /\ Sealed(user) \in Rows
          /\ Readable(Sealed(user))
          /\ Sealed(user).tg = user.tg
          /\ Sealed(user).moderator = user.moderator
      BY SealedFits DEF KeyOK
    <2>2. /\ DOMAIN table' = DOMAIN table
          /\ table'[id] = Sealed(user)
          /\ \A i \in DOMAIN table \ {id} : table'[i] = table[i]
      BY <1>2
    <2>3. Sealed(user).tg = table[id].tg
      BY <1>0, <1>2, <2>1 DEF Inv, CopyFits
    <2>4. id \in Ids /\ id \in 1..created
      BY <1>0, <1>2, BoundsAssumption DEF Inv, Shape, Ids
    <2>5. /\ turns' \in [Ids -> Nat]
          /\ \A i \in Ids \ {id} : turns'[i] = turns[i]
          /\ turns'[id] = turns[id] + Turned(table[id].moderator, user.moderator)
          /\ turns[id] \in Nat
          /\ Turned(table[id].moderator, user.moderator) \in {0, 1}
      BY <1>2, <2>4 DEF Inv, Shape, Turned
    <2>6. /\ copies' \in [Clients -> [id: Nat, user: Users] \cup {Nobody}]
          /\ copies'[c] = [id |-> id, user |-> user]
          /\ \A x \in Clients \ {c} : copies'[x] = copies[x]
      BY <1>0, <1>2 DEF Inv, Shape
    <2>7. copies'[c] # Nobody
      <3>1. copies'[c] \in [id: Nat, user: Users]
        BY <2>4, <2>6
      <3> QED BY <3>1, NobodyAssumption DEF Users, Statuses
    <2> HIDE DEF id
    <2>8. Shape'
      <3>1. table' \in [DOMAIN table' -> Rows]
        BY <1>2, <2>1, <2>2 DEF Inv, Shape
      <3>2. \A x \in Clients : copies'[x] # Nobody => copies'[x].id \in 1..created'
        BY <1>0, <2>4, <2>6 DEF Inv, Shape
      <3> QED BY <1>0, <2>2, <2>5, <2>6, <3>1, <3>2 DEF Inv, Shape
    <2>9. OneRowPerUser'
      <3>1. \A i \in DOMAIN table' : table'[i].tg = table[i].tg
        BY <2>2, <2>3
      <3> QED BY <2>2, <3>1 DEF Inv, OneRowPerUser
    <2>10. CopyFits(c)'
      <3>1. seen[c] <= turns[id] /\ seen[c] \in Nat
        BY <1>0, <1>2 DEF Inv, CopyFits, Shape, id
      <3>2. Readable(Sealed(user))'
        BY <1>0, <2>1 DEF Readable, Decrypts, Sealed, EncryptColumn, Encrypt
      <3> QED BY <1>0, <2>1, <2>2, <2>5, <2>6, <3>1 DEF CopyFits, Readable, Decrypts
    <2>11. ASSUME NEW x \in Clients \ {c} PROVE CopyFits(x)'
      <3> DEFINE at == copies[x].id
      <3> SUFFICES ASSUME copies[x] # Nobody, at \in DOMAIN table
                   PROVE  /\ copies[x].user.tg = table'[at].tg
                          /\ Readable(table'[at])
                          /\ seen[x] <= turns'[at]
                          /\ seen[x] = turns'[at] =>
                                copies[x].user.moderator = table'[at].moderator
        BY <1>0, <2>2, <2>6 DEF CopyFits, Readable, Decrypts
      <3>1. /\ copies[x].user.tg = table[at].tg
            /\ Readable(table[at])
            /\ seen[x] <= turns[at] /\ seen[x] \in Nat
            /\ seen[x] = turns[at] => copies[x].user.moderator = table[at].moderator
            /\ at \in Ids
        BY BoundsAssumption DEF Inv, CopyFits, Shape, Ids
      <3>2. CASE at = id
        <4>1. table[id].moderator # user.moderator => turns'[id] = turns[id] + 1
          BY <2>5 DEF Turned
        <4> QED BY <1>0, <2>1, <2>2, <2>3, <2>5, <3>1, <3>2, <4>1 DEF Readable, Decrypts
      <3>3. CASE at # id
        BY <1>0, <2>2, <2>5, <3>1, <3>3 DEF Readable, Decrypts
      <3> QED BY <3>2, <3>3
    <2> QED BY <2>8, <2>9, <2>10, <2>11 DEF Inv
  <1> QED BY <1>1, <1>2 DEF Update

LEMMA DeleteInv ==
  ASSUME Inv, NEW c \in Clients, NEW id \in Ids, Delete(c, id)
  PROVE  Inv'
  <1>0. /\ table' = [i \in DOMAIN table \ {id} |-> table[i]]
        /\ UNCHANGED <<secret, created, copies, turns, seen>>
    BY DEF Delete
  <1>1. /\ DOMAIN table' = DOMAIN table \ {id}
        /\ \A i \in DOMAIN table' : table'[i] = table[i]
    BY <1>0
  <1>2. Shape'
    <2>1. table' \in [DOMAIN table' -> Rows]
      BY <1>0, <1>1 DEF Inv, Shape
    <2> QED BY <1>0, <1>1, <2>1 DEF Inv, Shape
  <1>3. OneRowPerUser'
    BY <1>1 DEF Inv, OneRowPerUser
  <1>4. \A x \in Clients : CopyFits(x)'
    BY <1>0, <1>1 DEF Inv, CopyFits, Readable, Decrypts
  <1> QED BY <1>2, <1>3, <1>4 DEF Inv

LEMMA ScanInv ==
  ASSUME Inv, NEW c \in Clients, NEW call, NEW matches \in SUBSET DOMAIN table,
         Scan(c, call, matches)
  PROVE  Inv'
  <1>0. UNCHANGED <<secret, table, created, turns>>
    BY DEF Scan
  <1>1. CASE copies' = [copies EXCEPT ![c] = Nobody] /\ seen' = seen
    BY <1>0, <1>1 DEF Inv, Shape, OneRowPerUser, CopyFits, Readable, Decrypts
  <1>2. ASSUME NEW id \in matches, Readable(table[id]),
               copies' = [copies EXCEPT ![c] = [id |-> id, user |-> Opened(table[id])]],
               seen' = [seen EXCEPT ![c] = turns[id]]
        PROVE  Inv'
    <2>1. table[id] \in Rows /\ id \in 1..created /\ id \in Ids /\ id \in Nat
      BY BoundsAssumption DEF Inv, Shape, Ids
    <2>2. /\ Opened(table[id]) \in Users
          /\ Opened(table[id]).tg = table[id].tg
          /\ Opened(table[id]).moderator = table[id].moderator
      BY <2>1, OpenedIsUser
    <2> DEFINE copy == [id |-> id, user |-> Opened(table[id])]
    <2>3. copy \in [id: Nat, user: Users] /\ copy.id = id /\ copy.user = Opened(table[id])
      BY <2>1, <2>2
    <2> HIDE DEF copy
    <2>4. /\ copies'[c] = copy
          /\ \A x \in Clients \ {c} : copies'[x] = copies[x] /\ seen'[x] = seen[x]
          /\ seen'[c] = turns[id] /\ turns[id] \in Nat
      BY <1>2, <2>1 DEF Inv, Shape, copy
    <2>5. Shape'
      BY <1>0, <1>2, <2>1, <2>3, <2>4 DEF Inv, Shape, copy
    <2>6. OneRowPerUser'
      BY <1>0 DEF Inv, OneRowPerUser
    <2>7. CopyFits(c)'
      BY <1>0, <1>2, <2>2, <2>3, <2>4 DEF CopyFits, Readable, Decrypts
    <2>8. \A x \in Clients \ {c} : CopyFits(x)'
      BY <1>0, <2>4 DEF Inv, CopyFits, Readable, Decrypts
    <2> QED BY <2>5, <2>6, <2>7, <2>8 DEF Inv
  <1> QED BY <1>1, <1>2 DEF Scan

LEMMA GrantInv ==
  ASSUME Inv, NEW id \in Ids, Grant(id)
  PROVE  Inv'
  <1>0. /\ id \in DOMAIN table
        /\ table' = [table EXCEPT ![id].moderator = ~@]
        /\ turns' = [turns EXCEPT ![id] = @ + 1]
        /\ UNCHANGED <<secret, created, copies, seen>>
    BY DEF Grant
  <1>1. table[id] \in Rows
    BY <1>0 DEF Inv, Shape
  <1>2. /\ DOMAIN table' = DOMAIN table
        /\ table'[id] = [table[id] EXCEPT !.moderator = ~@]
        /\ \A i \in DOMAIN table \ {id} : table'[i] = table[i]
    BY <1>0
  <1>3. /\ table'[id] \in Rows
        /\ table'[id].tg = table[id].tg
        /\ table'[id].phone = table[id].phone
        /\ table'[id].gov = table[id].gov
    BY <1>1, <1>2 DEF Rows
  <1>4. /\ turns' \in [Ids -> Nat]
        /\ turns'[id] = turns[id] + 1
        /\ \A i \in Ids \ {id} : turns'[i] = turns[i]
        /\ turns[id] \in Nat
    BY <1>0 DEF Inv, Shape
  <1>5. Shape'
    <2>1. table' \in [DOMAIN table' -> Rows]
      BY <1>0, <1>2, <1>3 DEF Inv, Shape
    <2> QED BY <1>0, <1>2, <1>4, <2>1 DEF Inv, Shape
  <1>6. OneRowPerUser'
    <2>1. \A i \in DOMAIN table' : table'[i].tg = table[i].tg
      BY <1>2, <1>3
    <2> QED BY <1>2, <2>1 DEF Inv, OneRowPerUser
  <1>7. ASSUME NEW x \in Clients PROVE CopyFits(x)'
    <2> DEFINE at == copies[x].id
    <2> SUFFICES ASSUME copies[x] # Nobody, at \in DOMAIN table
                 PROVE  /\ copies[x].user.tg = table'[at].tg
                        /\ Readable(table'[at])
                        /\ seen[x] <= turns'[at]
                        /\ seen[x] = turns'[at] =>
                              copies[x].user.moderator = table'[at].moderator
      BY <1>0, <1>2 DEF CopyFits, Readable, Decrypts
    <2>1. /\ copies[x].user.tg = table[at].tg
          /\ Readable(table[at])
          /\ seen[x] <= turns[at] /\ seen[x] \in Nat
          /\ seen[x] = turns[at] => copies[x].user.moderator = table[at].moderator
          /\ at \in Ids
      BY BoundsAssumption DEF Inv, CopyFits, Shape, Ids
    <2>2. CASE at = id
      BY <1>0, <1>3, <1>4, <2>1, <2>2 DEF Readable, Decrypts
    <2>3. CASE at # id
      BY <1>0, <1>2, <1>4, <2>1, <2>3 DEF Readable, Decrypts
    <2> QED BY <2>2, <2>3
  <1> QED BY <1>5, <1>6, <1>7 DEF Inv

(* The steps that touch neither rows nor what the copies say.              *)
LEMMA OtherInv ==
  ASSUME Inv, UNCHANGED <<table, created, turns, seen>>,
         \/ UNCHANGED <<secret, copies>>
         \/ \E c \in Clients : copies' = [copies EXCEPT ![c] = Nobody] /\ UNCHANGED secret
         \/ copies' = [c \in Clients |-> Nobody]
  PROVE  Inv'
  BY DEF Inv, Shape, OneRowPerUser, CopyFits, Readable, Decrypts

LEMMA NextInv ==
  ASSUME Inv, KeyOK, [Next]_vars
  PROVE  Inv' /\ KeyOK'
  <1>1. ASSUME NEW c \in Clients, ClientStep(c)
        PROVE  Inv' /\ KeyOK'
    <2>0. KeyOK'
      BY <1>1 DEF ClientStep, Create, Update, Delete, GetByID, GetByUserID,
           GetByTelegramID, GetNextPendingUser, Scan, QueryFails, CreateAccount,
           KeyOK
    <2>1. ASSUME NEW tg \in Accounts, Create(c, NewUser(tg)) PROVE Inv'
      BY <2>1, CreateInv
    <2>2. ASSUME NEW user \in Users, Update(c, user) PROVE Inv'
      BY <2>2, UpdateInv
    <2>3. ASSUME NEW id \in Ids, Delete(c, id) PROVE Inv'
      BY <2>3, DeleteInv
    <2>4. ASSUME NEW id \in Ids, GetByID(c, id) PROVE Inv'
      BY <2>4, ScanInv DEF GetByID
    <2>5. ASSUME NEW tg \in Accounts, GetByTelegramID(c, tg) PROVE Inv'
      BY <2>5, ScanInv DEF GetByTelegramID
    <2>6. ASSUME GetNextPendingUser(c) PROVE Inv'
      <3> DEFINE pending == {id \in DOMAIN table : table[id].status = "pending"}
      <3>1. pending \in SUBSET DOMAIN table
        OBVIOUS
      <3>2. Scan(c, <<"pending">>, pending)
        BY <2>6 DEF GetNextPendingUser
      <3> HIDE DEF pending
      <3> QED BY <3>1, <3>2, ScanInv
    <2>7. ASSUME NEW id \in Ids, GetByUserID(c, id) PROVE Inv'
      BY <2>7, OtherInv DEF GetByUserID
    <2>8. ASSUME QueryFails(c) PROVE Inv'
      <3>1. /\ UNCHANGED <<secret, table, created, turns, seen>>
            /\ UNCHANGED copies \/ copies' = [copies EXCEPT ![c] = Nobody]
        BY <2>8 DEF QueryFails
      <3>2. CASE UNCHANGED copies
        BY <3>1, <3>2, OtherInv
      <3>3. CASE copies' = [copies EXCEPT ![c] = Nobody]
        BY <3>1, <3>3, OtherInv
      <3> QED BY <3>1, <3>2, <3>3
    <2>9. ASSUME NEW id \in Ids, NEW details \in Details, CreateAccount(c, id, details)
          PROVE  Inv'
      BY <2>9, OtherInv DEF CreateAccount
    <2> QED BY <1>1, <2>0, <2>1, <2>2, <2>3, <2>4, <2>5, <2>6, <2>7, <2>8, <2>9
            DEF ClientStep
  <1>2. ASSUME NEW id \in Ids, Grant(id) PROVE Inv' /\ KeyOK'
    BY <1>2, GrantInv DEF Grant, KeyOK
  <1>3. CASE ChangeKey
    BY <1>3, OtherInv DEF ChangeKey, KeyOK
  <1>4. CASE UNCHANGED vars
    BY <1>4, OtherInv DEF vars, KeyOK
  <1> QED BY <1>1, <1>2, <1>3, <1>4 DEF Next

(* The inductive invariant, for all clients, users, keys and bounds.       *)
THEOREM InvHolds == Spec => [](Inv /\ KeyOK)
  BY InitInv, NextInv, PTL DEF Spec

(* A Telegram user never has two rows.                                     *)
THEOREM RowsAreUnique == Spec => []OneRowPerUser
  BY InvHolds, PTL DEF Inv

-----------------------------------------------------------------------------
(* Nothing but a deletion destroys what another key has sealed: whoever    *)
(* writes a row holds a copy, so it has read the row with the present key. *)
THEOREM ForeignDataIsKept == Spec => SealedDataSurvives
  <1> DEFINE Kept(id) ==
        /\ Foreign(table[id].phone) => table'[id].phone = table[id].phone
        /\ Foreign(table[id].gov) => table'[id].gov = table[id].gov
  <1>1. ASSUME Inv, Next, NEW id \in DOMAIN table, id \in DOMAIN table'
        PROVE  Kept(id)
    <2>1. CASE table' = table
      BY <2>1
    <2>2. ASSUME NEW c \in Clients, NEW tg \in Accounts, Create(c, NewUser(tg))
          PROVE  Kept(id)
      <3>1. id # created + 1
        BY <1>1 DEF Inv, Shape
      <3>2. table'[id] = table[id]
        BY <1>1, <2>2, <3>1 DEF Create
      <3> QED BY <3>2
    <2>3. ASSUME NEW c \in Clients, NEW user \in Users, Update(c, user)
          PROVE  Kept(id)
      <3>1. CASE table' = table
        BY <3>1
      <3>2. CASE /\ copies[c] # Nobody /\ copies[c].id \in DOMAIN table
                 /\ table' = [table EXCEPT ![copies[c].id] = Sealed(user)]
        <4>1. Readable(table[copies[c].id])
          BY <1>1, <3>2 DEF Inv, CopyFits
        <4>2. CASE id = copies[c].id
          BY <4>1, <4>2 DEF Foreign, Readable, Decrypts
        <4>3. CASE id # copies[c].id
          BY <1>1, <3>2, <4>3
        <4> QED BY <4>2, <4>3
      <3> QED BY <2>3, <3>1, <3>2 DEF Update
    <2>4. ASSUME NEW c \in Clients, NEW i \in Ids, Delete(c, i)
          PROVE  Kept(id)
      <3>1. table'[id] = table[id]
        BY <1>1, <2>4 DEF Delete
      <3> QED BY <3>1
    <2>5. ASSUME NEW i \in Ids, Grant(i)
          PROVE  Kept(id)
      <3>1. table[i] \in Rows
        BY <1>1, <2>5 DEF Inv, Shape, Grant
      <3>2. table' = [table EXCEPT ![i] =
                         [table[i] EXCEPT !.moderator = ~table[i].moderator]]
        BY <2>5 DEF Grant
      <3>3. /\ [table[i] EXCEPT !.moderator = ~table[i].moderator].phone = table[i].phone
            /\ [table[i] EXCEPT !.moderator = ~table[i].moderator].gov = table[i].gov
        BY <3>1 DEF Rows
      <3> QED BY <1>1, <3>2, <3>3
    <2>6. \/ table' = table
          \/ \E c \in Clients, tg \in Accounts : Create(c, NewUser(tg))
          \/ \E c \in Clients, user \in Users : Update(c, user)
          \/ \E c \in Clients, i \in Ids : Delete(c, i)
          \/ \E i \in Ids : Grant(i)
      BY <1>1 DEF Next, ClientStep, GetByID, GetByTelegramID, GetNextPendingUser,
           GetByUserID, Scan, QueryFails, CreateAccount, ChangeKey
    <2> QED BY <2>1, <2>2, <2>3, <2>4, <2>5, <2>6
  <1>2. ASSUME Inv, [Next]_vars
        PROVE  [\A id \in DOMAIN table \cap DOMAIN table' : Kept(id)]_vars
    BY <1>1, <1>2
  <1> HIDE DEF Kept
  <1>3. Spec => [][\A id \in DOMAIN table \cap DOMAIN table' : Kept(id)]_vars
    BY <1>2, InvHolds, PTL DEF Spec
  <1> QED BY <1>3 DEF SealedDataSurvives, Kept

(* A write changes is_moderator only from a copy that was read before the  *)
(* last change of it.                                                      *)
THEOREM RightsChangeByStaleCopies == Spec => OnlyStaleCopiesChangeRights
  <1>1. ASSUME Inv, NEW c \in Clients, NEW user \in Users, NEW id \in DOMAIN table,
               Update(c, user), table'[id].moderator # table[id].moderator
        PROVE  copies[c].id = id /\ seen[c] < turns[id]
    <2>1. /\ copies[c] # Nobody /\ copies[c].id \in DOMAIN table
          /\ table' = [table EXCEPT ![copies[c].id] = Sealed(user)]
          /\ user.moderator = copies[c].user.moderator
      BY <1>1 DEF Update, Edits
    <2>2. copies[c].id = id
      BY <1>1, <2>1
    <2>3. table'[id].moderator = user.moderator
      <3>1. Sealed(user).moderator = user.moderator
        BY DEF Sealed, Users
      <3> QED BY <2>1, <2>2, <3>1
    <2>4. /\ seen[c] <= turns[id]
          /\ seen[c] = turns[id] => copies[c].user.moderator = table[id].moderator
      BY <1>1, <2>1, <2>2 DEF Inv, CopyFits
    <2>5. seen[c] \in Nat /\ turns[id] \in Nat
      <3>1. id \in Ids
        BY <1>1, BoundsAssumption DEF Inv, Shape, Ids
      <3> QED BY <1>1, <3>1 DEF Inv, Shape
    <2> QED BY <1>1, <2>1, <2>2, <2>3, <2>4, <2>5
  <1>2. Inv /\ [Next]_vars =>
          [\A c \in Clients, user \in Users, id \in DOMAIN table :
              /\ Update(c, user)
              /\ table'[id].moderator # table[id].moderator
              => copies[c].id = id /\ seen[c] < turns[id]]_vars
    BY <1>1
  <1> QED BY <1>2, InvHolds, PTL DEF Spec, OnlyStaleCopiesChangeRights

-----------------------------------------------------------------------------
(* The bank accounts of some users: what selects them commutes with what   *)
(* decrypts them, by induction over the table.                             *)
BankRows == [owner: Nat, details: [key: Keys, plain: Details]]
OpenBank(b) == [owner |-> b.owner, details |-> b.details.plain]
OpenBanks(bs) == [n \in DOMAIN bs |-> OpenBank(bs[n])]

LEMMA OwnedEmpty == \A owners : OwnedBy(<<>>, owners) = <<>>
  <1> TAKE owners
  <1> DEFINE E(bs) == [n \in DOMAIN bs |-> IF bs[n].owner \in owners
                                           THEN <<bs[n]>> ELSE <<>>]
  <1>1. OwnedBy(<<>>, owners) = FlattenSeq(E(<<>>))
    BY Zenon DEF OwnedBy
  <1>2. E(<<>>) = <<>>
    OBVIOUS
  <1> QED BY <1>1, <1>2, FlattenEmpty, Zenon

LEMMA OwnedAppend ==
  ASSUME NEW T, NEW bs \in Seq(T), NEW b \in T, NEW owners
  PROVE  /\ OwnedBy(bs, owners) \in Seq(T)
         /\ OwnedBy(Append(bs, b), owners) =
               OwnedBy(bs, owners) \o (IF b.owner \in owners THEN <<b>> ELSE <<>>)
  <1> DEFINE one(x) == IF x.owner \in owners THEN <<x>> ELSE <<>>
  <1> DEFINE E(t) == [n \in DOMAIN t |-> one(t[n])]
  <1>1. \A t : OwnedBy(t, owners) = FlattenSeq(E(t))
    BY Zenon DEF OwnedBy
  <1>a. \A x \in T : one(x) \in Seq(T)
    OBVIOUS
  <1> HIDE DEF one
  <1>2. E(bs) \in Seq(Seq(T))
    <2>1. DOMAIN bs = 1..Len(bs) /\ Len(bs) \in Nat
      BY LenProperties
    <2>2. \A i \in 1..Len(bs) : one(bs[i]) \in Seq(T)
      BY <1>a, ElementOfSeq
    <2> QED BY <2>1, <2>2
  <1>3. E(Append(bs, b)) = Append(E(bs), one(b))
    <2> DEFINE n == Len(bs)
    <2>1. /\ n \in Nat /\ DOMAIN bs = 1..n /\ DOMAIN Append(bs, b) = 1..(n + 1)
          /\ \A i \in 1..n : Append(bs, b)[i] = bs[i]
          /\ Append(bs, b)[n + 1] = b
      BY LenProperties, AppendProperties
    <2>2. /\ DOMAIN E(bs) = 1..n /\ Len(E(bs)) = n
          /\ DOMAIN Append(E(bs), one(b)) = 1..(n + 1)
      BY <1>2, <1>a, <2>1, LenProperties, AppendProperties
    <2> QED BY <1>2, <1>a, <2>1, <2>2
  <1> HIDE DEF E
  <1>4. /\ FlattenSeq(E(bs)) \in Seq(T)
        /\ FlattenSeq(Append(E(bs), one(b))) = FlattenSeq(E(bs)) \o one(b)
    BY <1>2, <1>a, FlattenAppend
  <1>5. OwnedBy(Append(bs, b), owners) = OwnedBy(bs, owners) \o one(b)
    BY <1>1, <1>3, <1>4, Zenon
  <1>6. OwnedBy(bs, owners) \in Seq(T)
    BY <1>1, <1>4, Zenon
  <1> QED BY <1>5, <1>6, Zenon DEF one

LEMMA OwnedAppendOne ==
  ASSUME NEW T, NEW bs \in Seq(T), NEW b \in T, NEW owners
  PROVE  /\ b.owner \in owners => OwnedBy(Append(bs, b), owners) = Append(OwnedBy(bs, owners), b)
         /\ b.owner \notin owners => OwnedBy(Append(bs, b), owners) = OwnedBy(bs, owners)
  <1> DEFINE o == OwnedBy(bs, owners)
  <1>1. /\ o \in Seq(T)
        /\ OwnedBy(Append(bs, b), owners) =
              o \o (IF b.owner \in owners THEN <<b>> ELSE <<>>)
    BY OwnedAppend
  <1> HIDE DEF o
  <1>2. o \o <<b>> = Append(o, b)
    <2>1. Append(o, b) = o \o <<b>>
      BY <1>1, AppendIsConcat
    <2> QED BY <2>1, Zenon
  <1>3. o \o <<>> = o
    BY <1>1, ConcatEmptySeq
  <1> QED BY <1>1, <1>2, <1>3, Zenon DEF o

LEMMA OpenAppend ==
  ASSUME NEW T, NEW bs \in Seq(T), NEW b
  PROVE  /\ OpenBanks(<<>>) = <<>>
         /\ OpenBanks(Append(bs, b)) = Append(OpenBanks(bs), OpenBank(b))
  <1> DEFINE n == Len(bs)
  <1>1. n \in Nat /\ DOMAIN bs = 1..n
    BY LenProperties
  <1>2. /\ DOMAIN Append(bs, b) = 1..(n + 1)
        /\ \A i \in 1..n : Append(bs, b)[i] = bs[i]
        /\ Append(bs, b)[n + 1] = b
    OBVIOUS
  <1>3. OpenBanks(bs) \in [1..n -> {OpenBank(bs[i]) : i \in 1..n}]
    BY <1>1 DEF OpenBanks
  <1>4. OpenBanks(bs) \in Seq({OpenBank(bs[i]) : i \in 1..n}) /\ Len(OpenBanks(bs)) = n
    BY <1>1, <1>3
  <1> DEFINE o == OpenBanks(bs)
  <1> DEFINE e == OpenBank(b)
  <1>5. \A i \in 1..n : o[i] = OpenBank(bs[i])
    BY <1>1 DEF OpenBanks
  <1> HIDE DEF o, e
  <1>6. /\ \A i \in 1..n : Append(o, e)[i] = o[i]
        /\ Append(o, e)[n + 1] = e
        /\ Append(o, e) = [i \in 1..(n + 1) |-> Append(o, e)[i]]
    <2> DEFINE W == {OpenBank(bs[i]) : i \in 1..n} \cup {e}
    <2>1. o \in Seq(W) /\ Len(o) = n /\ e \in W
      <3>1. {OpenBank(bs[i]) : i \in 1..n} \subseteq W
        OBVIOUS
      <3>2. o \in Seq({OpenBank(bs[i]) : i \in 1..n}) /\ Len(o) = n
        BY <1>4 DEF o
      <3> QED BY <3>1, <3>2, SeqMonotonic
    <2> HIDE DEF W
    <2>2. /\ Append(o, e) \in Seq(W) /\ Len(Append(o, e)) = n + 1
          /\ \A i \in 1..n : Append(o, e)[i] = o[i]
          /\ Append(o, e)[n + 1] = e
      BY <2>1, AppendProperties
    <2>3. Append(o, e) \in [1..(n + 1) -> W]
      BY <2>2, LenProperties
    <2> QED BY <2>2, <2>3
  <1>7. OpenBanks(Append(bs, b)) = [i \in 1..(n + 1) |-> OpenBank(Append(bs, b)[i])]
    BY <1>2 DEF OpenBanks
  <1>8. \A i \in 1..(n + 1) : OpenBank(Append(bs, b)[i]) = Append(o, e)[i]
    BY <1>1, <1>2, <1>5, <1>6 DEF e
  <1>9. OpenBanks(Append(bs, b)) = Append(o, e)
    BY <1>6, <1>7, <1>8
  <1>10. OpenBanks(<<>>) = <<>>
    BY DEF OpenBanks
  <1> QED BY <1>9, <1>10 DEF o, e

(* Reading the accounts of some users, and reading them after decryption.  *)
LEMMA OwnedOpens ==
  ASSUME NEW bs \in Seq(BankRows), NEW owners
  PROVE  /\ OwnedBy(bs, owners) \in Seq(BankRows)
         /\ OpenBanks(OwnedBy(bs, owners)) = OwnedBy(OpenBanks(bs), owners)
  <1> DEFINE Plains == [owner: Nat, details: Details]
  <1> DEFINE S == {s \in Seq(BankRows) :
                     /\ OpenBanks(s) \in Seq(Plains)
                     /\ OwnedBy(s, owners) \in Seq(BankRows)
                     /\ OpenBanks(OwnedBy(s, owners)) = OwnedBy(OpenBanks(s), owners)}
  <1>1. <<>> \in S
    <2>1. <<>> \in Seq(BankRows) /\ <<>> \in Seq(Plains)
      OBVIOUS
    <2>2. OwnedBy(<<>>, owners) = <<>>
      BY OwnedEmpty, Zenon
    <2>3. OpenBanks(<<>>) = <<>>
      BY OpenAppend
    <2> HIDE DEF Plains
    <2> QED BY <2>1, <2>2, <2>3, Zenon
  <1>2. ASSUME NEW s \in Seq(BankRows), NEW b \in BankRows, s \in S
        PROVE  Append(s, b) \in S
    <2> DEFINE e == OpenBank(b)
    <2> DEFINE o == OpenBanks(s)
    <2> DEFINE t == OwnedBy(s, owners)
    <2>1. e \in Plains /\ e.owner = b.owner
      BY DEF OpenBank, BankRows
    <2>2. o \in Seq(Plains) /\ t \in Seq(BankRows) /\ OpenBanks(t) = OwnedBy(o, owners)
      BY <1>2
    <2>3. Append(s, b) \in Seq(BankRows) /\ OpenBanks(Append(s, b)) = Append(o, e)
      BY OpenAppend, AppendProperties
    <2> HIDE DEF o, e, t, Plains
    <2>4. Append(o, e) \in Seq(Plains)
      BY <2>1, <2>2, AppendProperties
    <2>5. CASE b.owner \in owners
      <3>1. OwnedBy(Append(s, b), owners) = Append(t, b)
        BY <2>5, OwnedAppendOne DEF t
      <3>2. OwnedBy(Append(o, e), owners) = Append(OwnedBy(o, owners), e)
        BY <2>1, <2>2, <2>5, OwnedAppendOne
      <3>3. OpenBanks(Append(t, b)) = Append(OpenBanks(t), e)
        BY <2>2, OpenAppend DEF e
      <3>4. Append(t, b) \in Seq(BankRows)
        BY <2>2, AppendProperties
      <3> QED BY <2>2, <2>3, <2>4, <3>1, <3>2, <3>3, <3>4, Zenon
    <2>6. CASE b.owner \notin owners
      <3>1. OwnedBy(Append(s, b), owners) = t
        BY <2>6, OwnedAppendOne DEF t
      <3>2. OwnedBy(Append(o, e), owners) = OwnedBy(o, owners)
        BY <2>1, <2>2, <2>6, OwnedAppendOne
      <3> QED BY <2>2, <2>3, <2>4, <3>1, <3>2, Zenon
    <2> QED BY <2>5, <2>6
  <1> HIDE DEF S
  <1>3. Seq(BankRows) \subseteq S
    BY <1>1, <1>2, SeqInduction
  <1> QED BY <1>3 DEF S

LEMMA OwnedType ==
  ASSUME NEW owners, NEW others,
         NEW bs \in Seq([owner: others, details: Cells(Details) \ {Null}])
  PROVE  OwnedBy(bs, owners) \in
            Seq([owner: others \cap owners, details: Cells(Details) \ {Null}])
  <1> DEFINE T == [owner: others, details: Cells(Details) \ {Null}]
  <1> DEFINE U == [owner: others \cap owners, details: Cells(Details) \ {Null}]
  <1> DEFINE S == {s \in Seq(T) : OwnedBy(s, owners) \in Seq(U)}
  <1>1. <<>> \in S
    <2>1. <<>> \in Seq(T) /\ <<>> \in Seq(U)
      OBVIOUS
    <2>2. OwnedBy(<<>>, owners) = <<>>
      BY OwnedEmpty, Zenon
    <2> HIDE DEF T, U
    <2> QED BY <2>1, <2>2, Zenon
  <1>2. ASSUME NEW s \in Seq(T), NEW b \in T, s \in S
        PROVE  Append(s, b) \in S
    <2>1. Append(s, b) \in Seq(T) /\ OwnedBy(s, owners) \in Seq(U)
      BY <1>2, AppendProperties
    <2>2. b.owner \in owners => b \in U
      OBVIOUS
    <2> HIDE DEF T, U
    <2>3. CASE b.owner \in owners
      <3>1. OwnedBy(Append(s, b), owners) = Append(OwnedBy(s, owners), b)
        BY <2>3, OwnedAppendOne
      <3>2. Append(OwnedBy(s, owners), b) \in Seq(U)
        BY <2>1, <2>2, <2>3, AppendProperties
      <3> QED BY <2>1, <3>1, <3>2
    <2>4. CASE b.owner \notin owners
      <3>1. OwnedBy(Append(s, b), owners) = OwnedBy(s, owners)
        BY <2>4, OwnedAppendOne
      <3> QED BY <2>1, <3>1
    <2> QED BY <2>3, <2>4
  <1> HIDE DEF S
  <1>3. Seq(T) \subseteq S
    BY <1>1, <1>2, SeqInduction
  <1> QED BY <1>3 DEF S

LEMMA OwnedAll ==
  ASSUME NEW T, NEW owners, \A b \in T : b.owner \in owners, NEW bs \in Seq(T)
  PROVE  OwnedBy(bs, owners) = bs
  <1> DEFINE S == {s \in Seq(T) : OwnedBy(s, owners) = s}
  <1>1. <<>> \in S
    BY OwnedEmpty
  <1>2. ASSUME NEW s \in Seq(T), NEW b \in T, s \in S
        PROVE  Append(s, b) \in S
    <2>1. OwnedBy(Append(s, b), owners) = Append(OwnedBy(s, owners), b)
      BY OwnedAppendOne
    <2>2. Append(s, b) \in Seq(T)
      BY AppendProperties
    <2> QED BY <1>2, <2>1, <2>2
  <1> HIDE DEF S
  <1>3. Seq(T) \subseteq S
    BY <1>1, <1>2, SeqInduction
  <1> QED BY <1>3 DEF S

-----------------------------------------------------------------------------
(* The rest of the types: the bank accounts of users who are there, what   *)
(* was answered and how much was written.                                  *)
Bank(owners) == [owner: owners, details: Cells(Details) \ {Null}]

Records ==
    /\ banks \in Seq(Bank(DOMAIN table))
    /\ answer.is \in {"nothing", "done", "not found", "list", "error"}
    /\ writes \in 0..MaxWrites

LEMMA EncryptedDetails ==
  ASSUME KeyOK, NEW details \in Details, NEW owners, NEW id \in owners
  PROVE  [owner |-> id, details |-> Encrypt(details)] \in Bank(owners)
  BY NullAssumption DEF KeyOK, Encrypt, Bank, Cells

LEMMA BanksAreRows ==
  ASSUME Shape, Records
  PROVE  banks \in Seq(BankRows)
  <1>1. Bank(DOMAIN table) \subseteq BankRows
    <2>1. DOMAIN table \subseteq Nat
      BY DEF Shape
    <2> QED BY <2>1 DEF Bank, BankRows, Cells
  <1> QED BY <1>1, SeqMonotonic DEF Records

LEMMA CascadeFits ==
  ASSUME Shape, Records, NEW id \in Ids
  PROVE  /\ OwnedBy(banks, Ids \ {id}) \in Seq(Bank(DOMAIN table \ {id}))
         /\ id \notin DOMAIN table => OwnedBy(banks, Ids \ {id}) = banks
  <1>1. DOMAIN table \subseteq Ids
    BY BoundsAssumption DEF Shape, Ids
  <1>2. DOMAIN table \cap (Ids \ {id}) = DOMAIN table \ {id}
    BY <1>1
  <1>3. OwnedBy(banks, Ids \ {id}) \in Seq(Bank(DOMAIN table \cap (Ids \ {id})))
    BY OwnedType DEF Records, Bank
  <1>4. ASSUME id \notin DOMAIN table
        PROVE  OwnedBy(banks, Ids \ {id}) = banks
    <2>1. \A b \in Bank(DOMAIN table) : b.owner \in Ids \ {id}
      BY <1>1, <1>4 DEF Bank
    <2> QED BY <2>1, OwnedAll DEF Records
  <1> QED BY <1>2, <1>3, <1>4

LEMMA BanksGrow ==
  ASSUME NEW xs, NEW ys, xs \subseteq ys
  PROVE  Seq(Bank(xs)) \subseteq Seq(Bank(ys))
  <1>1. Bank(xs) \subseteq Bank(ys)
    BY DEF Bank
  <1> QED BY <1>1, SeqMonotonic

LEMMA RecordsNext ==
  ASSUME Shape, KeyOK, Records, [Next]_vars
  PROVE  Records'
  <1>1. ASSUME \/ \E what \in {"nothing", "done", "error"} : Tell(what)
               \/ \E q : answer' = [is |-> "not found", call |-> q]
               \/ \E id, s : answer' = [is |-> "list", of |-> id, list |-> s]
               \/ UNCHANGED answer
        PROVE  answer'.is \in {"nothing", "done", "not found", "list", "error"}
    <2>1. answer.is \in {"nothing", "done", "not found", "list", "error"}
      BY DEF Records
    <2>2. CASE \E what \in {"nothing", "done", "error"} : Tell(what)
      <3>1. PICK what \in {"nothing", "done", "error"} : answer' = [is |-> what]
        BY <2>2, Zenon DEF Tell
      <3> QED BY <3>1
    <2>3. CASE \E q : answer' = [is |-> "not found", call |-> q]
      <3>1. PICK q : answer' = [is |-> "not found", call |-> q]
        BY <2>3, Zenon
      <3>2. answer'.is = "not found"
        BY <3>1
      <3> QED BY <3>2
    <2>4. CASE \E id, s : answer' = [is |-> "list", of |-> id, list |-> s]
      BY <2>4
    <2> QED BY <1>1, <2>1, <2>2, <2>3, <2>4
  <1>2. ASSUME Writing \/ UNCHANGED writes
        PROVE  writes' \in 0..MaxWrites
    <2>1. writes \in 0..MaxWrites
      BY DEF Records
    <2> QED BY <1>2, <2>1, BoundsAssumption DEF Writing
  <1> DEFINE Recorded == /\ answer'.is \in {"nothing", "done", "not found", "list", "error"}
                         /\ writes' \in 0..MaxWrites
  <1>a. ASSUME NEW c \in Clients, NEW call, NEW matches, Scan(c, call, matches)
        PROVE  Recorded
    BY <1>1, <1>2, <1>a DEF Scan
  <1>b. ASSUME NEW c \in Clients, ClientStep(c)
        PROVE  Recorded
    <2>1. ASSUME NEW tg \in Accounts, Create(c, NewUser(tg))
          PROVE  Recorded
      BY <1>1, <1>2, <2>1 DEF Create
    <2>2. ASSUME NEW user \in Users, Update(c, user)
          PROVE  Recorded
      BY <1>1, <1>2, <2>2 DEF Update
    <2>3. ASSUME NEW id \in Ids, Delete(c, id) \/ GetByID(c, id) \/ GetByUserID(c, id)
          PROVE  Recorded
      <3>1. CASE Delete(c, id)
        BY <1>1, <1>2, <3>1 DEF Delete
      <3>2. CASE GetByID(c, id)
        BY <1>a, <3>2 DEF GetByID
      <3>3. CASE GetByUserID(c, id)
        BY <1>1, <1>2, <3>3 DEF GetByUserID
      <3> QED BY <2>3, <3>1, <3>2, <3>3
    <2>4. ASSUME NEW tg \in Accounts, GetByTelegramID(c, tg)
          PROVE  Recorded
      BY <1>a, <2>4 DEF GetByTelegramID
    <2>5. ASSUME GetNextPendingUser(c)
          PROVE  Recorded
      <3> HIDE DEF Recorded
      <3> QED BY <1>a, <2>5 DEF GetNextPendingUser
    <2>6. ASSUME QueryFails(c)
          PROVE  Recorded
      BY <1>1, <1>2, <2>6 DEF QueryFails
    <2>7. ASSUME NEW id \in Ids, NEW details \in Details, CreateAccount(c, id, details)
          PROVE  Recorded
      BY <1>1, <1>2, <2>7 DEF CreateAccount
    <2> HIDE DEF Recorded
    <2> QED BY <1>b, <2>1, <2>2, <2>3, <2>4, <2>5, <2>6, <2>7 DEF ClientStep
  <1>c. ASSUME NEW id \in Ids, Grant(id)
        PROVE  Recorded
    BY <1>1, <1>2, <1>c DEF Grant
  <1>d. ASSUME ChangeKey \/ UNCHANGED vars
        PROVE  Recorded
    BY <1>1, <1>2, <1>d DEF ChangeKey, vars
  <1>e. Recorded
    <2> HIDE DEF Recorded
    <2> QED BY <1>b, <1>c, <1>d DEF Next
  <1>3. ASSUME DOMAIN table \subseteq DOMAIN table', UNCHANGED banks
        PROVE  banks' \in Seq(Bank(DOMAIN table'))
    BY <1>3, BanksGrow DEF Records
  <1>4. ASSUME NEW c \in Clients, NEW tg \in Accounts, Create(c, NewUser(tg))
        PROVE  banks' \in Seq(Bank(DOMAIN table'))
    <2>1. DOMAIN table \subseteq DOMAIN table' /\ UNCHANGED banks
      BY <1>4 DEF Create
    <2> QED BY <1>3, <2>1
  <1>5. ASSUME NEW c \in Clients, NEW user \in Users, Update(c, user)
        PROVE  banks' \in Seq(Bank(DOMAIN table'))
    <2>1. DOMAIN table \subseteq DOMAIN table' /\ UNCHANGED banks
      BY <1>5 DEF Update
    <2> QED BY <1>3, <2>1
  <1>6. ASSUME NEW c \in Clients, NEW id \in Ids, Delete(c, id)
        PROVE  banks' \in Seq(Bank(DOMAIN table'))
    <2>1. DOMAIN table' = DOMAIN table \ {id} /\ banks' = OwnedBy(banks, Ids \ {id})
      BY <1>6 DEF Delete
    <2> QED BY <2>1, CascadeFits
  <1>7. ASSUME NEW c \in Clients, NEW id \in Ids, NEW details \in Details,
               CreateAccount(c, id, details)
        PROVE  banks' \in Seq(Bank(DOMAIN table'))
    <2>1. table' = table
      BY <1>7 DEF CreateAccount
    <2> DEFINE b == [owner |-> id, details |-> Encrypt(details)]
    <2>2. CASE id \in DOMAIN table /\ banks' = Append(banks, b)
      <3>1. b \in Bank(DOMAIN table)
        BY <2>2, EncryptedDetails
      <3> HIDE DEF b
      <3>2. Append(banks, b) \in Seq(Bank(DOMAIN table))
        BY <3>1, AppendProperties DEF Records
      <3> QED BY <2>1, <2>2, <3>2
    <2>3. CASE UNCHANGED banks
      BY <1>3, <2>1, <2>3
    <2> QED BY <1>7, <2>2, <2>3 DEF CreateAccount
  <1>8. ASSUME NEW id \in Ids, Grant(id)
        PROVE  banks' \in Seq(Bank(DOMAIN table'))
    <2>1. DOMAIN table \subseteq DOMAIN table' /\ UNCHANGED banks
      BY <1>8 DEF Grant
    <2> QED BY <1>3, <2>1
  <1>10. \/ UNCHANGED <<table, banks>>
         \/ \E c \in Clients, tg \in Accounts : Create(c, NewUser(tg))
         \/ \E c \in Clients, user \in Users : Update(c, user)
         \/ \E c \in Clients, id \in Ids : Delete(c, id)
         \/ \E c \in Clients, id \in Ids, details \in Details :
               CreateAccount(c, id, details)
         \/ \E id \in Ids : Grant(id)
    BY DEF Next, ClientStep, GetByID, GetByUserID, GetByTelegramID,
           GetNextPendingUser, Scan, QueryFails, ChangeKey, vars
  <1>11. banks' \in Seq(Bank(DOMAIN table'))
    BY <1>3, <1>4, <1>5, <1>6, <1>7, <1>8, <1>10
  <1> QED BY <1>e, <1>11 DEF Records

LEMMA InitRecords == Init => Records
  <1> SUFFICES ASSUME Init PROVE Records
    OBVIOUS
  <1>1. banks \in Seq(Bank(DOMAIN table))
    BY DEF Init
  <1> QED BY <1>1, BoundsAssumption DEF Init, Records

(* Every bank account has an owner in the users table.                     *)
THEOREM RecordsHold == Spec => []Records
  <1>1. Init => Records
    BY InitRecords
  <1>2. Inv /\ KeyOK /\ Records /\ [Next]_vars => Records'
    BY RecordsNext DEF Inv
  <1> QED BY <1>1, <1>2, InvHolds, PTL DEF Spec

(* The repositories keep their types: no bank account is left behind by a  *)
(* deleted user, and no encrypted column holds anything but a cell or NULL.*)
THEOREM TypesHold == Spec => []TypeOK
  <1>1. Inv /\ KeyOK /\ Records => TypeOK
    <2> SUFFICES ASSUME Shape, KeyOK, Records PROVE TypeOK
      BY DEF Inv
    <2>1. copies \in [Clients -> [id: 1..created, user: Users] \cup {Nobody}]
      <3>1. ASSUME NEW c \in Clients, copies[c] # Nobody
            PROVE  copies[c] \in [id: 1..created, user: Users]
        BY <3>1 DEF Shape
      <3> QED BY <3>1 DEF Shape
    <2>2. created \in 0..MaxUsers /\ \A id \in DOMAIN table : table[id] \in Rows
      BY BoundsAssumption DEF Shape
    <2> QED BY <2>1, <2>2 DEF Shape, KeyOK, Records, Bank, TypeOK
  <1> QED BY <1>1, InvHolds, RecordsHold, PTL

-----------------------------------------------------------------------------
(* The refinement: decryption of every row, whatever key it was written    *)
(* with, gives the table of UserTable, and each call of a repository is a  *)
(* call of it that takes effect, or one that fails.                        *)
OpenUsers == [id \in DOMAIN table |-> Opened(table[id])]
PlainBanks == OpenBanks(banks)

LEMMA PlainOwned == \A bs, owners : Plain!OwnedBy(bs, owners) = OwnedBy(bs, owners)
  <1>1. \A s : Plain!FlattenSeq(s) = FlattenSeq(s)
    BY Zenon DEF Plain!FlattenSeq, FlattenSeq
  <1> QED BY <1>1, Zenon DEF Plain!OwnedBy, OwnedBy

LEMMA OpenedSealed ==
  ASSUME KeyOK, NEW user \in Users
  PROVE  Opened(Sealed(user)) = user
  <1>1. /\ DecryptColumn(EncryptColumn(user.phone)) = user.phone
        /\ DecryptColumn(EncryptColumn(user.gov)) = user.gov
    <2>1. \A p \in Phones \cup GovIDs : Encrypt(p) # Null /\ Encrypt(p).plain = p
      BY NullAssumption DEF Encrypt, KeyOK
    <2>2. user.phone \in Phones \cup {Null} /\ user.gov \in GovIDs \cup {Null}
      BY DEF Users
    <2> QED BY <2>1, <2>2 DEF DecryptColumn, EncryptColumn
  <1> QED BY <1>1 DEF Opened, Sealed, Users

LEMMA OpenedRows ==
  ASSUME Shape
  PROVE  /\ DOMAIN OpenUsers = DOMAIN table
         /\ \A id \in DOMAIN table :
               /\ OpenUsers[id] = Opened(table[id])
               /\ OpenUsers[id].tg = table[id].tg
               /\ OpenUsers[id].status = table[id].status
               /\ OpenUsers[id] \in Users
  <1>1. ASSUME NEW id \in DOMAIN table
        PROVE  /\ Opened(table[id]).tg = table[id].tg
               /\ Opened(table[id]).status = table[id].status
               /\ Opened(table[id]) \in Users
    <2>1. table[id] \in Rows
      BY DEF Shape
    <2> QED BY <2>1, OpenedIsUser DEF Opened, Rows
  <1> QED BY <1>1 DEF OpenUsers

(* The steps of the table of users in terms of this one.                   *)
LEMMA FailStep ==
  ASSUME NEW c \in Clients, answer' = [is |-> "error"],
         UNCHANGED copies \/ copies' = [copies EXCEPT ![c] = Nobody],
         UNCHANGED <<OpenUsers, PlainBanks>>
  PROVE  Plain!Next
  <1>1. Plain!Fail(c)
    BY DEF Plain!Fail, Plain!Tell, Plain!Hold, OpenUsers, PlainBanks, OpenBanks, OpenBank
  <1> QED BY <1>1 DEF Plain!Next

LEMMA CreateRefines ==
  ASSUME Shape, KeyOK, NEW c \in Clients, NEW tg \in Accounts, Create(c, NewUser(tg))
  PROVE  Plain!Next
  <1> DEFINE id == created + 1
  <1> DEFINE user == NewUser(tg)
  <1>1. user \in Users /\ user.tg = tg
    BY DEF NewUser, Users, Statuses
  <1>2. /\ id \notin DOMAIN table /\ id \in Ids
        /\ UNCHANGED <<banks, copies>>
    BY BoundsAssumption DEF Create, Shape, Ids
  <1>3. CASE table' = table /\ answer' = [is |-> "error"]
    BY <1>2, <1>3, FailStep DEF OpenUsers, PlainBanks
  <1>4. CASE /\ \A i \in DOMAIN table : table[i].tg # tg
             /\ table' = [i \in DOMAIN table \cup {id} |->
                            IF i = id THEN Sealed(user) ELSE table[i]]
             /\ answer' = [is |-> "done"]
    <2>1. Opened(Sealed(user)) = user
      BY <1>1, OpenedSealed
    <2> HIDE DEF user, id
    <2>2. OpenUsers' = [i \in DOMAIN table \cup {id} |->
                          IF i = id THEN user ELSE OpenUsers[i]]
      BY <1>2, <1>4, <2>1 DEF OpenUsers
    <2>3. DOMAIN OpenUsers = DOMAIN table /\ \A i \in DOMAIN table : OpenUsers[i].tg # user.tg
      BY <1>1, <1>4, OpenedRows
    <2>4. /\ id \notin DOMAIN OpenUsers
          /\ \A i \in DOMAIN OpenUsers : OpenUsers[i].tg # user.tg
          /\ OpenUsers' = [i \in DOMAIN OpenUsers \cup {id} |->
                             IF i = id THEN user ELSE OpenUsers[i]]
          /\ UNCHANGED <<PlainBanks, copies>>
      BY <1>2, <2>2, <2>3 DEF PlainBanks
    <2>5. Plain!Insert(c, id, user)
      BY <1>4, <2>4 DEF Plain!Insert, Plain!Tell, OpenUsers, PlainBanks, OpenBanks, OpenBank
    <2> QED BY <1>1, <1>2, <2>5 DEF Plain!Next
  <1> QED BY <1>1, <1>3, <1>4 DEF Create, Tell

LEMMA UpdateRefines ==
  ASSUME Shape, KeyOK, NEW c \in Clients, NEW user \in Users, Update(c, user)
  PROVE  Plain!Next
  <1> DEFINE id == copies[c].id
  <1>0. /\ copies[c] # Nobody /\ user.tg = copies[c].user.tg
        /\ user.moderator = copies[c].user.moderator
        /\ UNCHANGED banks
    BY DEF Update, Edits
  <1>1. CASE UNCHANGED <<table, copies>> /\ answer' = [is |-> "error"]
    BY <1>0, <1>1, FailStep DEF OpenUsers, PlainBanks
  <1>2. CASE /\ id \in DOMAIN table
             /\ table' = [table EXCEPT ![id] = Sealed(user)]
             /\ copies' = [copies EXCEPT ![c].user = user]
             /\ answer' = [is |-> "done"]
    <2>1. Opened(Sealed(user)) = user
      BY OpenedSealed
    <2>2. OpenUsers' = [OpenUsers EXCEPT ![id] = user]
      <3> HIDE DEF id
      <3> QED BY <1>2, <2>1 DEF OpenUsers
    <2>3. copies' = [copies EXCEPT ![c] = [copies[c] EXCEPT !.user = user]]
      BY <1>2
    <2>4. id \in DOMAIN OpenUsers /\ UNCHANGED PlainBanks
      BY <1>0, <1>2 DEF OpenUsers, PlainBanks
    <2>5. Plain!Overwrite(c, user)
      BY <1>0, <1>2, <2>2, <2>3, <2>4
         DEF Plain!Overwrite, Plain!Tell, Plain!Hold, OpenUsers, PlainBanks, OpenBanks, OpenBank
    <2> QED BY <2>5 DEF Plain!Next
  <1> QED BY <1>1, <1>2 DEF Update, Tell

LEMMA DeleteRefines ==
  ASSUME Shape, Records, NEW c \in Clients, NEW id \in Ids, Delete(c, id)
  PROVE  Plain!Next
  <1>1. /\ table' = [i \in DOMAIN table \ {id} |-> table[i]]
        /\ banks' = OwnedBy(banks, Ids \ {id})
        /\ answer' = [is |-> IF id \in DOMAIN table THEN "done" ELSE "error"]
        /\ UNCHANGED copies
    BY DEF Delete, Tell
  <1>2. CASE id \in DOMAIN table
    <2>1. OpenUsers' = [i \in DOMAIN OpenUsers \ {id} |-> OpenUsers[i]]
      BY <1>1 DEF OpenUsers
    <2>2. PlainBanks' = Plain!OwnedBy(PlainBanks, Ids \ {id})
      BY <1>1, BanksAreRows, OwnedOpens, PlainOwned DEF PlainBanks
    <2>3. Plain!DropUser(c, id)
      BY <1>1, <1>2, <2>1, <2>2
         DEF Plain!DropUser, Plain!Tell, OpenUsers, PlainBanks, OpenBanks, OpenBank
    <2> QED BY <2>3 DEF Plain!Next
  <1>3. CASE id \notin DOMAIN table
    <2>1. banks' = banks
      BY <1>1, <1>3, CascadeFits
    <2>2. OpenUsers' = OpenUsers
      BY <1>1, <1>3 DEF OpenUsers
    <2> QED BY <1>1, <1>3, <2>1, <2>2, FailStep DEF PlainBanks
  <1> QED BY <1>2, <1>3

LEMMA ScanRefines ==
  ASSUME Shape, NEW c \in Clients, NEW call, NEW matches \in SUBSET DOMAIN table,
         Scan(c, call, matches)
  PROVE  Plain!Find(c, call, matches) \/ Plain!Next
  <1>0. UNCHANGED <<OpenUsers, PlainBanks>>
    BY DEF Scan, OpenUsers, PlainBanks
  <1>1. CASE /\ matches = {} /\ copies' = [copies EXCEPT ![c] = Nobody]
             /\ answer' = [is |-> "not found", call |-> call]
    BY <1>0, <1>1 DEF Plain!Find, Plain!Hold, OpenUsers, PlainBanks, OpenBanks, OpenBank
  <1>2. ASSUME NEW id \in matches, \A other \in matches : id <= other,
               copies' = [copies EXCEPT ![c] = [id |-> id, user |-> Opened(table[id])]],
               answer' = [is |-> "done"]
        PROVE  Plain!Find(c, call, matches)
    <2>1. OpenUsers[id] = Opened(table[id])
      BY <1>2 DEF OpenUsers
    <2>2. copies' = [copies EXCEPT ![c] = [id |-> id, user |-> OpenUsers[id]]]
      BY <1>2, <2>1
    <2> QED BY <1>0, <1>2, <2>2
            DEF Plain!Find, Plain!Hold, Plain!Tell, OpenUsers, PlainBanks, OpenBanks, OpenBank
  <1>3. CASE copies' = [copies EXCEPT ![c] = Nobody] /\ answer' = [is |-> "error"]
    BY <1>0, <1>3, FailStep
  <1> QED BY <1>1, <1>2, <1>3 DEF Scan, Tell

LEMMA ReadRefines ==
  ASSUME Shape, NEW c \in Clients,
         \/ \E id \in Ids : GetByID(c, id)
         \/ \E tg \in Accounts : GetByTelegramID(c, tg)
         \/ GetNextPendingUser(c)
  PROVE  Plain!Next
  <1>0. /\ DOMAIN OpenUsers = DOMAIN table
        /\ \A id \in DOMAIN table :
               /\ OpenUsers[id].tg = table[id].tg
               /\ OpenUsers[id].status = table[id].status
    BY OpenedRows
  <1>1. ASSUME NEW id \in Ids, GetByID(c, id)
        PROVE  Plain!Next
    <2> DEFINE M == DOMAIN table \cap {id}
    <2>1. Plain!Find(c, <<"id", id>>, M) \/ Plain!Next
      BY <1>1, ScanRefines DEF GetByID
    <2>2. M = DOMAIN OpenUsers \cap {id}
      BY <1>0
    <2> QED BY <2>1, <2>2 DEF Plain!Next, OpenUsers
  <1>2. ASSUME NEW tg \in Accounts, GetByTelegramID(c, tg)
        PROVE  Plain!Next
    <2> DEFINE M == {id \in DOMAIN table : table[id].tg = tg}
    <2>1. Plain!Find(c, <<"telegram id", tg>>, M) \/ Plain!Next
      BY <1>2, ScanRefines DEF GetByTelegramID
    <2>2. M = {i \in DOMAIN OpenUsers : OpenUsers[i].tg = tg}
      BY <1>0
    <2> HIDE DEF M
    <2> QED BY <2>1, <2>2 DEF Plain!Next, OpenUsers
  <1>3. ASSUME GetNextPendingUser(c)
        PROVE  Plain!Next
    <2> DEFINE M == {id \in DOMAIN table : table[id].status = "pending"}
    <2>0. M \in SUBSET DOMAIN table
      OBVIOUS
    <2>a. Scan(c, <<"pending">>, M)
      BY <1>3 DEF GetNextPendingUser
    <2>2. M = {i \in DOMAIN OpenUsers : OpenUsers[i].status = "pending"}
      BY <1>0
    <2> HIDE DEF M
    <2>1. Plain!Find(c, <<"pending">>, M) \/ Plain!Next
      BY <2>0, <2>a, ScanRefines
    <2> QED BY <2>1, <2>2 DEF Plain!Next, OpenUsers
  <1> QED BY <1>1, <1>2, <1>3

LEMMA AccountRefines ==
  ASSUME Records, NEW c \in Clients, NEW id \in Ids, NEW details \in Details,
         CreateAccount(c, id, details)
  PROVE  Plain!Next
  <1>0. UNCHANGED <<table, copies, OpenUsers>>
    BY DEF CreateAccount, OpenUsers
  <1>1. CASE /\ id \in DOMAIN table
             /\ banks' = Append(banks, [owner |-> id, details |-> Encrypt(details)])
             /\ answer' = [is |-> "done"]
    <2> DEFINE b == [owner |-> id, details |-> Encrypt(details)]
    <2> DEFINE e == [owner |-> id, details |-> details]
    <2>1. OpenBank(b) = e
      BY DEF OpenBank, Encrypt
    <2> HIDE DEF b
    <2>2. banks \in Seq(Bank(DOMAIN table))
      BY DEF Records
    <2>3. OpenBanks(Append(banks, b)) = Append(OpenBanks(banks), OpenBank(b))
      BY <2>2, OpenAppend
    <2>4. PlainBanks' = Append(PlainBanks, e)
      BY <1>1, <2>1, <2>3 DEF PlainBanks, b
    <2>5. id \in DOMAIN OpenUsers
      BY <1>1 DEF OpenUsers
    <2>6. Plain!AddBank(c, id, details)
      BY <1>0, <1>1, <2>4, <2>5
         DEF Plain!AddBank, Plain!Tell, OpenUsers, PlainBanks, OpenBanks, OpenBank
    <2> QED BY <2>6 DEF Plain!Next
  <1>2. CASE UNCHANGED banks /\ answer' = [is |-> "error"]
    BY <1>0, <1>2, FailStep DEF PlainBanks
  <1> QED BY <1>1, <1>2 DEF CreateAccount, Tell

LEMMA ListRefines ==
  ASSUME Shape, Records, NEW c \in Clients, NEW id \in Ids, GetByUserID(c, id)
  PROVE  Plain!Next
  <1> DEFINE own == OwnedBy(banks, {id})
  <1>0. UNCHANGED <<OpenUsers, PlainBanks, copies>>
    BY DEF GetByUserID, OpenUsers, PlainBanks
  <1>1. own \in Seq(BankRows) /\ OpenBanks(own) = Plain!OwnedBy(PlainBanks, {id})
    BY BanksAreRows, OwnedOpens, PlainOwned DEF PlainBanks
  <1>2. \/ answer' = [is |-> "list", of |-> id, list |->
               [n \in DOMAIN own |-> own[Len(own) + 1 - n].details.plain]]
        \/ answer' = [is |-> "error"]
    BY DEF GetByUserID, Tell
  <1> HIDE DEF own
  <1>3. CASE answer' = [is |-> "list", of |-> id, list |->
               [n \in DOMAIN own |-> own[Len(own) + 1 - n].details.plain]]
    <2> DEFINE o == OpenBanks(own)
    <2>1. /\ Len(own) \in Nat /\ DOMAIN own = 1..Len(own)
          /\ DOMAIN o = 1..Len(own)
          /\ \A n \in 1..Len(own) : o[n].details = own[n].details.plain
      BY <1>1, LenProperties DEF OpenBanks, OpenBank
    <2>2. Len(o) = Len(own)
      BY <2>1 DEF OpenBanks
    <2> HIDE DEF o
    <2>3. [n \in DOMAIN own |-> own[Len(own) + 1 - n].details.plain] =
          [n \in DOMAIN o |-> o[Len(o) + 1 - n].details]
      <3>1. \A n \in 1..Len(own) : Len(own) + 1 - n \in 1..Len(own)
        BY <2>1
      <3> QED BY <2>1, <2>2, <3>1
    <2>4. answer' = [is |-> "list", of |-> id, list |->
                       [n \in DOMAIN o |-> o[Len(o) + 1 - n].details]]
      BY <1>3, <2>3
    <2>5. o = Plain!OwnedBy(PlainBanks, {id})
      BY <1>1 DEF o
    <2>6. Plain!ListBanks(c, id)
      BY <1>0, <2>4, <2>5
         DEF Plain!ListBanks, OpenUsers, PlainBanks, OpenBanks, OpenBank
    <2> QED BY <2>6 DEF Plain!Next
  <1>4. CASE answer' = [is |-> "error"]
    BY <1>0, <1>4, FailStep
  <1> QED BY <1>2, <1>3, <1>4

LEMMA GrantRefines ==
  ASSUME Shape, NEW id \in Ids, Grant(id)
  PROVE  Plain!Next
  <1>1. /\ id \in DOMAIN table /\ table' = [table EXCEPT ![id].moderator = ~@]
        /\ answer' = [is |-> "nothing"] /\ UNCHANGED <<banks, copies>>
    BY DEF Grant, Tell
  <1>2. Opened([table[id] EXCEPT !.moderator = ~@]) =
        [Opened(table[id]) EXCEPT !.moderator = ~@]
    <2>1. table[id] \in Rows
      BY <1>1 DEF Shape
    <2> QED BY <2>1 DEF Opened, Rows
  <1>3. OpenUsers' = [OpenUsers EXCEPT ![id].moderator = ~@]
    BY <1>1, <1>2 DEF OpenUsers
  <1>4. Plain!Grant(id)
    BY <1>1, <1>3 DEF Plain!Grant, Plain!Tell, OpenUsers, PlainBanks, OpenBanks, OpenBank
  <1> QED BY <1>4 DEF Plain!Next

LEMMA NextRefines ==
  ASSUME Shape, KeyOK, Records, [Next]_vars
  PROVE  [Plain!Next]_Plain!vars
  <1>1. CASE UNCHANGED vars
    BY <1>1 DEF vars, Plain!vars
  <1>2. CASE ChangeKey
    <2>1. Plain!StartAgain
      BY <1>2 DEF ChangeKey, Tell, Plain!StartAgain, Plain!Tell
    <2> QED BY <2>1 DEF Plain!Next
  <1>3. ASSUME NEW id \in Ids, Grant(id)
        PROVE  Plain!Next
    BY <1>3, GrantRefines
  <1>4. ASSUME NEW c \in Clients, ClientStep(c)
        PROVE  Plain!Next
    <2>1. ASSUME QueryFails(c)
          PROVE  Plain!Next
      BY <2>1, FailStep DEF QueryFails, Tell, OpenUsers, PlainBanks
    <2> QED BY <1>4, <2>1, CreateRefines, UpdateRefines, DeleteRefines,
               ReadRefines, AccountRefines, ListRefines DEF ClientStep
  <1> QED BY <1>1, <1>2, <1>3, <1>4 DEF Next

(* The repositories are the table they promise to be: encryption loses and *)
(* changes nothing, and a row that does not decrypt is a call that failed. *)
THEOREM TableKeepsPromise == Spec => ImplementsUserTable
  <1>1. Init => Plain!Init
    BY DEF Init, Plain!Init
  <1>2. Inv /\ KeyOK /\ Records /\ [Next]_vars => [Plain!Next]_Plain!vars
    BY NextRefines DEF Inv
  <1> QED BY <1>1, <1>2, InvHolds, RecordsHold, PTL
          DEF Spec, ImplementsUserTable, Plain!Spec
=============================================================================
