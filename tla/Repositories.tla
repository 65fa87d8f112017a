----------------------------- MODULE Repositories -----------------------------
(***************************************************************************)
(* postgres.userRepository and postgres.userBankAccountRepository over     *)
(* their tables: phone numbers, government ids and bank details are stored *)
(* encrypted, and a row that does not decrypt cannot be read at all.       *)
(*                                                                         *)
(* A stored value is a cell: a plain value and the key it was sealed with. *)
(* AES-GCM opens a cell with its own key only and fails with another one.  *)
(* Callers hold a decrypted copy while others write, as handlers do.  The  *)
(* columns left out are plain values that are stored like the status.      *)
(***************************************************************************)
EXTENDS Naturals, SequencesExt

CONSTANTS
    Clients,            \* goroutines that call the repositories
    Accounts,           \* telegram ids
    Phones, GovIDs,     \* plain values of the encrypted columns
    Details,            \* of bank accounts
    Keys,               \* encryption keys of one start or another
    Null, Nobody,       \* NULL; a client that holds no user
    MaxUsers,           \* bound: users ever created
    MaxWrites           \* bound: changes of the tables and of the key

ASSUME BoundsAssumption == MaxUsers \in Nat /\ MaxWrites \in Nat
ASSUME NullAssumption ==
    /\ Null \notin Phones \cup GovIDs
    /\ Null \notin [key: Keys, plain: Phones \cup GovIDs \cup Details]
ASSUME NobodyAssumption ==
    Nobody \notin [id: Nat, user: [tg: Accounts, status: {"pending", "level_1"},
                    phone: Phones \cup {Null}, gov: GovIDs \cup {Null},
                    moderator: BOOLEAN]]

VARIABLES
    secret,     \* the key of this process
    table,      \* users: id -> row
    created,    \* how many ids have been drawn
    banks,      \* user_bank_accounts
    copies,     \* the user each client holds, or Nobody
    answer,     \* what came of the last call
    turns,      \* history: how often is_moderator has changed, by id
    seen,       \* history: the same at the time each client's copy was read
    writes      \* changes so far

vars == <<secret, table, created, banks, copies, answer, turns, seen, writes>>

Ids == 1..MaxUsers
Statuses == {"pending", "level_1"}

Cells(plains) == [key: Keys, plain: plains] \cup {Null}
Users == [tg: Accounts, status: Statuses, phone: Phones \cup {Null},
          gov: GovIDs \cup {Null}, moderator: BOOLEAN]
Rows == [tg: Accounts, status: Statuses, phone: Cells(Phones),
         gov: Cells(GovIDs), moderator: BOOLEAN]

-----------------------------------------------------------------------------
(* The encryption service, and a row as the program writes and reads it.   *)
Encrypt(plain) == [key |-> secret, plain |-> plain]

\* Mutant: NULL is sealed like a value.
EncryptAnything(plain) == Encrypt(plain)

EncryptColumn(plain) == IF plain = Null THEN Null ELSE Encrypt(plain)
DecryptColumn(cell) == IF cell = Null THEN Null ELSE cell.plain

Decrypts(cell) == cell # Null => cell.key = secret

\* Mutant: a government id that does not decrypt is passed over.
ReadableByPhone(row) == Decrypts(row.phone)

Readable(row) == Decrypts(row.phone) /\ Decrypts(row.gov)

Sealed(user) == [user EXCEPT !.phone = EncryptColumn(@), !.gov = EncryptColumn(@)]
Opened(row) == [row EXCEPT !.phone = DecryptColumn(@), !.gov = DecryptColumn(@)]

-----------------------------------------------------------------------------
TypeOK ==
    /\ secret \in Keys
    /\ created \in 0..MaxUsers
    /\ DOMAIN table \subseteq 1..created
    /\ \A id \in DOMAIN table : table[id] \in Rows
    /\ banks \in Seq([owner: DOMAIN table, details: Cells(Details) \ {Null}])
    /\ copies \in [Clients -> [id: 1..created, user: Users] \cup {Nobody}]
    /\ answer.is \in {"nothing", "done", "not found", "list", "error"}
    /\ turns \in [Ids -> Nat]
    /\ seen \in [Clients -> Nat]
    /\ writes \in 0..MaxWrites

Init ==
    /\ secret \in Keys
    /\ table = <<>> /\ created = 0 /\ banks = <<>>
    /\ copies = [c \in Clients |-> Nobody]
    /\ answer = [is |-> "nothing"]
    /\ turns = [id \in Ids |-> 0]
    /\ seen = [c \in Clients |-> 0]
    /\ writes = 0

Tell(is) == answer' = [is |-> is]

Writing == writes < MaxWrites /\ writes' = writes + 1

Turned(before, after) == IF before = after THEN 0 ELSE 1

-----------------------------------------------------------------------------
(* The queries of the users table.                                         *)
\* The user of /start, the only one the program creates.
NewUser(tg) == [tg |-> tg, status |-> "pending", phone |-> Null, gov |-> Null,
                moderator |-> FALSE]

\* A new id; a telegram_id that is there already is refused.
Create(c, user) ==
    LET taken == \E id \in DOMAIN table : table[id].tg = user.tg
        id == created + 1 IN
    /\ created < MaxUsers /\ Writing
    /\ created' = id
    /\ table' = IF taken THEN table
                ELSE [i \in DOMAIN table \cup {id} |->
                        IF i = id THEN Sealed(user) ELSE table[i]]
    /\ Tell(IF taken THEN "error" ELSE "done")
    /\ UNCHANGED <<secret, banks, copies, turns, seen>>

\* What a handler may make of its copy before it writes it.
Edits(user) == {u \in Users : u.tg = user.tg /\ u.moderator = user.moderator}

\* Mutant: an upsert that brings a deleted row back.
UpdateOrInsert(c, user) ==
    LET id == copies[c].id IN
    /\ copies[c] # Nobody /\ Writing
    /\ user \in Edits(copies[c].user)
    /\ table' = [i \in DOMAIN table \cup {id} |->
                    IF i = id THEN Sealed(user) ELSE table[i]]
    /\ Tell("done")
    /\ UNCHANGED <<secret, created, banks, copies, turns, seen>>

\* Mutant: is_moderator is not scanned, so every copy has it FALSE.
UpdateForgettingRights(c, user) ==
    LET id == copies[c].id IN
    /\ copies[c] # Nobody /\ Writing
    /\ user \in Edits(copies[c].user)
    /\ id \in DOMAIN table
    /\ table' = [table EXCEPT ![id] = [Sealed(user) EXCEPT !.moderator = FALSE]]
    /\ turns' = [turns EXCEPT ![id] = @ + Turned(table[id].moderator, FALSE)]
    /\ Tell("done")
    /\ UNCHANGED <<secret, created, banks, copies, seen>>

\* Every column but telegram_id, which no copy changes.
Update(c, user) ==
    LET id == copies[c].id IN
    /\ copies[c] # Nobody /\ Writing
    /\ user \in Edits(copies[c].user)
    /\ \/ /\ id \in DOMAIN table
          /\ table' = [table EXCEPT ![id] = Sealed(user)]
          /\ turns' = [turns EXCEPT ![id] =
                          @ + Turned(table[id].moderator, user.moderator)]
          /\ copies' = [copies EXCEPT ![c].user = user]
          /\ Tell("done")
       \/ /\ id \notin DOMAIN table
          /\ Tell("error")
          /\ UNCHANGED <<table, turns, copies>>
    /\ UNCHANGED <<secret, created, banks, seen>>

\* The bank accounts of some users, in their order.
OwnedBy(accounts, owners) ==
    FlattenSeq([n \in DOMAIN accounts |->
        IF accounts[n].owner \in owners THEN <<accounts[n]>> ELSE <<>>])

\* The foreign key of the accounts has ON DELETE CASCADE.
Delete(c, id) ==
    /\ Writing
    /\ table' = [i \in DOMAIN table \ {id} |-> table[i]]
    /\ banks' = OwnedBy(banks, Ids \ {id})
    /\ Tell(IF id \in DOMAIN table THEN "done" ELSE "error")
    /\ UNCHANGED <<secret, created, copies, turns, seen>>

\* Mutant: a row that cannot be read is taken for one that is not there.
ScanHidingErrors(c, call, matches) ==
    LET readable == {id \in matches : Readable(table[id])} IN
    /\ \/ /\ readable = {}
          /\ copies' = [copies EXCEPT ![c] = Nobody]
          /\ answer' = [is |-> "not found", call |-> call]
          /\ UNCHANGED seen
       \/ \E id \in readable :
          /\ \A other \in matches : id <= other
          /\ copies' = [copies EXCEPT ![c] = [id |-> id, user |-> Opened(table[id])]]
          /\ Tell("done")
          /\ seen' = [seen EXCEPT ![c] = turns[id]]
    /\ UNCHANGED <<secret, table, created, banks, turns, writes>>

\* scanUser, on the first row of the query if there is one.
Scan(c, call, matches) ==
    /\ \/ /\ matches = {}
          /\ copies' = [copies EXCEPT ![c] = Nobody]
          /\ answer' = [is |-> "not found", call |-> call]
          /\ UNCHANGED seen
       \/ \E id \in matches :
          /\ \A other \in matches : id <= other
          /\ \/ /\ Readable(table[id])
                /\ copies' = [copies EXCEPT ![c] =
                                 [id |-> id, user |-> Opened(table[id])]]
                /\ Tell("done")
                /\ seen' = [seen EXCEPT ![c] = turns[id]]
             \/ /\ ~Readable(table[id])
                /\ copies' = [copies EXCEPT ![c] = Nobody]
                /\ Tell("error")
                /\ UNCHANGED seen
    /\ UNCHANGED <<secret, table, created, banks, turns, writes>>

GetByID(c, id) == Scan(c, <<"id", id>>, DOMAIN table \cap {id})

GetByTelegramID(c, tg) ==
    Scan(c, <<"telegram id", tg>>, {id \in DOMAIN table : table[id].tg = tg})

\* Ids are numbered in the order of created_at.
GetNextPendingUser(c) ==
    Scan(c, <<"pending">>, {id \in DOMAIN table : table[id].status = "pending"})

\* A query that fails: a read yields nothing, a write leaves the copy.
QueryFails(c) ==
    /\ Tell("error")
    /\ UNCHANGED copies \/ copies' = [copies EXCEPT ![c] = Nobody]
    /\ UNCHANGED <<secret, table, created, banks, turns, seen, writes>>

-----------------------------------------------------------------------------
(* Bank accounts: their owner must be there.                               *)
CreateAccount(c, id, details) ==
    /\ Writing
    /\ \/ /\ id \in DOMAIN table
          /\ banks' = Append(banks, [owner |-> id, details |-> Encrypt(details)])
          /\ Tell("done")
       \/ /\ id \notin DOMAIN table
          /\ Tell("error")
          /\ UNCHANGED banks
    /\ UNCHANGED <<secret, table, created, copies, turns, seen>>

\* The newest first; one that does not decrypt fails them all.
GetByUserID(c, id) ==
    LET own == OwnedBy(banks, {id}) IN
    /\ \/ /\ \A n \in DOMAIN own : Decrypts(own[n].details)
          /\ answer' = [is |-> "list", of |-> id, list |->
               [n \in DOMAIN own |-> own[Len(own) + 1 - n].details.plain]]
       \/ /\ \E n \in DOMAIN own : ~Decrypts(own[n].details)
          /\ Tell("error")
    /\ UNCHANGED <<secret, table, created, banks, copies, turns, seen, writes>>

-----------------------------------------------------------------------------
(* By hand: is_moderator is set in the table, for nothing in the program   *)
(* does it; the program is started again with another key.                 *)
Grant(id) ==
    /\ id \in DOMAIN table
    /\ Writing
    /\ table' = [table EXCEPT ![id].moderator = ~@]
    /\ turns' = [turns EXCEPT ![id] = @ + 1]
    /\ Tell("nothing")
    /\ UNCHANGED <<secret, created, banks, copies, seen>>

ChangeKey ==
    /\ Writing
    /\ secret' \in Keys \ {secret}
    /\ copies' = [c \in Clients |-> Nobody]
    /\ Tell("nothing")
    /\ UNCHANGED <<table, created, banks, turns, seen>>

-----------------------------------------------------------------------------
ClientStep(c) ==
    \/ \E tg \in Accounts : Create(c, NewUser(tg))
    \/ \E user \in Users : Update(c, user)
    \/ \E id \in Ids : Delete(c, id) \/ GetByID(c, id) \/ GetByUserID(c, id)
    \/ \E tg \in Accounts : GetByTelegramID(c, tg)
    \/ GetNextPendingUser(c)
    \/ QueryFails(c)
    \/ \E id \in Ids, details \in Details : CreateAccount(c, id, details)

Next == \/ \E c \in Clients : ClientStep(c)
        \/ \E id \in Ids : Grant(id)
        \/ ChangeKey

Spec == Init /\ [][Next]_vars

-----------------------------------------------------------------------------
(* Encryption does not show: what is read is what was last written, whole, *)
(* and a row that cannot be read is an error and never an absent user.     *)
Plain == INSTANCE UserTable
         WITH users <- [id \in DOMAIN table |-> Opened(table[id])],
              banks <- [n \in DOMAIN banks |->
                          [owner |-> banks[n].owner,
                           details |-> banks[n].details.plain]]

ImplementsUserTable == Plain!Spec

(* A Telegram user has one row, although copies of a deleted row may be    *)
(* written when the same user has been created anew.                       *)
OneRowPerUser ==
    \A i, j \in DOMAIN table : table[i].tg = table[j].tg => i = j

(* Values sealed with another key survive everything the program does but  *)
(* a deletion: when the old key comes back they can be read again.         *)
Foreign(cell) == cell # Null /\ cell.key # secret

SealedDataSurvives ==
    [][\A id \in DOMAIN table \cap DOMAIN table' :
          /\ Foreign(table[id].phone) => table'[id].phone = table[id].phone
          /\ Foreign(table[id].gov) => table'[id].gov = table[id].gov]_vars

(* A write of the program changes who is a moderator only when its copy is *)
(* older than the last change of that column: a handler that read after it *)
(* never takes the right away, nor gives it back.                          *)
OnlyStaleCopiesChangeRights ==
    [][\A c \in Clients, user \in Users, id \in DOMAIN table :
          /\ Update(c, user)
          /\ table'[id].moderator # table[id].moderator
          => copies[c].id = id /\ seen[c] < turns[id]]_vars
=============================================================================
