------------------------------- MODULE UserTable -------------------------------
(***************************************************************************)
(* What ports.UserRepository and ports.UserBankAccountRepository promise,  *)
(* with no encryption: a call takes effect at once, on the values it was   *)
(* given and no others, or it says that it failed and changes nothing.     *)
(***************************************************************************)
EXTENDS Naturals, SequencesExt

CONSTANTS
    Clients,    \* goroutines that call the repositories
    Ids,        \* ids of users, numbered as the users are created
    Accounts,   \* telegram ids
    Users,      \* what can be known of a user
    Details,    \* of bank accounts
    Nobody      \* a client that holds no user

VARIABLES
    users,      \* the users, by id
    banks,      \* the bank accounts, in order of creation
    copies,     \* the user each client holds, as it read or wrote it
    answer      \* what came of the last call

vars == <<users, banks, copies, answer>>

Init ==
    /\ users = <<>>
    /\ banks = <<>>
    /\ copies = [c \in Clients |-> Nobody]
    /\ answer = [is |-> "nothing"]

Tell(is) == answer' = [is |-> is]
Hold(c, copy) == copies' = [copies EXCEPT ![c] = copy]

Fail(c) ==
    /\ Tell("error")
    /\ UNCHANGED copies \/ Hold(c, Nobody)
    /\ UNCHANGED <<users, banks>>

\* Neither the id nor the Telegram id is anybody else's.
Insert(c, id, user) ==
    /\ id \notin DOMAIN users
    /\ \A i \in DOMAIN users : users[i].tg # user.tg
    /\ users' = [i \in DOMAIN users \cup {id} |->
                    IF i = id THEN user ELSE users[i]]
    /\ Tell("done")
    /\ UNCHANGED <<banks, copies>>

\* All of the copy, as the client has changed it, whatever became of the user
\* since it was read.  No client changes the first two.
Overwrite(c, user) ==
    /\ copies[c] # Nobody
    /\ user.tg = copies[c].user.tg
    /\ user.moderator = copies[c].user.moderator
    /\ copies[c].id \in DOMAIN users
    /\ users' = [users EXCEPT ![copies[c].id] = user]
    /\ Hold(c, [copies[c] EXCEPT !.user = user])
    /\ Tell("done")
    /\ UNCHANGED banks

\* The accounts of some users, in their order.
OwnedBy(accounts, owners) ==
    FlattenSeq([n \in DOMAIN accounts |->
        IF accounts[n].owner \in owners THEN <<accounts[n]>> ELSE <<>>])

\* With the user go the bank accounts.
DropUser(c, id) ==
    /\ id \in DOMAIN users
    /\ users' = [i \in DOMAIN users \ {id} |-> users[i]]
    /\ banks' = OwnedBy(banks, Ids \ {id})
    /\ Tell("done")
    /\ UNCHANGED copies

\* The first of the users that match, if there is one.
Find(c, call, matches) ==
    /\ \/ /\ matches = {}
          /\ Hold(c, Nobody)
          /\ answer' = [is |-> "not found", call |-> call]
       \/ \E id \in matches :
          /\ \A other \in matches : id <= other
          /\ Hold(c, [id |-> id, user |-> users[id]])
          /\ Tell("done")
    /\ UNCHANGED <<users, banks>>

\* The administrator of the database makes a user moderator, or no longer.
Grant(id) ==
    /\ id \in DOMAIN users
    /\ users' = [users EXCEPT ![id].moderator = ~@]
    /\ Tell("nothing")
    /\ UNCHANGED <<banks, copies>>

\* Whoever held users is gone.
StartAgain ==
    /\ copies' = [c \in Clients |-> Nobody]
    /\ Tell("nothing")
    /\ UNCHANGED <<users, banks>>

AddBank(c, id, details) ==
    /\ id \in DOMAIN users
    /\ banks' = Append(banks, [owner |-> id, details |-> details])
    /\ Tell("done")
    /\ UNCHANGED <<users, copies>>

\* All accounts of a user, the newest first.
ListBanks(c, id) ==
    LET own == OwnedBy(banks, {id}) IN
    /\ answer' = [is |-> "list", of |-> id, list |->
                      [n \in DOMAIN own |-> own[Len(own) + 1 - n].details]]
    /\ UNCHANGED <<users, banks, copies>>

Next ==
    \/ \E c \in Clients :
       \/ Fail(c)
       \/ \E id \in Ids, user \in Users : Insert(c, id, user)
       \/ \E user \in Users : Overwrite(c, user)
       \/ \E id \in Ids : DropUser(c, id) \/ ListBanks(c, id)
       \/ \E id \in Ids : Find(c, <<"id", id>>, DOMAIN users \cap {id})
       \/ \E tg \in Accounts :
             Find(c, <<"telegram id", tg>>,
                  {i \in DOMAIN users : users[i].tg = tg})
       \/ Find(c, <<"pending">>,
               {i \in DOMAIN users : users[i].status = "pending"})
       \/ \E id \in Ids, details \in Details : AddBank(c, id, details)
    \/ \E id \in Ids : Grant(id)
    \/ StartAgain

Spec == Init /\ [][Next]_vars
=============================================================================
