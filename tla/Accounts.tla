------------------------------ MODULE Accounts ------------------------------
(***************************************************************************)
(* What registration promises, whatever runs concurrently, fails or is     *)
(* repeated: an account is opened only for an address that a verification  *)
(* code was mailed to, no two accounts share an address or a name, and an  *)
(* account once opened stays as it is.                                     *)
(***************************************************************************)
CONSTANTS Email, Name, Password, Code

VARIABLES
    mailed,     \* the codes that were mailed, with their addresses
    accounts    \* the accounts that exist

Account == [email : Email, name : Name, password : Password]
Mailing == [email : Email, code : Code]

Init == mailed = {} /\ accounts = {}

Mail(m) ==
    /\ mailed' = mailed \cup {m}
    /\ UNCHANGED accounts

Open(a) ==
    /\ \E m \in mailed : m.email = a.email
    /\ \A b \in accounts : b.email # a.email /\ b.name # a.name
    /\ accounts' = accounts \cup {a}
    /\ UNCHANGED mailed

Next == (\E m \in Mailing : Mail(m)) \/ (\E a \in Account : Open(a))

Spec == Init /\ [][Next]_<<mailed, accounts>>
=============================================================================
