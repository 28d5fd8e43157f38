------------------------- MODULE RegistrationProps -------------------------
(***************************************************************************)
(* What registration must guarantee (first part), and what the repository  *)
(* says of it that does not hold (second part).                            *)
(***************************************************************************)
EXTENDS Registration

\* The types of the variables.
TypeOK ==
    /\ rows \subseteq Row
    /\ code \in [Email -> Code \cup {None}]
    /\ expire \in [Email -> Nat]
    /\ mailed \subseteq Mail
    /\ pc \in [Req -> PCs]
    /\ op \in [Req -> {"send", "register", "none"}]
    /\ row \in [Req -> Row \cup {None}]
    /\ sent \in [Req -> Code \cup {None}]
    /\ broken \subseteq Req
    /\ now \in 0..MaxTime

\* Registration implements Accounts: the rows are the accounts.
A == INSTANCE Accounts WITH accounts <- rows
Promises == A!Spec

\* A newcomer who is told that a code was already sent, because its key is
\* there, was mailed that very code: SendVerifyCode never stores a code whose
\* mail did not go out.
StoredWasMailed ==
    \A e \in Email : code[e] # None => [email |-> e, code |-> code[e]] \in mailed

\* Whoever registers successfully owns the account: its row, with the
\* password of that request, is committed.
SuccessIsCommitted ==
    \A r \in Req : op[r] = "register" /\ pc[r] = "reply" => row[r] \in rows

\* Two requests racing for one address, or one name, with the same code or
\* two codes are not both told they succeeded, although the SELECT of either
\* may run before the INSERT of the other and both may pass GET and DEL.
OneWinner ==
    \A r, q \in Req :
        /\ r # q
        /\ op[r] = "register" /\ pc[r] = "reply"
        /\ op[q] = "register" /\ pc[q] = "reply"
        => ~Clash(row[r], row[q])

\* Whoever gets past the code, and whoever registers with success, presented
\* a code that was mailed to that very address, also when codes expire, are
\* replaced or consumed by other requests between the GET and the answer.
HoldersOnly ==
    \A r \in Req :
        op[r] = "register" /\ pc[r] \in {"del", "hash", "insert", "commit", "reply"}
            => [email |-> To(r), code |-> sent[r]] \in mailed

\* Every request is answered, whatever it waits for.
EveryRequestEnds == \A r \in Req : pc[r] # "idle" ~> pc[r] = "idle"

-----------------------------------------------------------------------------
(* Statements of the repository that the code does not keep *)

\* internal/database/UserService.go:50, the function runs in one database
\* transaction so that the data is consistent: a Register whose code was
\* right and that fails all the same leaves the code in place.
FailureKeepsCode ==
    [][\A r \in Req :
          pc[r] \in {"hash", "insert"} /\ pc'[r] = "error"
              => code[To(r)] = sent[r]]_vars
=============================================================================
