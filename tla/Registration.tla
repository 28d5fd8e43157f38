---------------------------- MODULE Registration ----------------------------
(***************************************************************************)
(* The two handlers a newcomer meets: SendVerifyCode, which mails a code   *)
(* and keeps it in Redis for five minutes, and Register, which exchanges   *)
(* the code for a row of the users table.  As in Session, an action is one *)
(* remote call with the local code up to the next one.                     *)
(*                                                                         *)
(* The three unique indexes of the table are on uuid, email and user_name; *)
(* the uuid is a function of the name, so they amount to unique addresses  *)
(* and unique names.  An INSERT that meets an uncommitted row with one of  *)
(* its keys waits for that transaction to end.                             *)
(***************************************************************************)
EXTENDS Integers, FiniteSets

CONSTANTS
    Email, Name, Password, Code,
    Req,            \* slots for requests in flight
    None,           \* no code, no row
    Ops,            \* operations asked for: "send", "register"
    Faults,         \* what may go wrong: "redis", "db", "mail", "crash"
    MaxConns,       \* DB_MAX_OPEN_CONNS
    MaxTime,        \* bound of the clock
    CodeTTL         \* lifetime of a code in Redis (five minutes)

Row  == [email : Email, name : Name, password : Password]
Mail == [email : Email, code : Code]

ASSUME RegistrationAssumption ==
    /\ None \notin Code /\ None \notin Row
    /\ Ops \subseteq {"send", "register"}
    /\ Faults \subseteq {"redis", "db", "mail", "crash"}
    /\ MaxConns \in Nat \ {0}
    /\ MaxTime \in Nat
    /\ CodeTTL \in Nat \ {0}

PCs == {"idle", "exists", "mail", "set", "begin", "select", "get", "del", "hash",
        "insert", "commit", "reply", "error"}

VARIABLES
    rows,       \* the committed rows of the users table
    code,       \* the code under "VerifyCode:<email>", None when absent
    expire,     \* when that key expires
    mailed,     \* the mails the SMTP server accepted
    pc,         \* pc[r]: the call request r is about to make
    op,         \* op[r]: "send", "register", or "none"
    row,        \* row[r]: the account asked for (send: its address)
    sent,       \* sent[r]: the code r generated or presented
    broken,     \* requests whose transaction PostgreSQL has aborted
    now         \* the clock

redis   == <<code, expire>>
request == <<op, row>>
vars    == <<rows, redis, mailed, pc, request, sent, broken, now>>

Init ==
    /\ rows = {}
    /\ code = [e \in Email |-> None]
    /\ expire = [e \in Email |-> 0]
    /\ mailed = {}
    /\ pc = [r \in Req |-> "idle"]
    /\ op = [r \in Req |-> "none"]
    /\ row = [r \in Req |-> None]
    /\ sent = [r \in Req |-> None]
    /\ broken = {}
    /\ now = 0

-----------------------------------------------------------------------------
(* Helpers *)

To(r) == row[r].email

Live(e) == code[e] # None /\ now < expire[e]

Goto(r, l) == pc' = [pc EXCEPT ![r] = l]

\* An error response; the transaction, if any, is rolled back.
Fail(r) == Goto(r, "error")

\* The requests inside gdb.Transaction, each on a connection of the pool.
Connected == {r \in Req : pc[r] \in {"select", "get", "del", "hash", "insert", "commit"}}

\* Mutant: no unique index on user_name.
ClashOnEmail(v, w) == v.email = w.email

Clash(v, w) == v.email = w.email \/ v.name = w.name

\* Rows inserted and not committed yet.
Uncommitted(r) == {row[q] : q \in {p \in Req \ {r} : pc[p] = "commit"}}

-----------------------------------------------------------------------------
(* A request arrives, with any body that passes validation *)

Arrive(r, o, w, c) ==
    /\ pc[r] = "idle"
    /\ o \in Ops
    /\ Goto(r, IF o = "send" THEN "exists" ELSE "begin")
    /\ op' = [op EXCEPT ![r] = o]
    /\ row' = [row EXCEPT ![r] = w]
    /\ sent' = [sent EXCEPT ![r] = IF o = "send" THEN None ELSE c]
    /\ UNCHANGED <<rows, redis, mailed, broken, now>>

-----------------------------------------------------------------------------
(* SendVerifyCode *)

Exists(r) ==
    /\ pc[r] = "exists"
    /\ \/ ~Live(To(r)) /\ Goto(r, "mail")
       \/ Live(To(r)) /\ Fail(r)
       \/ "redis" \in Faults /\ Fail(r)
    /\ UNCHANGED <<rows, redis, mailed, request, sent, broken, now>>

\* The code is drawn at random.  One malformed answer of the SMTP server, an
\* error of the client, is returned as success: VerifyMailSend takes the mail
\* for accepted, and so does this action.
SendMail(r) ==
    /\ pc[r] = "mail"
    /\ \E c \in Code :
          /\ mailed' = mailed \cup {[email |-> To(r), code |-> c]}
          /\ sent' = [sent EXCEPT ![r] = c]
    /\ Goto(r, "set")
    /\ UNCHANGED <<rows, redis, request, broken, now>>

\* Mutant: the error of the SMTP client is ignored.
SendMailErrorIgnored(r) ==
    /\ pc[r] = "mail" /\ "mail" \in Faults
    /\ \E c \in Code : sent' = [sent EXCEPT ![r] = c]
    /\ Goto(r, "set")
    /\ UNCHANGED <<rows, redis, mailed, request, broken, now>>

\* The SMTP client returned an error: the mail is out or it is not.
SendMailFails(r) ==
    /\ pc[r] = "mail" /\ "mail" \in Faults
    /\ \E c \in Code :
          mailed' \in {mailed, mailed \cup {[email |-> To(r), code |-> c]}}
    /\ Fail(r)
    /\ UNCHANGED <<rows, redis, request, sent, broken, now>>

\* Mutant: the expiration is subtracted.
StoreExpired(e, c) ==
    /\ code' = [code EXCEPT ![e] = c]
    /\ expire' = [expire EXCEPT ![e] = now - CodeTTL]

Store(e, c) ==
    /\ code' = [code EXCEPT ![e] = c]
    /\ expire' = [expire EXCEPT ![e] = now + CodeTTL]

\* A plain SET: whatever was there is replaced.
SetCode(r) ==
    /\ pc[r] = "set"
    /\ Store(To(r), sent[r])
    /\ Goto(r, "reply")
    /\ UNCHANGED <<rows, mailed, request, sent, broken, now>>

SetCodeFails(r) ==
    /\ pc[r] = "set" /\ "redis" \in Faults
    /\ Store(To(r), sent[r]) \/ UNCHANGED redis
    /\ Fail(r)
    /\ UNCHANGED <<rows, mailed, request, sent, broken, now>>

-----------------------------------------------------------------------------
(* Register *)

Begin(r) ==
    /\ pc[r] = "begin"
    /\ Cardinality(Connected) < MaxConns
    /\ Goto(r, "select")
    /\ UNCHANGED <<rows, redis, mailed, request, sent, broken, now>>

BeginFails(r) ==
    /\ pc[r] = "begin" /\ "db" \in Faults
    /\ Fail(r)
    /\ UNCHANGED <<rows, redis, mailed, request, sent, broken, now>>

\* Mutant: the SELECT runs on s.gdb instead of tx and needs a connection of
\* its own.
SelectOutsideTx(r) ==
    /\ pc[r] = "select"
    /\ Cardinality(Connected) < MaxConns
    /\ Goto(r, IF \E w \in rows : w.email = To(r) THEN "error" ELSE "get")
    /\ UNCHANGED <<rows, redis, mailed, request, sent, broken, now>>

\* Only the absence of an error means that the address is taken: after an
\* error of PostgreSQL the handler goes on, in an aborted transaction.
Select(r) ==
    /\ pc[r] = "select"
    /\ \/ /\ \E w \in rows : w.email = To(r)
          /\ Fail(r)
          /\ UNCHANGED broken
       \/ /\ \A w \in rows : w.email # To(r)
          /\ Goto(r, "get")
          /\ UNCHANGED broken
       \/ /\ "db" \in Faults
          /\ Goto(r, "get")
          /\ broken' = broken \cup {r}
    /\ UNCHANGED <<rows, redis, mailed, request, sent, now>>

\* Mutant: the code presented is not compared.
AcceptedAny(r) == Live(To(r))

Accepted(r) == Live(To(r)) /\ code[To(r)] = sent[r]

\* The code is expired (redis.Nil), wrong, or right.
GetCode(r) ==
    /\ pc[r] = "get"
    /\ \/ Accepted(r) /\ Goto(r, "del")
       \/ ~Accepted(r) /\ Fail(r)
       \/ "redis" \in Faults /\ Fail(r)
    /\ UNCHANGED <<rows, redis, mailed, request, sent, broken, now>>

Consume(e) == code' = [code EXCEPT ![e] = None]

DelCode(r) ==
    /\ pc[r] = "del"
    /\ Consume(To(r))
    /\ Goto(r, "hash")
    /\ UNCHANGED <<rows, expire, mailed, request, sent, broken, now>>

DelCodeFails(r) ==
    /\ pc[r] = "del" /\ "redis" \in Faults
    /\ Consume(To(r)) \/ UNCHANGED code
    /\ Fail(r)
    /\ UNCHANGED <<rows, expire, mailed, request, sent, broken, now>>

\* bcrypt refuses passwords of more than 72 bytes, validation does not.
Hash(r) ==
    /\ pc[r] = "hash"
    /\ \/ Goto(r, "insert")
       \/ Fail(r)
    /\ UNCHANGED <<rows, redis, mailed, request, sent, broken, now>>

\* Mutant: the indexes are not unique.
InsertUnchecked(r) ==
    /\ pc[r] = "insert"
    /\ Goto(r, IF r \in broken THEN "error" ELSE "commit")
    /\ UNCHANGED <<rows, redis, mailed, request, sent, broken, now>>

\* The unique indexes.
Insert(r) ==
    /\ pc[r] = "insert"
    /\ r \in broken \/ ~\E w \in Uncommitted(r) : Clash(w, row[r])
    /\ \/ /\ r \notin broken
          /\ ~\E w \in rows : Clash(w, row[r])
          /\ Goto(r, "commit")
       \/ /\ r \in broken \/ \E w \in rows : Clash(w, row[r])
          /\ Fail(r)
    /\ UNCHANGED <<rows, redis, mailed, request, sent, broken, now>>

InsertFails(r) ==
    /\ pc[r] = "insert" /\ "db" \in Faults
    /\ Fail(r)
    /\ UNCHANGED <<rows, redis, mailed, request, sent, broken, now>>

\* Mutant: the transaction is never committed.
CommitForgotten(r) ==
    /\ pc[r] = "commit"
    /\ Goto(r, "reply")
    /\ UNCHANGED <<rows, redis, mailed, request, sent, broken, now>>

Commit(r) ==
    /\ pc[r] = "commit"
    /\ rows' = rows \cup {row[r]}
    /\ Goto(r, "reply")
    /\ UNCHANGED <<redis, mailed, request, sent, broken, now>>

CommitFails(r) ==
    /\ pc[r] = "commit" /\ "db" \in Faults
    /\ rows' \in {rows, rows \cup {row[r]}}
    /\ Fail(r)
    /\ UNCHANGED <<redis, mailed, request, sent, broken, now>>

\* As in Session, go-redis sends again a write whose answer was lost.
Resend(r) ==
    /\ "redis" \in Faults
    /\ \/ pc[r] = "set" /\ Store(To(r), sent[r])
       \/ pc[r] = "del" /\ Consume(To(r)) /\ UNCHANGED expire
    /\ UNCHANGED <<rows, mailed, pc, request, sent, broken, now>>

-----------------------------------------------------------------------------
(* The end of a request, and the environment *)

Finish(r) ==
    /\ Goto(r, "idle")
    /\ op' = [op EXCEPT ![r] = "none"]
    /\ row' = [row EXCEPT ![r] = None]
    /\ sent' = [sent EXCEPT ![r] = None]
    /\ broken' = broken \ {r}
    /\ UNCHANGED <<rows, redis, mailed, now>>

Reply(r) == pc[r] \in {"reply", "error"} /\ Finish(r)

\* The process dies: PostgreSQL rolls back, Redis and the mail stay.
Crash(r) == "crash" \in Faults /\ pc[r] # "idle" /\ Finish(r)

Elapse ==
    /\ now < MaxTime
    /\ now' = now + 1
    /\ UNCHANGED <<rows, redis, mailed, pc, request, sent, broken>>

-----------------------------------------------------------------------------

Step(r) ==
    \/ Exists(r) \/ SendMail(r) \/ SendMailFails(r) \/ SetCode(r) \/ SetCodeFails(r)
    \/ Select(r) \/ GetCode(r) \/ DelCode(r) \/ DelCodeFails(r) \/ Hash(r)
    \/ Commit(r) \/ CommitFails(r) \/ Reply(r)

Next ==
    \/ \E r \in Req :
          \/ \E o \in Ops, w \in Row, c \in Code : Arrive(r, o, w, c)
          \/ Step(r) \/ Begin(r) \/ Insert(r)
          \/ BeginFails(r) \/ InsertFails(r) \/ Resend(r) \/ Crash(r)
    \/ Elapse

Spec == Init /\ [][Next]_vars

\* As in Session: goroutines run on, and who waits for a connection of the
\* pool or for another transaction is served in turn.
Fairness ==
    \A r \in Req : WF_vars(Step(r)) /\ SF_vars(Begin(r)) /\ SF_vars(Insert(r))

FairSpec == Spec /\ Fairness
=============================================================================
