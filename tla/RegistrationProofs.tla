------------------------- MODULE RegistrationProofs -------------------------
(***************************************************************************)
(* Proofs about registration, for every instance: the types, what a        *)
(* successful answer means, and that Registration implements Accounts.     *)
(***************************************************************************)
EXTENDS RegistrationProps, TLAPS

\* The points of the two handlers.
SendPoints     == {"exists", "mail", "set"}
RegisterPoints == {"begin", "select", "get", "del", "hash", "insert", "commit"}

\* Every request in flight has a body and is at a point of its handler.
Flow ==
    \A r \in Req :
        /\ pc[r] # "idle" => row[r] \in Row
        /\ pc[r] \in SendPoints => op[r] = "send"
        /\ pc[r] \in RegisterPoints => op[r] = "register"
        /\ pc[r] = "set" => sent[r] \in Code

TypeInv == TypeOK /\ Flow

\* A code is mailed before it is stored, and stored before it is accepted.
MailInv ==
    /\ StoredWasMailed
    /\ \A r \in Req : pc[r] = "set" => [email |-> To(r), code |-> sent[r]] \in mailed
    /\ HoldersOnly

\* An inserted row clashes with none that is committed or inserted, so
\* committing it is safe; nor do the rows of successful requests clash.
RowInv ==
    /\ \A r \in Req : pc[r] = "commit" => \A w \in rows : ~Clash(w, row[r])
    /\ \A r, q \in Req : r # q /\ pc[r] = "commit" /\ pc[q] = "commit"
                             => ~Clash(row[q], row[r])
    /\ SuccessIsCommitted
    /\ OneWinner

-----------------------------------------------------------------------------
(* Types *)

LEMMA InitAll == Init => TypeInv /\ MailInv /\ RowInv
<1> SUFFICES ASSUME Init PROVE TypeInv /\ MailInv /\ RowInv
  OBVIOUS
<1>1. 0 \in 0..MaxTime
  BY RegistrationAssumption
<1> QED
  BY <1>1 DEF Init, TypeInv, TypeOK, PCs, Flow, SendPoints, RegisterPoints, MailInv,
              StoredWasMailed, HoldersOnly, RowInv, SuccessIsCommitted, OneWinner

Works(r) ==
    \/ Step(r) \/ Begin(r) \/ Insert(r)
    \/ BeginFails(r) \/ InsertFails(r) \/ Resend(r) \/ Crash(r)

\* Where the control of r can go, and what it leaves alone.
LEMMA Moves ==
  ASSUME TypeInv, NEW r \in Req, Works(r)
  PROVE  /\ pc[r] # "idle"
         /\ \E l \in PCs : pc' = [pc EXCEPT ![r] = l]
         /\ \/ /\ pc'[r] = "idle"
               /\ op' = [op EXCEPT ![r] = "none"]
               /\ row' = [row EXCEPT ![r] = None]
            \/ pc'[r] # "idle" /\ op' = op /\ row' = row
         /\ \A q \in Req \ {r} : sent'[q] = sent[q]
<1> USE DEF Goto, request
<1>1. pc \in [Req -> PCs] /\ sent \in [Req -> Code \cup {None}]
  BY DEF TypeInv, TypeOK
<1>2. CASE Exists(r) \/ SendMail(r) \/ SendMailFails(r) \/ SetCode(r) \/ SetCodeFails(r)
  BY <1>1, <1>2 DEF Exists, SendMail, SendMailFails, SetCode, SetCodeFails, Fail, PCs
<1>3. CASE Select(r) \/ GetCode(r) \/ DelCode(r) \/ DelCodeFails(r) \/ Hash(r)
  BY <1>1, <1>3 DEF Select, GetCode, DelCode, DelCodeFails, Hash, Fail, PCs
<1>4. CASE Begin(r) \/ BeginFails(r) \/ Insert(r) \/ InsertFails(r)
  BY <1>1, <1>4 DEF Begin, BeginFails, Insert, InsertFails, Fail, PCs
<1>5. CASE Commit(r) \/ CommitFails(r)
  BY <1>1, <1>5 DEF Commit, CommitFails, Fail, PCs
<1>6. CASE Reply(r) \/ Crash(r)
  BY <1>1, <1>6 DEF Reply, Crash, Finish, PCs
<1>7. CASE Resend(r)
  BY <1>1, <1>7 DEF Resend
<1> QED
  BY <1>2, <1>3, <1>4, <1>5, <1>6, <1>7 DEF Works, Step

LEMMA StoreType ==
  ASSUME TypeInv, NEW e \in Email, NEW c \in Code, Store(e, c)
  PROVE  code' \in [Email -> Code \cup {None}] /\ expire' \in [Email -> Nat]
<1>1. now + CodeTTL \in Nat
  BY RegistrationAssumption DEF TypeInv, TypeOK
<1> QED
  BY <1>1 DEF TypeInv, TypeOK, Store

LEMMA WorksType ==
  ASSUME TypeInv, NEW r \in Req, Works(r)
  PROVE  TypeOK'
<1>1. /\ pc' \in [Req -> PCs]
      /\ op' \in [Req -> {"send", "register", "none"}]
      /\ row' \in [Req -> Row \cup {None}]
  BY Moves DEF TypeInv, TypeOK
<1>2. row[r] \in Row /\ To(r) \in Email
  BY Moves DEF TypeInv, Flow, To, Row
<1>3. CASE Exists(r) \/ Select(r) \/ GetCode(r) \/ Hash(r) \/ Begin(r) \/ BeginFails(r)
           \/ Insert(r) \/ InsertFails(r)
  BY <1>1, <1>3 DEF Exists, Select, GetCode, Hash, Begin, BeginFails, Insert,
                    InsertFails, TypeInv, TypeOK, redis
<1>4. CASE SendMail(r) \/ SendMailFails(r)
  <2>1. \A c \in Code : [email |-> To(r), code |-> c] \in Mail
    BY <1>2 DEF Mail
  <2> QED
    BY <1>1, <1>4, <2>1 DEF SendMail, SendMailFails, TypeInv, TypeOK, redis
<1>5. CASE SetCode(r) \/ SetCodeFails(r)
  <2>1. sent[r] \in Code
    BY <1>5 DEF SetCode, SetCodeFails, TypeInv, Flow
  <2>2. code' \in [Email -> Code \cup {None}] /\ expire' \in [Email -> Nat]
    BY <1>2, <1>5, <2>1, StoreType DEF SetCode, SetCodeFails, TypeInv, TypeOK, redis
  <2> QED
    BY <1>1, <1>5, <2>2 DEF SetCode, SetCodeFails, TypeInv, TypeOK
<1>6. CASE DelCode(r) \/ DelCodeFails(r)
  BY <1>1, <1>6 DEF DelCode, DelCodeFails, Consume, TypeInv, TypeOK
<1>7. CASE Commit(r) \/ CommitFails(r)
  BY <1>1, <1>2, <1>7 DEF Commit, CommitFails, TypeInv, TypeOK, redis
<1>8. CASE Reply(r) \/ Crash(r)
  BY <1>1, <1>8 DEF Reply, Crash, Finish, TypeInv, TypeOK, redis
<1>9. CASE Resend(r)
  <2>1. pc[r] = "set" => sent[r] \in Code
    BY DEF TypeInv, Flow
  <2>2. code' \in [Email -> Code \cup {None}] /\ expire' \in [Email -> Nat]
    BY <1>2, <1>9, <2>1, StoreType DEF Resend, Consume, TypeInv, TypeOK
  <2> QED
    BY <1>1, <1>9, <2>2 DEF Resend, TypeInv, TypeOK
<1> QED
  BY <1>3, <1>4, <1>5, <1>6, <1>7, <1>8, <1>9 DEF Works, Step

LEMMA WorksFlow ==
  ASSUME TypeInv, NEW r \in Req, Works(r)
  PROVE  Flow'
<1>1. \A q \in Req \ {r} : /\ pc'[q] = pc[q] /\ op'[q] = op[q]
                           /\ row'[q] = row[q] /\ sent'[q] = sent[q]
  BY Moves DEF TypeInv, TypeOK
<1>2. pc'[r] # "idle" => row'[r] \in Row /\ op'[r] = op[r]
  BY Moves DEF TypeInv, TypeOK, Flow
<1>3. /\ pc'[r] \in SendPoints => pc[r] \in SendPoints
      /\ pc'[r] \in RegisterPoints => pc[r] \in RegisterPoints
      /\ pc'[r] = "set" => sent'[r] \in Code
  BY DEF Flow, request, Works, Step, Exists, SendMail, SendMailFails, SetCode, SetCodeFails, Select,
     GetCode, DelCode, DelCodeFails, Hash, Begin, BeginFails, Insert, InsertFails,
     Commit, CommitFails, Reply, Resend, Crash, Finish, Fail, Goto, SendPoints,
     RegisterPoints, TypeInv, TypeOK
<1>4. \A q \in Req : /\ pc'[q] # "idle" => row'[q] \in Row
                     /\ pc'[q] \in SendPoints => op'[q] = "send"
                     /\ pc'[q] \in RegisterPoints => op'[q] = "register"
                     /\ pc'[q] = "set" => sent'[q] \in Code
  BY <1>1, <1>2, <1>3 DEF TypeInv, Flow, SendPoints, RegisterPoints
<1> QED
  BY <1>4 DEF Flow

Arrives(r) == \E o \in Ops, w \in Row, c \in Code : Arrive(r, o, w, c)

LEMMA ArriveMoves ==
  ASSUME TypeInv, NEW r \in Req, Arrives(r)
  PROVE  /\ UNCHANGED <<rows, redis, mailed, now>>
         /\ pc[r] = "idle"
         /\ \/ pc' = [pc EXCEPT ![r] = "exists"] /\ op' = [op EXCEPT ![r] = "send"]
            \/ pc' = [pc EXCEPT ![r] = "begin"] /\ op' = [op EXCEPT ![r] = "register"]
         /\ \A q \in Req \ {r} : row'[q] = row[q] /\ sent'[q] = sent[q]
         /\ row'[r] \in Row
         /\ TypeOK'
<1>1. PICK o \in Ops, w \in Row, c \in Code : Arrive(r, o, w, c)
  BY DEF Arrives
<1>2. o \in {"send", "register"}
  BY RegistrationAssumption
<1> QED
  BY <1>1, <1>2 DEF Arrive, Goto, TypeInv, TypeOK, PCs, redis

LEMMA TypeStep == TypeInv /\ [Next]_vars => TypeInv'
<1> SUFFICES ASSUME TypeInv, [Next]_vars PROVE TypeInv'
  OBVIOUS
<1>1. ASSUME NEW r \in Req, Arrives(r) PROVE TypeInv'
  BY <1>1, ArriveMoves DEF TypeInv, TypeOK, Flow, SendPoints, RegisterPoints
<1>2. ASSUME NEW r \in Req, Works(r) PROVE TypeInv'
  BY <1>2, WorksType, WorksFlow DEF TypeInv
<1>3. CASE Elapse
  <2>1. now' \in 0..MaxTime
    BY <1>3, RegistrationAssumption DEF Elapse, TypeInv, TypeOK
  <2> QED
    BY <1>3, <2>1 DEF Elapse, TypeInv, TypeOK, Flow, redis, request
<1>4. CASE UNCHANGED vars
  BY <1>4 DEF vars, TypeInv, TypeOK, Flow, redis, request
<1> QED
  BY <1>1, <1>2, <1>3, <1>4 DEF Next, Arrives, Works

\* The variables always have the types TypeOK gives them.
THEOREM TypeCorrect == Spec => []TypeOK
<1>1. Init => TypeInv
  BY InitAll
<1>2. TypeInv => TypeOK
  BY DEF TypeInv
<1> QED
  BY <1>1, <1>2, TypeStep, PTL DEF Spec

-----------------------------------------------------------------------------
(* Mails *)

LEMMA MailGrows ==
  ASSUME TypeInv, NEW r \in Req, Works(r)
  PROVE  mailed \subseteq mailed'
BY DEF Works, Step, Exists, SendMail, SendMailFails, SetCode, SetCodeFails, Select,
   GetCode, DelCode, DelCodeFails, Hash, Begin, BeginFails, Insert, InsertFails,
   Commit, CommitFails, Reply, Resend, Crash, Finish

LEMMA StoredStep ==
  ASSUME TypeInv, MailInv, NEW r \in Req, Works(r)
  PROVE  StoredWasMailed'
<1>1. mailed \subseteq mailed' /\ To(r) \in Email
  BY MailGrows, Moves DEF TypeInv, Flow, To, Row
<1>2. \A e \in Email : code'[e] \in {code[e], None} \/ (e = To(r) /\ code'[e] = sent[r] /\ pc[r] = "set")
  BY <1>1 DEF Works, Step, Exists, SendMail, SendMailFails, SetCode, SetCodeFails,
     Store, Select, GetCode, DelCode, DelCodeFails, Consume, Hash, Begin, BeginFails,
     Insert, InsertFails, Commit, CommitFails, Reply, Resend, Crash, Finish, redis, TypeInv, TypeOK
<1> QED
  BY <1>1, <1>2 DEF MailInv, StoredWasMailed

LEMMA MailStep ==
  ASSUME TypeInv, MailInv, NEW r \in Req, Works(r)
  PROVE  MailInv'
<1>0. /\ mailed \subseteq mailed' /\ To(r) \in Email
      /\ pc \in [Req -> PCs] /\ sent \in [Req -> Code \cup {None}]
  BY MailGrows, Moves DEF TypeInv, TypeOK, Flow, To, Row
<1>1. /\ \A q \in Req \ {r} : pc'[q] = pc[q] /\ To(q)' = To(q) /\ sent'[q] = sent[q]
      /\ pc'[r] # "idle" => To(r)' = To(r)
  BY Moves DEF TypeInv, TypeOK, To
<1>2. pc'[r] = "set" => [email |-> To(r), code |-> sent'[r]] \in mailed'
  BY <1>0 DEF MailInv, Works, Step, Exists, SendMail, SendMailFails, SetCode, SetCodeFails,
     Select, GetCode, DelCode, DelCodeFails, Hash, Begin, BeginFails, Insert,
     InsertFails, Commit, CommitFails, Reply, Resend, Crash, Finish, Fail, Goto
<1>3. ASSUME op[r] = "register",
             pc'[r] \in {"del", "hash", "insert", "commit", "reply"}
      PROVE  [email |-> To(r), code |-> sent'[r]] \in mailed'
  <2>1. pc[r] \notin SendPoints
    BY <1>3 DEF TypeInv, Flow
  <2>2. /\ sent'[r] = sent[r]
        /\ \/ pc[r] \in {"del", "hash", "insert", "commit", "reply"}
           \/ GetCode(r) /\ Accepted(r)
    BY <1>0, <1>3, <2>1 DEF Works, Step, Exists, SendMail, SendMailFails, SetCode,
       SetCodeFails, Select, GetCode, DelCode, DelCodeFails, Hash, Begin, BeginFails,
       Insert, InsertFails, Commit, CommitFails, Reply, Resend, Crash, Finish, Fail,
       Goto, SendPoints
  <2>3. CASE pc[r] \in {"del", "hash", "insert", "commit", "reply"}
    BY <1>0, <1>3, <2>2, <2>3 DEF MailInv, HoldersOnly
  <2>4. CASE GetCode(r) /\ Accepted(r)
    BY <1>0, <2>2, <2>4 DEF Accepted, Live, MailInv, StoredWasMailed
  <2> QED
    BY <2>2, <2>3, <2>4
<1>4. /\ \A q \in Req \ {r} : op'[q] = op[q]
      /\ pc'[r] # "idle" => op'[r] = op[r]
  BY Moves DEF TypeInv, TypeOK
<1>5. \A q \in Req : pc'[q] = "set" => [email |-> To(q)', code |-> sent'[q]] \in mailed'
  BY <1>0, <1>1, <1>2 DEF MailInv
<1>6. HoldersOnly'
  <2> SUFFICES ASSUME NEW q \in Req, op'[q] = "register",
                      pc'[q] \in {"del", "hash", "insert", "commit", "reply"}
               PROVE  [email |-> To(q)', code |-> sent'[q]] \in mailed'
    BY DEF HoldersOnly
  <2>1. CASE q = r
    BY <1>1, <1>3, <1>4, <2>1
  <2>2. CASE q # r
    BY <1>0, <1>1, <1>4, <2>2 DEF MailInv, HoldersOnly
  <2> QED
    BY <2>1, <2>2
<1> QED
  BY <1>5, <1>6, StoredStep DEF MailInv

-----------------------------------------------------------------------------
(* Rows *)

LEMMA ClashSymmetric == \A v, w : Clash(v, w) <=> Clash(w, v)
BY DEF Clash

\* Only a step at COMMIT changes the table, by the row of its request.
LEMMA RowsMove ==
  ASSUME TypeInv, NEW r \in Req, Works(r)
  PROVE  \/ rows' = rows
         \/ pc[r] = "commit" /\ rows' = rows \cup {row[r]}
BY DEF Works, Step, Exists, SendMail, SendMailFails, SetCode, SetCodeFails, Select,
   GetCode, DelCode, DelCodeFails, Hash, Begin, BeginFails, Insert, InsertFails,
   Commit, CommitFails, Reply, Resend, Crash, Finish

LEMMA RowStep ==
  ASSUME TypeInv, RowInv, NEW r \in Req, Works(r)
  PROVE  RowInv'
<1>1. /\ \A q \in Req \ {r} : pc'[q] = pc[q] /\ row'[q] = row[q] /\ op'[q] = op[q]
      /\ pc'[r] # "idle" => row'[r] = row[r] /\ op'[r] = op[r]
  BY Moves DEF TypeInv, TypeOK
<1>2. pc'[r] = "commit" => Insert(r) /\ r \notin broken
  BY DEF Works, Step, Exists, SendMail, SendMailFails, SetCode, SetCodeFails, Select,
     GetCode, DelCode, DelCodeFails, Hash, Begin, BeginFails, Insert, InsertFails,
     Commit, CommitFails, Reply, Resend, Crash, Finish, Fail, Goto, TypeInv, TypeOK
<1>3. pc'[r] = "reply" /\ op[r] = "register" => pc[r] = "commit" /\ row[r] \in rows'
  BY DEF Works, Step, Exists, SendMail, SendMailFails, SetCode, SetCodeFails, Select,
     GetCode, DelCode, DelCodeFails, Hash, Begin, BeginFails, Insert, InsertFails,
     Commit, CommitFails, Reply, Resend, Crash, Finish, Fail, Goto, TypeInv, TypeOK, Flow,
     SendPoints
<1>4. pc'[r] = "commit"
      => /\ rows' = rows
         /\ \A w \in rows : ~Clash(w, row[r])
         /\ \A q \in Req \ {r} : pc[q] = "commit" => ~Clash(row[q], row[r])
  BY <1>2 DEF Insert, Uncommitted, Fail, Goto, TypeInv, TypeOK
<1>5. ASSUME NEW q \in Req, pc'[q] = "commit", NEW w \in rows'
      PROVE  ~Clash(w, row'[q])
  <2>1. CASE q = r
    BY <1>1, <1>4, <1>5, <2>1
  <2>2. CASE q # r /\ w \in rows
    BY <1>1, <1>5, <2>2 DEF RowInv
  <2>3. CASE q # r /\ w \notin rows
    <3>1. w = row[r] /\ pc[r] = "commit" /\ pc[q] = "commit" /\ row'[q] = row[q]
      BY <1>1, <1>5, <2>3, RowsMove
    <3> QED
      BY <2>3, <3>1 DEF RowInv
  <2> QED
    BY <2>1, <2>2, <2>3
<1>6. ASSUME NEW p \in Req, NEW q \in Req, p # q, pc'[p] = "commit", pc'[q] = "commit"
      PROVE  ~Clash(row'[q], row'[p])
  BY <1>1, <1>4, <1>6, ClashSymmetric DEF RowInv
<1>7. SuccessIsCommitted'
  BY <1>1, <1>3, RowsMove DEF RowInv, SuccessIsCommitted
<1>8. ASSUME NEW p \in Req, NEW q \in Req, p # q,
             op'[p] = "register", pc'[p] = "reply",
             op'[q] = "register", pc'[q] = "reply"
      PROVE  ~Clash(row'[p], row'[q])
  BY <1>1, <1>3, <1>8, ClashSymmetric DEF RowInv, OneWinner, SuccessIsCommitted
<1> QED
  BY <1>5, <1>6, <1>7, <1>8 DEF RowInv, OneWinner

Inv == TypeInv /\ MailInv /\ RowInv

LEMMA InvStep == Inv /\ [Next]_vars => Inv'
<1> SUFFICES ASSUME Inv, [Next]_vars PROVE MailInv' /\ RowInv'
  BY TypeStep DEF Inv
<1>1. ASSUME NEW r \in Req, Arrives(r) PROVE MailInv' /\ RowInv'
  BY <1>1, ArriveMoves DEF Inv, MailInv, StoredWasMailed, HoldersOnly, RowInv,
                           SuccessIsCommitted, OneWinner, To, TypeInv, TypeOK, redis
<1>2. ASSUME NEW r \in Req, Works(r) PROVE MailInv' /\ RowInv'
  BY <1>2, MailStep, RowStep DEF Inv
<1>3. CASE Elapse \/ UNCHANGED vars
  <2>1. UNCHANGED <<rows, redis, mailed, pc, request, sent>>
    BY <1>3 DEF Elapse, vars
  <2> QED
    BY <2>1 DEF Inv, MailInv, StoredWasMailed, HoldersOnly, RowInv, SuccessIsCommitted,
                OneWinner, To, Uncommitted, redis, request
<1> QED
  BY <1>1, <1>2, <1>3 DEF Next, Arrives, Works

LEMMA Invariant == Spec => []Inv
<1>1. Init => Inv
  BY InitAll DEF Inv
<1> QED
  BY <1>1, InvStep, PTL DEF Spec

\* SendVerifyCode stores no code whose mail did not go out.
THEOREM StoredCodesWereMailed == Spec => []StoredWasMailed
<1>1. Inv => StoredWasMailed
  BY DEF Inv, MailInv
<1> QED
  BY <1>1, Invariant, PTL

\* Only who holds a code of the address gets past Register's comparison.
THEOREM OnlyHoldersRegister == Spec => []HoldersOnly
<1>1. Inv => HoldersOnly
  BY DEF Inv, MailInv
<1> QED
  BY <1>1, Invariant, PTL

\* Who is told that the registration succeeded has the row committed.
THEOREM SuccessCommitted == Spec => []SuccessIsCommitted
<1>1. Inv => SuccessIsCommitted
  BY DEF Inv, RowInv
<1> QED
  BY <1>1, Invariant, PTL

\* Requests racing for an address or a name have at most one winner.
THEOREM RacesHaveOneWinner == Spec => []OneWinner
<1>1. Inv => OneWinner
  BY DEF Inv, RowInv
<1> QED
  BY <1>1, Invariant, PTL

-----------------------------------------------------------------------------
(* Handlers are finite *)

\* The calls a request has before it, its response included: a bound.
Left(r) ==
    CASE pc[r] = "idle" -> 0
      [] pc[r] \in {"reply", "error"} -> 1
      [] pc[r] \in {"set", "commit"} -> 2
      [] pc[r] \in {"mail", "insert"} -> 3
      [] pc[r] \in {"exists", "hash"} -> 4
      [] pc[r] = "del" -> 5
      [] pc[r] = "get" -> 6
      [] pc[r] = "select" -> 7
      [] pc[r] = "begin" -> 8

\* Every step of a handler brings its end nearer, but for the commands that
\* go-redis sends again.
RequestsAdvance ==
    [][\A r \in Req : Works(r) => Resend(r) \/ Left(r)' < Left(r)]_vars

LEMMA AdvanceStep ==
  ASSUME TypeInv, NEW r \in Req, Works(r), ~Resend(r)
  PROVE  Left(r)' < Left(r)
<1>1. \A l : Goto(r, l) => pc'[r] = l
  BY DEF Goto, TypeInv, TypeOK
<1>2. CASE Exists(r) \/ SendMail(r) \/ SendMailFails(r) \/ SetCode(r) \/ SetCodeFails(r)
  BY <1>1, <1>2 DEF Exists, SendMail, SendMailFails, SetCode, SetCodeFails, Fail, Left
<1>3. CASE Select(r) \/ GetCode(r) \/ DelCode(r) \/ DelCodeFails(r) \/ Hash(r)
  BY <1>1, <1>3 DEF Select, GetCode, DelCode, DelCodeFails, Hash, Fail, Left
<1>4. CASE Begin(r) \/ BeginFails(r) \/ Insert(r) \/ InsertFails(r) \/ Commit(r) \/ CommitFails(r)
  BY <1>1, <1>4 DEF Begin, BeginFails, Insert, InsertFails, Commit, CommitFails, Fail, Left
<1>5. CASE Reply(r) \/ Crash(r)
  <2>1. pc[r] \in PCs \ {"idle"}
    BY Moves DEF TypeInv, TypeOK
  <2>2. Left(r) \in 1..8
    BY <2>1 DEF PCs, Left
  <2>3. Left(r)' = 0
    BY <1>1, <1>5 DEF Reply, Crash, Finish, Left
  <2> QED
    BY <2>2, <2>3
<1> QED
  BY <1>2, <1>3, <1>4, <1>5 DEF Works, Step

\* SendVerifyCode makes at most four calls and Register at most eight, and
\* neither can run in circles.
THEOREM HandlersAreFinite ==
  Spec => RequestsAdvance /\ [](\A r \in Req : Left(r) \in 0..8)
<1>1. Inv /\ [Next]_vars
      => [\A r \in Req : Works(r) => Resend(r) \/ Left(r)' < Left(r)]_vars
  BY AdvanceStep DEF Inv
<1>2. Inv => \A r \in Req : Left(r) \in 0..8
  BY DEF Inv, TypeInv, TypeOK, PCs, Left
<1> QED
  BY <1>1, <1>2, Invariant, PTL DEF Spec, RequestsAdvance

-----------------------------------------------------------------------------
(* Refinement *)

LEMMA StepSimulation ==
  ASSUME Inv, NEW r \in Req, Works(r)
  PROVE  [A!Next]_<<mailed, rows>>
<1>1. row[r] \in Row /\ To(r) \in Email
  BY Moves DEF Inv, TypeInv, Flow, To, Row
<1>2. CASE pc[r] = "commit" /\ rows' = rows \cup {row[r]}
  <2>1. row[r] \in A!Account
    BY <1>1 DEF A!Account, Row
  <2>2. mailed' = mailed
    BY <1>2 DEF Works, Step, Exists, SendMail, SendMailFails, SetCode, SetCodeFails,
       Select, GetCode, DelCode, DelCodeFails, Hash, Begin, BeginFails, Insert,
       InsertFails, Commit, CommitFails, Reply, Resend, Crash, Finish
  <2>3. \E m \in mailed : m.email = row[r].email
    BY <1>2 DEF Inv, TypeInv, Flow, RegisterPoints, MailInv, HoldersOnly, To
  <2>4. A!Open(row[r])
    BY <1>2, <2>2, <2>3 DEF A!Open, Inv, RowInv, Clash
  <2> QED
    BY <2>1, <2>4 DEF A!Next
<1>3. CASE rows' = rows
  <2>1. CASE mailed' = mailed
    BY <1>3, <2>1
  <2>2. CASE mailed' # mailed
    <3>1. \E c \in Code : mailed' = mailed \cup {[email |-> To(r), code |-> c]}
      BY <2>2 DEF Works, Step, Exists, SendMail, SendMailFails, SetCode, SetCodeFails,
         Select, GetCode, DelCode, DelCodeFails, Hash, Begin, BeginFails, Insert,
         InsertFails, Commit, CommitFails, Reply, Resend, Crash, Finish
    <3> QED
      BY <1>1, <1>3, <3>1 DEF A!Next, A!Mail, A!Mailing
  <2> QED
    BY <2>1, <2>2
<1> QED
  BY <1>2, <1>3, RowsMove DEF Inv

\* The two handlers keep the promises of Accounts: an account only for an
\* address a code was mailed to, unique addresses and names, and no account
\* changed or removed.
THEOREM RegistrationImplementsAccounts == Spec => Promises
<1>1. Init => A!Init
  BY DEF Init, A!Init
<1>2. Inv /\ [Next]_vars => [A!Next]_<<mailed, rows>>
  <2> SUFFICES ASSUME Inv, [Next]_vars PROVE [A!Next]_<<mailed, rows>>
    OBVIOUS
  <2>1. ASSUME NEW r \in Req, Arrives(r) PROVE UNCHANGED <<mailed, rows>>
    BY <2>1, ArriveMoves DEF Inv
  <2>2. CASE Elapse \/ UNCHANGED vars
    BY <2>2 DEF Elapse, vars
  <2> QED
    BY <2>1, <2>2, StepSimulation DEF Next, Arrives, Works
<1> QED
  BY <1>1, <1>2, Invariant, PTL DEF Spec, Promises, A!Spec

-----------------------------------------------------------------------------
(* What follows from Accounts, and so for registration *)

\* Addresses and names are unique, and every account belongs to an address a
\* code was mailed to.
Owned ==
    /\ \A a, b \in rows : a # b => ~Clash(a, b)
    /\ \A a \in rows : \E m \in mailed : m.email = a.email

LEMMA OwnedStep ==
  ASSUME Owned, [A!Next]_<<mailed, rows>>
  PROVE  Owned' /\ rows \subseteq rows'
<1>1. ASSUME NEW a, A!Open(a) PROVE Owned' /\ rows \subseteq rows'
  BY <1>1 DEF A!Open, Owned, Clash
<1>2. ASSUME NEW m, A!Mail(m) PROVE Owned' /\ rows \subseteq rows'
  BY <1>2 DEF A!Mail, Owned
<1>3. CASE UNCHANGED <<mailed, rows>>
  BY <1>3 DEF Owned
<1> QED
  BY <1>1, <1>2, <1>3 DEF A!Next

\* Who has an account has its address and its name alone and for good:
\* Accounts promises it, and registration implements Accounts.
THEOREM AccountsAreOwned == Spec => []Owned /\ [][rows \subseteq rows']_rows
<1>1. A!Init => Owned
  BY DEF A!Init, Owned
<1>2. Owned /\ [A!Next]_<<mailed, rows>> => Owned' /\ [rows \subseteq rows']_rows
  BY OwnedStep
<1>3. A!Spec => []Owned /\ [][rows \subseteq rows']_rows
  BY <1>1, <1>2, PTL DEF A!Spec
<1> QED
  BY <1>3, RegistrationImplementsAccounts, PTL DEF Promises
=============================================================================
