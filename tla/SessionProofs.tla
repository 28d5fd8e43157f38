---------------------------- MODULE SessionProofs ----------------------------
(***************************************************************************)
(* Proofs about the session core, for every set of accounts and requests,  *)
(* every bound and every combination of operations and faults.             *)
(***************************************************************************)
EXTENDS SessionProps, TLAPS

-----------------------------------------------------------------------------
(* Types.  TypeOK alone is not inductive: a fault adds the account of the   *)
(* request to hurt, so a busy request must be known to have one.            *)

Busy == \A r \in Req : pc[r] # "idle" => Me(r) \in User

TypeInv == TypeOK /\ Busy

LEMMA InitType == Init => TypeInv
<1> USE SessionAssumption
<1> SUFFICES ASSUME Init PROVE TypeInv
  OBVIOUS
<1>1. NoJob \in Job
  BY DEF NoJob, Job, Token
<1>2. NoTok \in Token /\ 0 \in Time /\ 0 \in Nat
  BY DEF Token, Time
<1> QED
  BY <1>1, <1>2 DEF Init, TypeInv, TypeOK, Busy, PCs

\* Fail and Release, the ends of a transaction, keep the types.
LEMMA ReleaseType ==
  ASSUME TypeInv, NEW r \in Req, Release(r)
  PROVE  lock' \in [User -> Req \cup {None}] /\ conns' \subseteq Req
BY DEF TypeInv, TypeOK, Release

LEMMA FailType ==
  ASSUME TypeInv, NEW r \in Req, Fail(r)
  PROVE  /\ status' \in [User -> {0, 1}]
         /\ lock' \in [User -> Req \cup {None}]
         /\ conns' \subseteq Req
         /\ pc' \in [Req -> PCs]
BY ReleaseType DEF TypeInv, TypeOK, Fail, Goto, PCs

LEMMA StartType ==
  ASSUME TypeInv, NEW r \in Req, NEW u \in User, NEW o \in OpNames,
         NEW t \in Token, NEW n \in Nat, NEW first \in PCs, Start(r, o, u, t, n, first)
  PROVE  TypeOK'
<1>1. [NoJob EXCEPT !.op = o, !.user = u, !.tok = t, !.life = n] \in Job
  BY DEF NoJob, Job, Token
<1>2. job' \in [Req -> Job]
  BY <1>1 DEF Start, TypeInv, TypeOK
<1> QED
  BY <1>2 DEF Start, TypeInv, TypeOK, Goto, db, redis, client

\* The steps that read, of Redis or of the users table, and those that only
\* move the program counter.
Reads(r) ==
    \/ Gate(r) \/ Role(r) \/ LoginSelect(r) \/ DetailsSelect(r) \/ Check(r)
    \/ RefreshLocked(r) \/ RefreshGet(r) \/ WaitFails(r)

LEMMA ReadType ==
  ASSUME TypeInv, NEW r \in Req, Reads(r)
  PROVE  TypeOK'
<1> USE DEF Reads, Gate, Role, LoginSelect, DetailsSelect, Check,
            RefreshLocked, RefreshGet, WaitFails
<1>1. \/ pc' \in [Req -> PCs] /\ UNCHANGED db
      \/ Fail(r)
  BY DEF TypeInv, TypeOK, RedisError, DbError, Goto, PCs
<1>2. /\ status' \in [User -> {0, 1}]
      /\ lock' \in [User -> Req \cup {None}]
      /\ conns' \subseteq Req
      /\ pc' \in [Req -> PCs]
  BY <1>1, FailType DEF TypeInv, TypeOK, db
<1>3. job' \in [Req -> Job]
  <2>1. CASE UNCHANGED job
    BY <2>1 DEF TypeInv, TypeOK
  <2>2. CASE job' = [job EXCEPT ![r].acc = now]
    <3>1. job[r] \in Job /\ now \in Token
      BY DEF TypeInv, TypeOK, Token
    <3>2. [job[r] EXCEPT !.acc = now] \in Job
      BY <3>1 DEF Job
    <3> HIDE DEF Gate, Role, LoginSelect, DetailsSelect, Check,
                 RefreshLocked, RefreshGet, WaitFails, Reads
    <3> QED
      BY <2>2, <3>2 DEF TypeInv, TypeOK
  <2> QED
    BY <2>1, <2>2
<1>4. UNCHANGED <<redis, client, now, aux>>
  OBVIOUS
<1> QED
  BY <1>2, <1>3, <1>4 DEF TypeInv, TypeOK, redis, client, aux

LEMMA BeginType ==
  ASSUME TypeInv, NEW r \in Req, Begin(r) PROVE TypeOK'
BY DEF TypeInv, TypeOK, Begin, Goto, PCs, redis, client, aux

LEMMA UpdateType ==
  ASSUME TypeInv, NEW r \in Req, Update(r) PROVE TypeOK'
<1>0. job[r] \in Job /\ now \in Token
  BY DEF TypeInv, TypeOK, Token
<1>1. [job[r] EXCEPT !.mint = now, !.acc = now] \in Job
  BY <1>0 DEF Job
<1>2. job' \in [Req -> Job]
  BY <1>1 DEF TypeInv, TypeOK, Update
<1>3. lock' \in [User -> Req \cup {None}] /\ pc' \in [Req -> PCs]
  BY DEF TypeInv, TypeOK, Update, Goto, PCs
<1> QED
  BY <1>2, <1>3 DEF TypeInv, TypeOK, Update, redis, client, aux

LEMMA CommitType ==
  ASSUME TypeInv, NEW r \in Req, Commit(r) \/ CommitFails(r) PROVE TypeOK'
<1>1. Me(r) \in User
  BY DEF TypeInv, Busy, Commit, CommitFails
<1>2. Written(r) \in [User -> {0, 1}]
  BY DEF TypeInv, TypeOK, Written
<1>3. status' \in [User -> {0, 1}] /\ pc' \in [Req -> PCs]
  BY <1>2 DEF TypeInv, TypeOK, Commit, CommitFails, Goto, PCs
<1>4. lock' \in [User -> Req \cup {None}] /\ conns' \subseteq Req
  BY ReleaseType DEF Commit, CommitFails
<1>5. hurt' \subseteq User
  BY <1>1 DEF TypeInv, TypeOK, Commit, CommitFails, Hurt, aux
<1> QED
  BY <1>3, <1>4, <1>5 DEF TypeInv, TypeOK, Commit, CommitFails, redis, client, aux

LEMMA SAddType ==
  ASSUME TypeInv, NEW r \in Req, SAdd(r) PROVE TypeOK'
<1>1. \/ pc' \in [Req -> PCs] /\ UNCHANGED db
      \/ Fail(r)
  BY DEF TypeInv, TypeOK, SAdd, RedisError, Goto, PCs
<1>2. /\ status' \in [User -> {0, 1}]
      /\ lock' \in [User -> Req \cup {None}]
      /\ conns' \subseteq Req
      /\ pc' \in [Req -> PCs]
  BY <1>1, FailType DEF TypeInv, TypeOK, db
<1> QED
  BY <1>2 DEF TypeInv, TypeOK, SAdd, client, aux

LEMMA DelType ==
  ASSUME TypeInv, NEW r \in Req, Del(r) \/ DelFails(r) PROVE TypeOK'
<1>1. store' \in [User -> Token]
  BY DEF TypeInv, TypeOK, Del, DelFails, DelKey, Token
<1>2. now \in Token /\ Me(r) \in User
  BY DEF TypeInv, TypeOK, Token, Busy, Del, DelFails
<1>3. CASE Del(r)
  <2>0. [job[r] EXCEPT !.mint = now] \in Job
    BY <1>2 DEF TypeInv, TypeOK, Job
  <2>1. job' \in [Req -> Job]
    BY <1>3, <2>0 DEF TypeInv, TypeOK, Del
  <2>2. pc' \in [Req -> PCs]
    BY <1>3 DEF TypeInv, TypeOK, Del, Goto, PCs
  <2> QED
    BY <1>1, <1>3, <2>1, <2>2 DEF TypeInv, TypeOK, Del, db, client, aux
<1>4. CASE DelFails(r)
  <2>1. Fail(r) /\ hurt' \subseteq User
    BY <1>2, <1>4 DEF TypeInv, TypeOK, DelFails, RedisError, Hurt
  <2> QED
    BY <1>1, <1>4, <2>1, FailType DEF TypeInv, TypeOK, DelFails, client
<1> QED
  BY <1>3, <1>4

LEMMA SetNXType ==
  ASSUME TypeInv, NEW u \in User, NEW t \in Token, SetNX(u, t)
  PROVE  store' \in [User -> Token] /\ expire' \in [User -> Nat]
<1>1. now + RefreshTTL \in Nat
  BY SessionAssumption DEF TypeInv, TypeOK, Time
<1> QED
  BY <1>1 DEF TypeInv, TypeOK, SetNX

LEMMA CreateType ==
  ASSUME TypeInv, NEW r \in Req, Create(r) \/ CreateFails(r) PROVE TypeOK'
<1>1. job[r] \in Job /\ now \in Token /\ Me(r) \in User
  BY DEF TypeInv, TypeOK, Token, Busy, Create, CreateFails
<1>2. job[r].mint \in Token
  BY <1>1 DEF Job
<1>3. store' \in [User -> Token] /\ expire' \in [User -> Nat]
  BY <1>1, <1>2, SetNXType DEF TypeInv, TypeOK, Create, CreateFails
<1>4. CASE Create(r)
  <2>1. [job[r] EXCEPT !.ref = job[r].mint, !.acc = now] \in Job
    BY <1>1, <1>2 DEF Job
  <2>2. [job[r] EXCEPT !.ref = job[r].mint] \in Job
    BY <1>1, <1>2 DEF Job
  <2>3. job' \in [Req -> Job]
    BY <1>4, <2>1, <2>2 DEF TypeInv, TypeOK, Create
  <2>4. pc' \in [Req -> PCs] /\ crossed' \subseteq User
    BY <1>1, <1>4 DEF TypeInv, TypeOK, Create, Goto, PCs
  <2> QED
    BY <1>3, <1>4, <2>3, <2>4 DEF TypeInv, TypeOK, Create, db, client
<1>5. CASE CreateFails(r)
  <2>1. Fail(r) /\ hurt' \subseteq User
    BY <1>1, <1>5 DEF TypeInv, TypeOK, CreateFails, RedisError, Hurt
  <2> QED
    BY <1>3, <1>5, <2>1, FailType DEF TypeInv, TypeOK, CreateFails, client
<1> QED
  BY <1>4, <1>5

LEMMA ReplyType ==
  ASSUME TypeInv, NEW r \in Req, Reply(r) PROVE TypeOK'
<1>1. job[r] \in Job /\ NoJob \in Job
  BY DEF TypeInv, TypeOK, NoJob, Job, Token
<1>2. {job[r].acc} \ {NoTok} \subseteq Time /\ {job[r].ref} \ {NoTok} \subseteq Time
  BY <1>1 DEF Job, Token
<1>3. heldA' \in [User -> SUBSET Time] /\ heldR' \in [User -> SUBSET Time]
  BY <1>2 DEF TypeInv, TypeOK, Reply
<1>4. /\ pc' \in [Req -> PCs]
      /\ job' \in [Req -> Job]
      /\ solo' \subseteq Req
  BY <1>1 DEF TypeInv, TypeOK, Reply, Finish, Goto, PCs
<1> QED
  BY <1>3, <1>4 DEF TypeInv, TypeOK, Reply, db, redis

LEMMA CrashType ==
  ASSUME TypeInv, NEW r \in Req, Crash(r) PROVE TypeOK'
<1>1. NoJob \in Job /\ Me(r) \in User
  BY DEF TypeInv, Busy, Crash, NoJob, Job, Token
<1>2. lock' \in [User -> Req \cup {None}] /\ conns' \subseteq Req
  BY ReleaseType DEF Crash
<1>3. /\ pc' \in [Req -> PCs]
      /\ job' \in [Req -> Job]
      /\ solo' \subseteq Req
      /\ hurt' \subseteq User
  BY <1>1 DEF TypeInv, TypeOK, Crash, Finish, Goto, Hurt, PCs
<1> QED
  BY <1>2, <1>3 DEF TypeInv, TypeOK, Crash, redis, client

LEMMA ResendType ==
  ASSUME TypeInv, NEW r \in Req, Resend(r) PROVE TypeOK'
<1>1. Me(r) \in User /\ job[r].mint \in Token
  BY DEF TypeInv, TypeOK, Busy, Resend, Job
<1>2. store' \in [User -> Token] /\ expire' \in [User -> Nat]
  <2>1. CASE DelKey(Me(r)) /\ UNCHANGED expire
    BY <2>1 DEF TypeInv, TypeOK, DelKey, Token
  <2>2. CASE SetNX(Me(r), job[r].mint)
    BY <1>1, <2>2, SetNXType
  <2> QED
    BY <2>1, <2>2 DEF Resend
<1> QED
  BY <1>1, <1>2 DEF TypeInv, TypeOK, Resend, Hurt, db, client

-----------------------------------------------------------------------------
(* What a step of one request leaves alone *)

Works(r) ==
    Step(r) \/ Begin(r) \/ Update(r) \/ WaitFails(r) \/ Resend(r) \/ Crash(r)

LEMMA WorksType ==
  ASSUME TypeInv, NEW r \in Req, Works(r) PROVE TypeOK'
BY ReadType, BeginType, UpdateType, CommitType, SAddType, DelType, CreateType,
   ResendType, ReplyType, CrashType DEF Works, Step, Reads

\* A step of r is invisible in the control state of the other requests, and
\* r either ends or goes on with the same operation and account.
LEMMA Frame ==
  ASSUME TypeInv, NEW r \in Req, Works(r)
  PROVE  /\ pc[r] # "idle"
         /\ \A q \in Req \ {r} : pc'[q] = pc[q] /\ job'[q] = job[q]
         /\ \/ pc'[r] = "idle" /\ job'[r] = NoJob
            \/ /\ pc'[r] # "idle"
               /\ job'[r].op = job[r].op
               /\ job'[r].user = job[r].user
<1> USE DEF Goto
<1>0. /\ pc \in [Req -> PCs] /\ job \in [Req -> Job] /\ job[r] \in Job
  BY DEF TypeInv, TypeOK
<1>1. CASE Reads(r)
  <2> USE <1>1 DEF Reads, Gate, Role, LoginSelect, DetailsSelect, Check,
                   RefreshLocked, RefreshGet, WaitFails, RedisError, DbError, Fail
  <2>1. \/ UNCHANGED job
        \/ job' = [job EXCEPT ![r].acc = now]
    OBVIOUS
  <2>2. \E l \in PCs \ {"idle"} : pc' = [pc EXCEPT ![r] = l]
    BY DEF PCs
  <2>3. pc[r] # "idle"
    OBVIOUS
  <2> HIDE <1>1
  <2> QED
    BY <1>0, <2>1, <2>2, <2>3 DEF Job
<1>2. CASE Begin(r) \/ Update(r)
  <2>1. \/ UNCHANGED job
        \/ job' = [job EXCEPT ![r] = [@ EXCEPT !.mint = now, !.acc = now]]
    BY <1>2 DEF Begin, Update
  <2>2. \E l \in PCs \ {"idle"} : pc' = [pc EXCEPT ![r] = l]
    BY <1>2 DEF Begin, Update, PCs
  <2>3. pc[r] # "idle"
    BY <1>2 DEF Begin, Update
  <2>4. LET j == [job[r] EXCEPT !.mint = now, !.acc = now]
        IN  j.op = job[r].op /\ j.user = job[r].user
    BY <1>0 DEF Job
  <2> QED
    BY <1>0, <2>1, <2>2, <2>3, <2>4
<1>3. CASE Commit(r) \/ CommitFails(r) \/ SAdd(r)
  BY <1>0, <1>3 DEF Commit, CommitFails, SAdd, RedisError, Fail
<1>4. CASE Del(r) \/ DelFails(r)
  <2>1. \/ UNCHANGED job
        \/ job' = [job EXCEPT ![r].mint = now]
    BY <1>4 DEF Del, DelFails
  <2>2. \E l \in PCs \ {"idle"} : pc' = [pc EXCEPT ![r] = l]
    BY <1>4 DEF Del, DelFails, RedisError, Fail, PCs
  <2>3. pc[r] # "idle"
    BY <1>4 DEF Del, DelFails
  <2> QED
    BY <1>0, <2>1, <2>2, <2>3 DEF Job
<1>5. CASE Create(r) \/ CreateFails(r)
  <2>1. \/ UNCHANGED job
        \/ job' = [job EXCEPT ![r] = [@ EXCEPT !.ref = job[r].mint, !.acc = now]]
        \/ job' = [job EXCEPT ![r].ref = job[r].mint]
    BY <1>5 DEF Create, CreateFails
  <2>2. \E l \in PCs \ {"idle"} : pc' = [pc EXCEPT ![r] = l]
    BY <1>5 DEF Create, CreateFails, RedisError, Fail, PCs
  <2>3. pc[r] # "idle"
    BY <1>5 DEF Create, CreateFails
  <2>4. /\ LET j == [job[r] EXCEPT !.ref = job[r].mint, !.acc = now]
           IN  j.op = job[r].op /\ j.user = job[r].user
        /\ LET j == [job[r] EXCEPT !.ref = job[r].mint]
           IN  j.op = job[r].op /\ j.user = job[r].user
    BY <1>0 DEF Job
  <2> QED
    BY <1>0, <2>1, <2>2, <2>3, <2>4
<1>6. CASE Reply(r) \/ Crash(r)
  BY <1>0, <1>6 DEF Reply, Crash, Finish
<1>7. CASE Resend(r)
  BY <1>7 DEF Resend
<1> QED
  BY <1>1, <1>2, <1>3, <1>4, <1>5, <1>6, <1>7 DEF Works, Step, Reads

\* What a request looks like when it has just arrived.
LEMMA ArriveFrame ==
  ASSUME TypeInv, NEW r \in Req, Arrive(r)
  PROVE  \E o \in OpNames, u \in User, t \in Token, n \in Nat, l \in PCs \ {"idle"} :
             /\ Start(r, o, u, t, n, l)
             /\ CASE o = "login" -> l = "begin"
                  [] o = "refresh" -> l \in {"sismember", "error"}
                  [] OTHER -> l \in {"gate", "error"}
<1>1. CASE \E u \in User : LoginStart(r, u)
  BY <1>1 DEF LoginStart, OpNames, Token, PCs
<1>2. CASE \E u \in User, o \in OpNames, t \in Time, n \in {AccessTTL, RefreshTTL} :
             AuthStart(r, o, u, t, n)
  <2> PICK u \in User, o \in OpNames, t \in Time, n \in {AccessTTL, RefreshTTL} :
             AuthStart(r, o, u, t, n)
    BY <1>2
  <2>1. t \in Token /\ n \in Nat
    BY SessionAssumption DEF Token
  <2> QED
    BY <2>1 DEF AuthStart, PCs
<1>3. CASE \E u \in User : \E t \in heldR[u] : RefreshStart(r, u, t)
  <2> PICK u \in User : \E t \in heldR[u] : RefreshStart(r, u, t)
    BY <1>3
  <2> PICK t \in heldR[u] : RefreshStart(r, u, t)
    OBVIOUS
  <2>1. t \in Token /\ RefreshTTL \in Nat
    BY SessionAssumption DEF TypeInv, TypeOK, Token
  <2> QED
    BY <2>1 DEF RefreshStart, PCs, OpNames
<1> QED
  BY <1>1, <1>2, <1>3 DEF Arrive

LEMMA TypeStep == TypeInv /\ [Next]_vars => TypeInv'
<1> SUFFICES ASSUME TypeInv, [Next]_vars PROVE TypeInv'
  OBVIOUS
<1>1. ASSUME NEW r \in Req, Arrive(r) PROVE TypeInv'
  <2>1. PICK o \in OpNames, u \in User, t \in Token, n \in Nat, l \in PCs :
            Start(r, o, u, t, n, l)
    BY <1>1, ArriveFrame
  <2>2. TypeOK'
    BY <2>1, StartType
  <2>3. \A q \in Req \ {r} : pc'[q] = pc[q] /\ job'[q] = job[q]
    BY <2>1 DEF TypeInv, TypeOK, Start, Goto
  <2>4. job'[r].user = u
    BY <2>1 DEF TypeInv, TypeOK, Start, NoJob
  <2> QED
    BY <2>2, <2>3, <2>4 DEF TypeInv, Busy, Me
<1>2. ASSUME NEW r \in Req, Works(r) PROVE TypeInv'
  BY <1>2, WorksType, Frame DEF TypeInv, Busy, Me
<1>3. CASE Elapse
  <2>1. now' \in Time
    BY <1>3, SessionAssumption DEF TypeInv, TypeOK, Elapse, Time
  <2> QED
    BY <1>3, <2>1 DEF TypeInv, TypeOK, Busy, Me, Elapse, db, redis, client, aux
<1>4. CASE UNCHANGED vars
  BY <1>4 DEF vars, TypeInv, TypeOK, Busy, Me, db, redis, client, aux
<1> QED
  BY <1>1, <1>2, <1>3, <1>4 DEF Next, Works

\* The variables always have the types TypeOK gives them: the status column
\* is 0 or 1, and every token the program holds, stores or returns was issued
\* within the run.
THEOREM TypeCorrect == Spec => []TypeOK
<1>1. TypeInv => TypeOK
  BY DEF TypeInv
<1> QED
  BY <1>1, InitType, TypeStep, PTL DEF Spec

-----------------------------------------------------------------------------
(* Transactions.  TxDiscipline speaks of the points of the code that lie     *)
(* inside gdb.Transaction; what makes it inductive is the route of each      *)
(* operation through those points.                                           *)

Route(o) ==
    CASE o = "login"   -> {"begin", "select", "check", "update", "setnx", "commit",
                           "reply", "error"}
      [] o = "logout"  -> {"gate", "check", "begin", "update", "del", "commit",
                           "reply", "error"}
      [] o = "upload"  -> {"gate", "check", "begin", "update", "commit", "reply",
                           "error"}
      [] o = "details" -> {"gate", "check", "begin", "select", "commit", "reply",
                           "error"}
      [] o = "refresh" -> {"sismember", "get", "del", "setnx", "reply", "error"}
      [] o = "tick"    -> {"gate", "role", "sadd", "reply", "error"}
      [] OTHER         -> {"idle"}

Flow == \A r \in Req : pc[r] \in Route(Op(r))

TxInv == Flow /\ TxDiscipline

LEMMA InitTx == Init => TxInv
<1> SUFFICES ASSUME Init PROVE TxInv
  OBVIOUS
<1>1. \A r \in Req : pc[r] = "idle" /\ Op(r) = "none"
  BY DEF Init, Op, NoJob
<1>2. Flow
  BY <1>1 DEF Flow, Route
<1>3. TxDiscipline
  BY <1>1, SessionAssumption DEF Init, TxDiscipline, InTransaction, HasRow
<1> QED
  BY <1>2, <1>3 DEF TxInv

\* A step of r that neither enters nor leaves a transaction ...
LEMMA TxStays ==
  ASSUME TypeInv, TxDiscipline, NEW r \in Req, UNCHANGED <<lock, conns>>,
         \A q \in Req \ {r} : pc'[q] = pc[q] /\ job'[q] = job[q],
         InTransaction(r)' <=> InTransaction(r), HasRow(r)' <=> HasRow(r),
         HasRow(r) => Me(r)' = Me(r)
  PROVE  TxDiscipline'
<1>1. \A q \in Req : /\ InTransaction(q)' <=> InTransaction(q)
                     /\ HasRow(q)' <=> HasRow(q)
                     /\ HasRow(q) => Me(q)' = Me(q)
  BY DEF InTransaction, HasRow, Op, Me
<1> QED
  BY <1>1 DEF TxDiscipline

\* ... and one that ends it.
LEMMA TxEnds ==
  ASSUME TypeInv, TxDiscipline, NEW r \in Req, Release(r),
         \A q \in Req \ {r} : pc'[q] = pc[q] /\ job'[q] = job[q],
         ~InTransaction(r)', ~HasRow(r)'
  PROVE  TxDiscipline'
<1>1. \A q \in Req \ {r} : /\ InTransaction(q)' <=> InTransaction(q)
                           /\ HasRow(q)' <=> HasRow(q)
                           /\ Me(q)' = Me(q)
  BY DEF InTransaction, HasRow, Op, Me
<1>2. \A u \in User : lock'[u] = IF lock[u] = r THEN None ELSE lock[u]
  BY DEF TypeInv, TypeOK, Release
<1>3. conns' = {q \in Req : InTransaction(q)'}
  BY <1>1 DEF TxDiscipline, Release
<1>4. \A u \in User, q \in Req : lock'[u] = q <=> HasRow(q)' /\ Me(q)' = u
  BY <1>1, <1>2, SessionAssumption DEF TxDiscipline
<1> QED
  BY <1>3, <1>4 DEF TxDiscipline

\* An early return may happen anywhere: there may be a transaction to roll
\* back or not.
LEMMA TxFails ==
  ASSUME TypeInv, TxInv, NEW r \in Req, Works(r), Fail(r)
  PROVE  TxDiscipline'
<1>1. pc'[r] = "error"
  BY DEF Fail, Goto, TypeInv, TypeOK
<1>2. ~InTransaction(r)' /\ ~HasRow(r)'
  BY <1>1 DEF InTransaction, HasRow
<1> QED
  BY <1>1, <1>2, Frame, TxEnds DEF TxInv, Fail

\* Every step of r leads to a later point of the route of its operation.
LEMMA FlowNext ==
  ASSUME TypeInv, Flow, NEW r \in Req, Works(r), pc'[r] # "idle"
  PROVE  pc'[r] \in Route(Op(r))
<1>1. \A l : Goto(r, l) => pc'[r] = l
  BY DEF Goto, TypeInv, TypeOK
<1>2. pc[r] \in Route(Op(r)) /\ pc[r] # "idle"
  BY Frame DEF Flow
<1>3. CASE pc'[r] \in {"error", "reply"}
  BY <1>2, <1>3 DEF Route
<1>4. CASE pc'[r] \notin {"error", "reply"}
  <2>1. CASE Gate(r) \/ Role(r) \/ Check(r)
    BY <1>1, <1>2, <1>4, <2>1 DEF Gate, Role, Check, RedisError, Fail, Route
  <2>2. CASE Begin(r) \/ Update(r)
    BY <1>1, <1>2, <2>2 DEF Begin, Update, Route
  <2>3. CASE LoginSelect(r) \/ DetailsSelect(r) \/ RefreshLocked(r) \/ RefreshGet(r)
    BY <1>1, <1>2, <1>4, <2>3
    DEF LoginSelect, DetailsSelect, RefreshLocked, RefreshGet, RedisError,
        DbError, Fail, Route
  <2>4. CASE Del(r) \/ Create(r)
    BY <1>1, <1>2, <2>4 DEF Del, Create, Route
  <2>5. CASE WaitFails(r) \/ CommitFails(r) \/ DelFails(r) \/ CreateFails(r)
    BY <1>1, <1>4, <2>5
    DEF WaitFails, CommitFails, DelFails, CreateFails, RedisError, DbError, Fail
  <2>6. CASE SAdd(r) \/ Commit(r)
    BY <1>1, <1>4, <2>6 DEF SAdd, Commit, RedisError, Fail
  <2>7. CASE Reply(r) \/ Crash(r)
    BY <1>1, <2>7 DEF Reply, Crash, Finish
  <2>8. CASE Resend(r)
    BY <1>2, <2>8 DEF Resend
  <2> QED
    BY <2>1, <2>2, <2>3, <2>4, <2>5, <2>6, <2>7, <2>8 DEF Works, Step
<1> QED
  BY <1>3, <1>4

LEMMA FlowStep ==
  ASSUME TypeInv, Flow, NEW r \in Req, Works(r)
  PROVE  Flow'
<1>1. \A q \in Req \ {r} : pc'[q] \in Route(Op(q)')
  BY Frame DEF Flow, Op
<1>2. pc'[r] \in Route(Op(r)')
  <2>1. CASE pc'[r] = "idle" /\ job'[r] = NoJob
    BY <2>1 DEF Route, Op, NoJob
  <2>2. CASE pc'[r] # "idle" /\ job'[r].op = job[r].op
    BY <2>2, FlowNext DEF Op
  <2> QED
    BY <2>1, <2>2, Frame
<1> QED
  BY <1>1, <1>2 DEF Flow

LEMMA TxStep ==
  ASSUME TypeInv, TxInv, NEW r \in Req, Works(r)
  PROVE  TxDiscipline'
<1> USE DEF TxInv
<1>1. /\ \A q \in Req \ {r} : pc'[q] = pc[q] /\ job'[q] = job[q]
      /\ \/ pc'[r] = "idle" /\ job'[r] = NoJob
         \/ Op(r)' = Op(r) /\ Me(r)' = Me(r)
  BY Frame DEF Op, Me
<1>2. \A l : Goto(r, l) => pc'[r] = l
  BY DEF Goto, TypeInv, TypeOK
<1>3. pc[r] \in Route(Op(r))
  BY DEF Flow
<1>4. CASE Fail(r)
  BY <1>4, TxFails
<1>5. CASE Reads(r) /\ ~Fail(r)
  <2>1. /\ UNCHANGED <<lock, conns>>
        /\ pc'[r] # "idle"
        /\ InTransaction(r)' <=> InTransaction(r)
        /\ HasRow(r)' <=> HasRow(r)
    BY <1>1, <1>2, <1>3, <1>5, Frame
    DEF Reads, Gate, Role, LoginSelect, DetailsSelect, Check, RefreshLocked,
        RefreshGet, WaitFails, RedisError, DbError, Route, InTransaction, HasRow, db
  <2> QED
    BY <1>1, <2>1, TxStays
<1>6. CASE SAdd(r) /\ ~Fail(r)
  <2>1. /\ UNCHANGED <<lock, conns>>
        /\ pc'[r] # "idle"
        /\ InTransaction(r)' <=> InTransaction(r)
        /\ HasRow(r)' <=> HasRow(r)
    BY <1>1, <1>2, <1>3, <1>6
    DEF SAdd, RedisError, Route, InTransaction, HasRow, db
  <2> QED
    BY <1>1, <2>1, TxStays
<1>7. CASE Begin(r)
  <2>1. InTransaction(r)' /\ ~HasRow(r)' /\ ~HasRow(r)
    BY <1>1, <1>2, <1>3, <1>7 DEF Begin, Route, InTransaction, HasRow
  <2>2. \A q \in Req \ {r} : /\ InTransaction(q)' <=> InTransaction(q)
                             /\ HasRow(q)' <=> HasRow(q)
                             /\ Me(q)' = Me(q)
    BY <1>1 DEF InTransaction, HasRow, Op, Me
  <2> QED
    BY <1>7, <2>1, <2>2 DEF Begin, TxDiscipline
<1>8. CASE Update(r)
  <2>1. InTransaction(r)' /\ InTransaction(r) /\ HasRow(r)' /\ ~HasRow(r)
    BY <1>1, <1>2, <1>3, <1>8, Frame DEF Update, Route, InTransaction, HasRow
  <2>2. \A q \in Req \ {r} : /\ InTransaction(q)' <=> InTransaction(q)
                             /\ HasRow(q)' <=> HasRow(q)
                             /\ Me(q)' = Me(q)
    BY <1>1 DEF InTransaction, HasRow, Op, Me
  <2>3. Me(r)' = Me(r) /\ Me(r) \in User /\ lock[Me(r)] = None
    BY <1>1, <1>8, <2>1 DEF TypeInv, Busy, Update, HasRow
  <2>4. \A u \in User : lock'[u] = IF u = Me(r) THEN r ELSE lock[u]
    BY <1>8 DEF Update, TypeInv, TypeOK
  <2>5. \A u \in User, q \in Req : lock'[u] = q <=> HasRow(q)' /\ Me(q)' = u
    BY <2>1, <2>2, <2>3, <2>4, SessionAssumption DEF TxDiscipline
  <2>6. conns' = {q \in Req : InTransaction(q)'}
    BY <1>8, <2>1, <2>2 DEF Update, TxDiscipline
  <2> QED
    BY <2>5, <2>6 DEF TxDiscipline
<1>9. CASE Commit(r) \/ CommitFails(r)
  <2>1. Release(r) /\ ~InTransaction(r)' /\ ~HasRow(r)'
    BY <1>2, <1>9 DEF Commit, CommitFails, InTransaction, HasRow
  <2> QED
    BY <1>1, <2>1, TxEnds
<1>10. CASE Del(r) \/ Create(r)
  <2>1. /\ UNCHANGED <<lock, conns>>
        /\ pc'[r] # "idle"
        /\ InTransaction(r)' <=> InTransaction(r)
        /\ HasRow(r)' <=> HasRow(r)
    BY <1>1, <1>2, <1>3, <1>10 DEF Del, Create, Route, InTransaction, HasRow, db
  <2> QED
    BY <1>1, <2>1, TxStays
<1>11. CASE Reply(r)
  <2>1. /\ UNCHANGED <<lock, conns>>
        /\ ~InTransaction(r)' /\ ~InTransaction(r) /\ ~HasRow(r)' /\ ~HasRow(r)
    BY <1>2, <1>11 DEF Reply, Finish, InTransaction, HasRow, db
  <2> QED
    BY <1>1, <2>1, TxStays
<1>12. CASE Crash(r)
  <2>1. Release(r) /\ ~InTransaction(r)' /\ ~HasRow(r)'
    BY <1>2, <1>12 DEF Crash, Finish, InTransaction, HasRow
  <2> QED
    BY <1>1, <2>1, TxEnds
<1>13. CASE Resend(r)
  <2>1. UNCHANGED <<lock, conns, pc, job>>
    BY <1>13 DEF Resend, db
  <2> QED
    BY <1>1, <2>1, TxStays DEF InTransaction, HasRow, Op, Me
<1> QED
  BY <1>4, <1>5, <1>6, <1>7, <1>8, <1>9, <1>10, <1>11, <1>12, <1>13
  DEF Works, Step, Reads, DelFails, CreateFails, RedisError

LEMMA TxNext == TypeInv /\ TxInv /\ [Next]_vars => TxInv'
<1> SUFFICES ASSUME TypeInv, TxInv, [Next]_vars PROVE TxInv'
  OBVIOUS
<1>1. ASSUME NEW r \in Req, Arrive(r) PROVE TxInv'
  <2>1. PICK o \in OpNames, u \in User, t \in Token, n \in Nat, l \in PCs \ {"idle"} :
            /\ Start(r, o, u, t, n, l)
            /\ CASE o = "login" -> l = "begin"
                 [] o = "refresh" -> l \in {"sismember", "error"}
                 [] OTHER -> l \in {"gate", "error"}
    BY <1>1, ArriveFrame
  <2>2. \A q \in Req \ {r} : pc'[q] = pc[q] /\ job'[q] = job[q]
    BY <2>1 DEF TypeInv, TypeOK, Start, Goto
  <2>3. pc[r] = "idle" /\ pc'[r] = l /\ Op(r)' = o
    BY <2>1 DEF TypeInv, TypeOK, Start, Goto, Op, NoJob
  <2>4. l \in Route(o)
    BY <2>1 DEF OpNames, Route
  <2>5. Flow'
    BY <2>2, <2>3, <2>4 DEF TxInv, Flow, Op
  <2>6. UNCHANGED <<lock, conns>>
    BY <2>1 DEF Start, db
  <2>7. ~InTransaction(r) /\ ~InTransaction(r)' /\ ~HasRow(r) /\ ~HasRow(r)'
    BY <2>1, <2>3 DEF InTransaction, HasRow
  <2> QED
    BY <2>2, <2>5, <2>6, <2>7, TxStays DEF TxInv
<1>2. ASSUME NEW r \in Req, Works(r) PROVE TxInv'
  BY <1>2, FlowStep, TxStep DEF TxInv
<1>3. CASE Elapse \/ UNCHANGED vars
  <2>1. UNCHANGED <<lock, conns, pc, job>>
    BY <1>3 DEF Elapse, vars, db
  <2> QED
    BY <2>1 DEF TxInv, Flow, TxDiscipline, InTransaction, HasRow, Op, Me
<1> QED
  BY <1>1, <1>2, <1>3 DEF Next, Works

\* Connections and row locks are held by exactly the requests that are inside
\* gdb.Transaction: no path through Login, Logout, UploadAvatar or
\* GetUserDetails leaks one, and no two requests hold the same row.
THEOREM TransactionsAreDisciplined == Spec => []TxDiscipline
<1>1. Init => TypeInv /\ TxInv
  BY InitType, InitTx
<1>2. TypeInv /\ TxInv /\ [Next]_vars => (TypeInv /\ TxInv)'
  BY TypeStep, TxNext
<1>3. TypeInv /\ TxInv => TxDiscipline
  BY DEF TxInv
<1> QED
  BY <1>1, <1>2, <1>3, PTL DEF Spec
=============================================================================
