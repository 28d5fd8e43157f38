--------------------------- MODULE SessionAccessProofs ---------------------------
(***************************************************************************)
(* Who waits, who gets in and for how long: the queues of the session core *)
(* never close into a cycle and every handler is a bounded number of       *)
(* calls; a stored token and its key live equally long, and an older token *)
(* is never put back; a locked account stays out, and only an              *)
(* administrator locks one.                                                *)
(***************************************************************************)
EXTENDS SessionSafetyProofs, FiniteSetTheorems

-----------------------------------------------------------------------------
(* SomeoneRuns *)

\* Who is inside a transaction and past its UPDATE waits for nobody.
LEMMA HolderRuns ==
  ASSUME NEW r \in Req, HasRow(r)
  PROVE  pc[r] # "idle" /\ ~Waits(r)
BY DEF HasRow, Waits

\* The holder of a connection runs, or waits for a row.
LEMMA ConnectedRunsOrQueues ==
  ASSUME NEW r \in Req, InTransaction(r)
  PROVE  pc[r] # "idle" /\ (~Waits(r) \/ (pc[r] = "update" /\ lock[Me(r)] # None))
BY DEF InTransaction, Waits

\* Behind a row is its holder.
LEMMA RowQueueMoves ==
  ASSUME TypeInv, TxInv, NEW r \in Req, pc[r] = "update", lock[Me(r)] # None
  PROVE  \E q \in Req : pc[q] # "idle" /\ ~Waits(q)
<1>1. Me(r) \in User
  BY DEF TypeInv, Busy
<1>2. lock[Me(r)] \in Req
  BY <1>1 DEF TypeInv, TypeOK
<1>3. HasRow(lock[Me(r)])
  BY <1>1, <1>2 DEF TxInv, TxDiscipline
<1> QED
  BY <1>2, <1>3, HolderRuns

\* Behind a full pool is a transaction: MaxConns is not 0.
LEMMA PoolQueueMoves ==
  ASSUME TypeInv, TxInv, Cardinality(conns) >= MaxConns
  PROVE  \E q \in Req : pc[q] # "idle" /\ ~Waits(q)
<1>1. conns # {}
  BY FS_EmptySet, SessionAssumption
<1>2. PICK r \in Req : InTransaction(r)
  BY <1>1 DEF TxInv, TxDiscipline
<1> QED
  BY <1>2, ConnectedRunsOrQueues, RowQueueMoves

\* Waiting for a connection, then for a row, with the connection in hand, does
\* not end in a deadlock, whatever the size of the pool and the number of
\* requests: as long as any is in flight, one of them waits for nobody.
THEOREM NoDeadlock == Spec => []SomeoneRuns
<1>1. Init => TypeInv /\ TxInv
  BY InitType, InitTx
<1>2. TypeInv /\ TxInv /\ [Next]_vars => (TypeInv /\ TxInv)'
  BY TypeStep, TxNext
<1>3. TypeInv /\ TxInv => SomeoneRuns
  <2> SUFFICES ASSUME TypeInv, TxInv, NEW r \in Req, pc[r] # "idle"
               PROVE  \E q \in Req : pc[q] # "idle" /\ ~Waits(q)
    BY DEF SomeoneRuns
  <2>1. CASE ~Waits(r)
    BY <2>1
  <2>2. CASE pc[r] = "begin" /\ Cardinality(conns) >= MaxConns
    BY <2>2, PoolQueueMoves
  <2>3. CASE pc[r] = "update" /\ lock[Me(r)] # None
    BY <2>3, RowQueueMoves
  <2> QED
    BY <2>1, <2>2, <2>3 DEF Waits
<1> QED
  BY <1>1, <1>2, <1>3, PTL DEF Spec

-----------------------------------------------------------------------------
(* Handlers are finite *)

\* The calls a request has before it, its response included: a bound.
Left(r) ==
    CASE pc[r] = "idle" -> 0
      [] pc[r] \in {"reply", "error"} -> 1
      [] pc[r] \in {"commit", "sadd"} -> 2
      [] pc[r] \in {"setnx", "role"} -> 3
      [] pc[r] = "del" -> 4
      [] pc[r] \in {"update", "get"} -> 5
      [] pc[r] = "sismember" -> 6
      [] pc[r] = "select" -> IF Op(r) = "login" THEN 7 ELSE 3
      [] pc[r] = "check" -> IF Op(r) = "login" THEN 6 ELSE 7
      [] pc[r] = "begin" -> IF Op(r) = "login" THEN 8 ELSE 6
      [] pc[r] = "gate" -> 8

\* Every step of a handler brings its end nearer, but for the commands that
\* go-redis sends again.
RequestsAdvance ==
    [][\A r \in Req : Works(r) => Resend(r) \/ Left(r)' < Left(r)]_vars

LEMMA AdvanceStep ==
  ASSUME TypeInv, Flow, NEW r \in Req, Works(r), ~Resend(r)
  PROVE  Left(r)' < Left(r)
<1>1. \A l : Goto(r, l) => pc'[r] = l
  BY DEF Goto, TypeInv, TypeOK
<1>2. /\ pc[r] \in Route(Op(r)) /\ pc[r] # "idle"
      /\ pc'[r] = "idle" \/ Op(r)' = Op(r)
  BY Frame DEF Flow, Op
<1>3. pc[r] \notin {"reply", "error", "idle"} => Left(r) \in 2..8
  BY <1>2 DEF Left, Route
<1>4. CASE Fail(r)
  <2>1. pc[r] \notin {"reply", "error", "idle"}
    BY <1>2, <1>4, <1>1 DEF Fail, Works, Step, Gate, Role, LoginSelect, DetailsSelect, Check,
       RefreshLocked, RefreshGet, WaitFails, SAdd, Begin, Update, Commit, CommitFails,
       Del, DelFails, Create, CreateFails, Reply, Resend, Crash, Finish
  <2>2. Left(r)' = 1
    BY <1>1, <1>4 DEF Fail, Left
  <2> QED
    BY <1>3, <2>1, <2>2
<1>5. CASE (Gate(r) \/ Role(r) \/ Check(r) \/ SAdd(r)) /\ ~Fail(r)
  BY <1>1, <1>2, <1>5 DEF Gate, Role, Check, SAdd, RedisError, Route, Left
<1>6. CASE (LoginSelect(r) \/ DetailsSelect(r) \/ RefreshLocked(r) \/ RefreshGet(r)) /\ ~Fail(r)
  BY <1>1, <1>2, <1>6
  DEF LoginSelect, DetailsSelect, RefreshLocked, RefreshGet, RedisError, DbError,
      Route, Left
<1>7. CASE Begin(r) \/ Update(r) \/ Commit(r) \/ CommitFails(r)
  BY <1>1, <1>2, <1>7 DEF Begin, Update, Commit, CommitFails, Route, Left
<1>8. CASE Del(r) \/ Create(r)
  BY <1>1, <1>2, <1>8 DEF Del, Create, Route, Left
<1>9. CASE Reply(r) \/ Crash(r)
  <2>1. Left(r)' = 0
    BY <1>1, <1>9 DEF Reply, Crash, Finish, Left
  <2>2. Left(r) \in 1..8
    BY <1>2 DEF Left, Route
  <2> QED
    BY <2>1, <2>2
<1> QED
  BY <1>4, <1>5, <1>6, <1>7, <1>8, <1>9
  DEF Works, Step, WaitFails, DelFails, CreateFails, RedisError, DbError

\* A handler makes at most eight calls and cannot run in circles: with
\* NoDeadlock, the requests in flight only fail to finish if Redis goes on
\* losing answers or the scheduler forgets a goroutine.
THEOREM HandlersAreFinite ==
  Spec => RequestsAdvance /\ [](\A r \in Req : Left(r) \in 0..8)
<1>1. Init => TypeInv /\ TxInv
  BY InitType, InitTx
<1>2. TypeInv /\ TxInv /\ [Next]_vars => (TypeInv /\ TxInv)'
  BY TypeStep, TxNext
<1>3. TypeInv /\ TxInv /\ [Next]_vars
      => [\A r \in Req : Works(r) => Resend(r) \/ Left(r)' < Left(r)]_vars
  BY AdvanceStep DEF TxInv
<1>4. TypeInv => \A r \in Req : Left(r) \in 0..8
  BY DEF TypeInv, TypeOK, PCs, Left
<1> QED
  BY <1>1, <1>2, <1>3, <1>4, PTL DEF Spec, RequestsAdvance

-----------------------------------------------------------------------------
(* KeyLifetime *)

\* Between its minting and its SETNX a token does not come from the future.
LifeInv ==
    /\ \A r \in Req : pc[r] = "setnx" => job[r].mint <= now
    /\ KeyLifetime

LEMMA SetNXLife ==
  ASSUME TypeInv, LifeInv, NEW u \in User, NEW t \in Token, t <= now, SetNX(u, t)
  PROVE  \A v \in User : store'[v] # NoTok =>
            store'[v] + RefreshTTL <= expire'[v] /\ expire'[v] <= now + RefreshTTL
<1>1. /\ now \in Nat /\ RefreshTTL \in Nat /\ t \in Int
      /\ store \in [User -> Token] /\ expire \in [User -> Nat]
  BY SessionAssumption DEF TypeInv, TypeOK, Token, Time, NoTok
<1>2. CASE UNCHANGED <<store, expire>>
  BY <1>2 DEF LifeInv, KeyLifetime
<1>3. CASE /\ store' = [store EXCEPT ![u] = t]
           /\ expire' = [expire EXCEPT ![u] = now + RefreshTTL]
  BY <1>1, <1>3 DEF LifeInv, KeyLifetime
<1> QED
  BY <1>2, <1>3 DEF SetNX

\* The keys after a step of r: deleted, made, or left as they were.
LEMMA WorksKeys ==
  ASSUME TypeInv, NEW r \in Req, Works(r)
  PROVE  /\ now' = now
         /\ \/ UNCHANGED <<store, expire>>
            \/ DelKey(Me(r)) /\ UNCHANGED expire
            \/ pc[r] = "setnx" /\ SetNX(Me(r), job[r].mint)
BY DEF Works, Step, Gate, Role, LoginSelect, DetailsSelect, Check, RefreshLocked,
   RefreshGet, WaitFails, SAdd, Begin, Update, Commit, CommitFails, Del, DelFails,
   Create, CreateFails, Reply, Resend, Crash, redis

LEMMA KeyLifeStep ==
  ASSUME TypeInv, LifeInv, NEW r \in Req, Works(r)
  PROVE  KeyLifetime'
<1>1. Me(r) \in User /\ job[r].mint \in Token
  BY Frame DEF TypeInv, TypeOK, Busy, Job
<1>2. CASE UNCHANGED <<store, expire, now>>
  BY <1>2 DEF LifeInv, KeyLifetime
<1>3. CASE DelKey(Me(r)) /\ UNCHANGED <<expire, now>>
  BY <1>1, <1>3 DEF DelKey, LifeInv, KeyLifetime, TypeInv, TypeOK
<1>4. CASE pc[r] = "setnx" /\ SetNX(Me(r), job[r].mint) /\ now' = now
  BY <1>1, <1>4, SetNXLife DEF LifeInv, KeyLifetime
<1> QED
  BY <1>2, <1>3, <1>4, WorksKeys

\* What arrives at SETNX was minted at the step before or has waited there.
LEMMA MintStep ==
  ASSUME TypeInv, NEW r \in Req, Works(r), pc'[r] = "setnx"
  PROVE  job'[r].mint = now \/ (pc[r] = "setnx" /\ job'[r] = job[r])
<1>1. pc \in [Req -> PCs] /\ job \in [Req -> Job] /\ job[r] \in Job
  BY DEF TypeInv, TypeOK
<1>2. CASE Update(r)
  <2>1. [job[r] EXCEPT !.mint = now, !.acc = now].mint = now
    BY <1>1 DEF Job
  <2> QED
    BY <1>1, <1>2, <2>1 DEF Update, Goto
<1>3. CASE Del(r)
  BY <1>1, <1>3 DEF Del, Goto, Job
<1>4. CASE Resend(r)
  BY <1>4 DEF Resend
<1>5. CASE ~Update(r) /\ ~Del(r) /\ ~Resend(r)
  BY <1>1, <1>5
  DEF Works, Step, Gate, Role, LoginSelect, DetailsSelect, Check, RefreshLocked,
      RefreshGet, WaitFails, SAdd, Begin, Commit, CommitFails, DelFails, Create,
      CreateFails, Reply, Crash, Finish, RedisError, DbError, Fail, Goto
<1> QED
  BY <1>2, <1>3, <1>4, <1>5

LEMMA LifeNext == TypeInv /\ LifeInv /\ [Next]_vars => LifeInv'
<1> SUFFICES ASSUME TypeInv, LifeInv, [Next]_vars PROVE LifeInv'
  OBVIOUS
<1>0. now \in Nat /\ RefreshTTL \in Nat /\ job \in [Req -> Job] /\ expire \in [User -> Nat]
  BY SessionAssumption DEF TypeInv, TypeOK, Time
<1>1. ASSUME NEW r \in Req, Arrive(r) PROVE LifeInv'
  <2>1. PICK o \in OpNames, v \in User, t \in Token, n \in Nat, l \in PCs \ {"idle"} :
            /\ Start(r, o, v, t, n, l)
            /\ CASE o = "login" -> l = "begin"
                 [] o = "refresh" -> l \in {"sismember", "error"}
                 [] OTHER -> l \in {"gate", "error"}
    BY <1>1, ArriveFrame
  <2>2. \A q \in Req \ {r} : pc'[q] = pc[q] /\ job'[q] = job[q]
    BY <2>1 DEF TypeInv, TypeOK, Start, Goto
  <2>3. pc'[r] = l /\ l # "setnx"
    BY <2>1 DEF TypeInv, TypeOK, Start, Goto
  <2>4. UNCHANGED <<store, expire, now>>
    BY <2>1 DEF Start, redis
  <2> QED
    BY <2>2, <2>3, <2>4 DEF LifeInv, KeyLifetime
<1>2. ASSUME NEW r \in Req, Works(r) PROVE LifeInv'
  <2>1. now' = now
    BY <1>2, WorksKeys
  <2>2. \A q \in Req : pc'[q] = "setnx" => job'[q].mint <= now'
    BY <1>0, <1>2, <2>1, Frame, MintStep DEF LifeInv
  <2> QED
    BY <1>2, <2>2, KeyLifeStep DEF LifeInv
<1>3. CASE Elapse
  <2>1. now' = now + 1 /\ UNCHANGED <<store, expire, pc, job>>
    BY <1>3 DEF Elapse, redis
  <2>2. \A q \in Req : job[q].mint \in Int
    BY <1>0, SessionAssumption DEF Job, Token, Time, NoTok
  <2> QED
    BY <1>0, <2>1, <2>2 DEF LifeInv, KeyLifetime
<1>4. CASE UNCHANGED vars
  <2>1. UNCHANGED <<store, expire, pc, job, now>>
    BY <1>4 DEF vars, redis
  <2> QED
    BY <2>1 DEF LifeInv, KeyLifetime
<1> QED
  BY <1>1, <1>2, <1>3, <1>4 DEF Next, Works

\* However long a login waits for its row and however often SETNX is repeated,
\* the key lives at least as long as the token in it, and no key lives longer
\* than one refresh lifetime from now.
THEOREM KeysLiveAsTokens == Spec => []KeyLifetime
<1>1. Init => TypeInv /\ LifeInv
  BY InitType DEF Init, LifeInv, KeyLifetime
<1>2. TypeInv /\ LifeInv /\ [Next]_vars => (TypeInv /\ LifeInv)'
  BY TypeStep, LifeNext
<1>3. LifeInv => KeyLifetime
  BY DEF LifeInv
<1> QED
  BY <1>1, <1>2, <1>3, PTL DEF Spec

\* What is true of user.go:31, "1 when logged in": an account recorded online,
\* with no fault and no request in flight, can be refreshed until the token
\* that is stored for it expires by its own date; a client has that token and
\* Redis accepts it.
OnlineUntilExpiry ==
    \A u \in User \ hurt :
        status[u] = 1 /\ Quiet(u) /\ now < store[u] + RefreshTTL
            => Live(u) /\ store[u] \in heldR[u]

\* The key never dies before its token: MCStatusOutlives, where the account is
\* online and nothing works any more, needs the token itself to be too old.
THEOREM OnlineWorksUntilExpiry == Spec => []OnlineUntilExpiry
<1>1. TypeOK /\ OnlineIsReachable /\ KeyLifetime => OnlineUntilExpiry
  <2> SUFFICES ASSUME TypeOK, OnlineIsReachable, KeyLifetime, NEW u \in User \ hurt,
                      status[u] = 1, Quiet(u), now < store[u] + RefreshTTL
               PROVE  Live(u) /\ store[u] \in heldR[u]
    BY DEF OnlineUntilExpiry
  <2>1. store[u] \in heldR[u]
    BY DEF OnlineIsReachable
  <2>2. store[u] \in Time
    BY <2>1 DEF TypeOK
  <2>3. store[u] # NoTok /\ now \in Int /\ store[u] + RefreshTTL \in Int /\ expire[u] \in Int
    BY <2>2, SessionAssumption DEF TypeOK, Time, NoTok
  <2>4. store[u] + RefreshTTL <= expire[u]
    BY <2>3 DEF KeyLifetime
  <2> QED
    BY <2>1, <2>3, <2>4 DEF Live
<1> QED
  BY <1>1, TypeCorrect, OnlineReachable, KeysLiveAsTokens, PTL

-----------------------------------------------------------------------------
(* TokensDoNotReturn *)

\* The refresh tokens of u that a client has, or that are in the headers of a
\* response to come.
Known(u) == heldR[u] \cup {job[q].ref : q \in {p \in Req : Me(p) = u}}

\* Nothing known of u is younger than what r is about to store.
Youngest(r, u) == \A t \in Known(u) : t <= job[r].mint

\* A login holds the row between minting and SETNX, and a rotation that is
\* alone has nobody beside it.
OrderInv ==
    /\ \A u \in User : \A t \in Known(u) : t <= now
    /\ \A u \in User, r \in Req :
          /\ Me(r) = u /\ u \notin crossed
          /\ pc[r] = "setnx"
          /\ Op(r) = "login" \/ r \in solo
          => Youngest(r, u)

\* A token becomes known by SETNX only, whatever its result.
LEMMA KnownStep ==
  ASSUME TypeInv, NEW r \in Req, Works(r), NEW u \in User, NEW t \in Known(u)'
  PROVE  \/ t \in Known(u)
         \/ Create(r) /\ Me(r) = u /\ t = job[r].mint
<1>0. /\ pc \in [Req -> PCs] /\ job \in [Req -> Job] /\ job[r] \in Job
      /\ heldR \in [User -> SUBSET Time] /\ u # None /\ NoJob.user = None
  BY SessionAssumption DEF TypeInv, TypeOK, NoJob
<1>1. /\ \A q \in Req \ {r} : job'[q] = job[q]
      /\ Me(r)' = None \/ Me(r)' = Me(r)
  BY <1>0, Frame DEF Me
<1>2. heldR'[u] \subseteq Known(u)
  <2>1. CASE Reply(r)
    BY <1>0, <2>1 DEF Reply, Known
  <2>2. CASE ~Reply(r)
    <3>1. heldR' = heldR
      BY <2>2 DEF Works, Step, Gate, Role, LoginSelect, DetailsSelect, Check,
         RefreshLocked, RefreshGet, WaitFails, SAdd, Begin, Update, Commit, CommitFails,
         Del, DelFails, Create, CreateFails, Resend, Crash, client
    <3> QED
      BY <3>1 DEF Known
  <2> QED
    BY <2>1, <2>2
<1>3. CASE t \in heldR'[u]
  BY <1>2, <1>3
<1>4. CASE \E q \in Req : Me(q)' = u /\ t = job'[q].ref
  <2> PICK q \in Req : Me(q)' = u /\ t = job'[q].ref
    BY <1>4
  <2>1. CASE q # r
    BY <1>1, <2>1 DEF Known, Me
  <2>2. CASE q = r
    <3>1. Me(r) = u
      BY <1>0, <1>1, <2>2
    <3>2. CASE Create(r)
      <4>1. /\ [job[r] EXCEPT !.ref = job[r].mint, !.acc = now].ref = job[r].mint
            /\ [job[r] EXCEPT !.ref = job[r].mint].ref = job[r].mint
        BY <1>0 DEF Job
      <4> QED
        BY <1>0, <2>2, <3>1, <3>2, <4>1 DEF Create
    <3>3. CASE ~Create(r)
      <4>1. \/ job'[r] = job[r]
            \/ job'[r] = [job[r] EXCEPT !.acc = now]
            \/ job'[r] = [job[r] EXCEPT !.mint = now]
            \/ job'[r] = [job[r] EXCEPT !.mint = now, !.acc = now]
            \/ job'[r] = NoJob
        BY <1>0, <3>3 DEF Works, Step, Gate, Role, LoginSelect, DetailsSelect, Check,
           RefreshLocked, RefreshGet, WaitFails, SAdd, Begin, Update, Commit, CommitFails,
           Del, DelFails, CreateFails, Reply, Resend, Crash, Finish
      <4>2. job'[r] # NoJob
        BY <1>0, <2>2 DEF Me
      <4>3. job'[r].ref = job[r].ref
        BY <1>0, <4>1, <4>2 DEF Job
      <4> QED
        BY <2>2, <3>1, <4>3 DEF Known
    <3> QED
      BY <3>2, <3>3
  <2> QED
    BY <2>1, <2>2
<1> QED
  BY <1>3, <1>4 DEF Known, Me

\* A request that has just arrived makes nothing known.
LEMMA KnownArrive ==
  ASSUME TypeInv, NEW r \in Req, Arrive(r), NEW u \in User, NEW t \in Known(u)'
  PROVE  t \in Known(u) \/ t = NoTok
<1>1. PICK o \in OpNames, v \in User, k \in Token, n \in Nat, l \in PCs \ {"idle"} :
          Start(r, o, v, k, n, l)
  BY ArriveFrame
<1>2. /\ heldR' = heldR
      /\ \A q \in Req \ {r} : job'[q] = job[q]
      /\ job'[r].ref = NoTok
  BY <1>1 DEF Start, TypeInv, TypeOK, client, NoJob
<1> QED
  BY <1>2 DEF Known, Me

\* Who stores for an account in no crossing rotation: a login or a rotation
\* that is alone.
LEMMA OrderStep ==
  ASSUME TypeInv, TxInv, LifeInv, Alone, OrderInv, NEW r \in Req, Works(r)
  PROVE  OrderInv'
<1>0. /\ now \in Nat /\ now' = now /\ job \in [Req -> Job]
      /\ pc \in [Req -> PCs] /\ solo' \subseteq solo /\ crossed \subseteq crossed'
  BY WorksKeys, AloneStep, ScopeShrinks, SessionAssumption DEF TypeInv, TypeOK, Time
<1>1. ASSUME NEW u \in User, NEW t \in Known(u)' PROVE t <= now'
  <2>1. CASE t \in Known(u)
    BY <1>0, <2>1 DEF OrderInv
  <2>2. CASE Create(r) /\ t = job[r].mint
    BY <1>0, <2>2 DEF Create, LifeInv
  <2> QED
    BY <1>1, <2>1, <2>2, KnownStep
<1>2. ASSUME NEW u \in User, NEW q \in Req, pc'[q] = "setnx",
             Op(q)' = "login" \/ q \in solo',
             Me(q)' = u, u \notin crossed', NEW t \in Known(u)'
      PROVE  t <= job'[q].mint
  <2>0. Me(q)' \in User /\ pc'[q] # "idle"
    BY <1>2, TypeStep DEF TypeInv, Busy, Next, Works, Me
  <2>1. Me(q) = Me(q)' /\ Op(q) = Op(q)' /\ Me(q) \in User
    BY <1>2, <2>0, Frame, SessionAssumption DEF Me, Op, NoJob
  <2>2. CASE q = r
    <3>1. CASE job'[r].mint = now
      BY <1>0, <1>1, <2>0, <2>2, <3>1
    <3>2. CASE pc[r] = "setnx" /\ job'[r] = job[r]
      <4>1. ~Create(r)
        BY <1>0, <1>2, <2>2 DEF Create, Goto
      <4>2. t \in Known(Me(q))
        BY <1>2, <2>0, <2>1, <4>1, KnownStep
      <4> QED
        BY <1>0, <1>2, <2>1, <2>2, <3>2, <4>2 DEF OrderInv, Youngest
    <3> QED
      BY <1>2, <2>2, <3>1, <3>2, MintStep
  <2>3. CASE q # r
    <3>1. pc[q] = "setnx" /\ job'[q] = job[q]
      BY <1>2, <2>3, Frame
    <3>2. Youngest(q, u)
      BY <1>0, <1>2, <2>1, <3>1 DEF OrderInv
    <3>3. ~(Create(r) /\ Me(r) = Me(q))
      <4>1. SUFFICES ASSUME Create(r), Me(r) = Me(q) PROVE FALSE
        OBVIOUS
      <4>2. q \notin solo /\ r \notin solo
        BY <2>3, <4>1 DEF Alone
      <4>3. Op(q) = "login"
        BY <1>0, <1>2, <2>1, <4>2
      <4>4. Op(r) \in {"login", "refresh"} /\ pc[r] = "setnx"
        BY <4>1 DEF Create, TxInv, Flow, Route
      <4>5. Op(r) # "login"
        BY <2>1, <2>3, <3>1, <4>1, <4>3, <4>4 DEF HasRow, TxInv, TxDiscipline
      <4>6. Me(r) \in crossed'
        BY <4>1, <4>2, <4>4, <4>5 DEF Create
      <4> QED
        BY <1>2, <2>1, <4>1, <4>6
    <3>4. t \in Known(u)
      BY <1>2, <2>0, <2>1, <3>3, KnownStep
    <3> QED
      BY <3>1, <3>2, <3>4 DEF Youngest
  <2> QED
    BY <2>2, <2>3
<1> QED
  BY <1>1, <1>2 DEF OrderInv, Youngest

LEMMA OrderNext ==
  TypeInv /\ TxInv /\ LifeInv /\ Alone /\ OrderInv /\ [Next]_vars => OrderInv'
<1> SUFFICES ASSUME TypeInv, TxInv, LifeInv, Alone, OrderInv, [Next]_vars
             PROVE  OrderInv'
  OBVIOUS
<1>0. now \in Nat /\ job \in [Req -> Job] /\ heldR \in [User -> SUBSET Time] /\ NoTok <= now
  BY SessionAssumption DEF TypeInv, TypeOK, Time, NoTok
<1>1. ASSUME NEW r \in Req, Arrive(r) PROVE OrderInv'
  <2>1. PICK o \in OpNames, v \in User, k \in Token, n \in Nat, l \in PCs \ {"idle"} :
            /\ Start(r, o, v, k, n, l)
            /\ CASE o = "login" -> l = "begin"
                 [] o = "refresh" -> l \in {"sismember", "error"}
                 [] OTHER -> l \in {"gate", "error"}
    BY <1>1, ArriveFrame
  <2>2. \A q \in Req \ {r} : pc'[q] = pc[q] /\ job'[q] = job[q]
    BY <2>1 DEF TypeInv, TypeOK, Start, Goto
  <2>3. pc'[r] # "setnx" /\ UNCHANGED <<now, crossed>> /\ solo' \subseteq solo \cup {r}
    BY <2>1 DEF TypeInv, TypeOK, Start, Goto
  <2>4. ASSUME NEW u \in User, NEW q \in Req, pc'[q] = "setnx",
               Op(q)' = "login" \/ q \in solo',
               Me(q)' = u, u \notin crossed', NEW t \in Known(u)'
        PROVE  t <= job'[q].mint
    <3>1. q # r /\ pc[q] = "setnx" /\ job'[q] = job[q]
      BY <2>2, <2>3, <2>4
    <3>2. Me(q)' = Me(q) /\ Op(q)' = Op(q) /\ Me(q) \in User
      BY <3>1 DEF Me, Op, TypeInv, Busy
    <3>3. Youngest(q, u)
      BY <2>3, <2>4, <3>1, <3>2 DEF OrderInv
    <3>4. t \in Known(u) \/ t = NoTok
      BY <1>1, <2>4, <3>2, KnownArrive
    <3>5. NoTok <= job[q].mint
      BY <1>0, SessionAssumption DEF Job, Token, Time, NoTok
    <3> QED
      BY <3>1, <3>3, <3>4, <3>5 DEF Youngest
  <2>5. \A u \in User : \A t \in Known(u)' : t <= now'
    BY <1>0, <1>1, <2>3, KnownArrive DEF OrderInv
  <2> QED
    BY <2>4, <2>5 DEF OrderInv, Youngest
<1>2. ASSUME NEW r \in Req, Works(r) PROVE OrderInv'
  BY <1>2, OrderStep
<1>3. CASE Elapse
  <2>1. now' = now + 1 /\ UNCHANGED <<pc, job, heldR, solo, crossed>>
    BY <1>3 DEF Elapse, client, aux
  <2>2. \A u \in User : \A t \in Known(u) : t \in Int
    BY <1>0, SessionAssumption DEF Known, Job, Token, Time, NoTok
  <2> QED
    BY <1>0, <2>1, <2>2 DEF OrderInv, Youngest, Known, Me, Op
<1>4. CASE UNCHANGED vars
  BY <1>4 DEF vars, client, aux, OrderInv, Youngest, Known, Me, Op
<1> QED
  BY <1>1, <1>2, <1>3, <1>4 DEF Next, Works

\* A token is stored by a SETNX, the first or a resent one.
LEMMA StoresMint ==
  ASSUME TypeInv, Flow, [Next]_vars, NEW u \in User, store'[u] \notin {store[u], NoTok}
  PROVE  \E r \in Req : /\ Me(r) = u /\ pc[r] = "setnx" /\ store'[u] = job[r].mint
                        /\ Op(r) \in {"login", "refresh"}
<1>1. ~\E r \in Req : Arrive(r)
  BY ArriveFrame DEF Start, redis
<1>2. ~(Elapse \/ UNCHANGED vars)
  BY DEF Elapse, vars, redis
<1>3. PICK r \in Req : Works(r)
  BY <1>1, <1>2 DEF Next, Works
<1>4. Me(r) = u
  BY <1>3, OtherAccount
<1>5. pc[r] = "setnx" /\ SetNX(u, job[r].mint)
  BY <1>3, <1>4 DEF Works, Step, Gate, Role, LoginSelect, DetailsSelect, Check,
     RefreshLocked, RefreshGet, WaitFails, SAdd, Begin, Update, Commit, CommitFails,
     Del, DelFails, DelKey, Create, CreateFails, Reply, Resend, Crash, redis, TypeInv, TypeOK
<1>6. store'[u] = job[r].mint
  BY <1>5 DEF SetNX, TypeInv, TypeOK
<1>7. Op(r) \in {"login", "refresh"}
  BY <1>5 DEF Flow, Route
<1> QED
  BY <1>4, <1>5, <1>6, <1>7

\* No request, and no repetition of a command by go-redis, puts a token back
\* that is older than one the account was handed since: a superseded refresh
\* token stays so beyond its second, as long as no rotation crosses another
\* request of the account.
THEOREM OldTokensStayOut == Spec => TokensDoNotReturn
<1>1. Init => TypeInv /\ TxInv /\ ReachInv /\ OffInv /\ LifeInv /\ OrderInv
  <2>1. Init => LifeInv
    BY DEF Init, LifeInv, KeyLifetime
  <2>2. Init => OrderInv
    <3> SUFFICES ASSUME Init PROVE OrderInv
      OBVIOUS
    <3>1. \A u \in User : Known(u) = {}
      BY SessionAssumption DEF Init, Known, Me, NoJob
    <3> QED
      BY <3>1 DEF Init, OrderInv
  <2> QED
    BY <2>1, <2>2, InitType, InitTx, InitReach, InitOff
<1>2. TypeInv /\ TxInv /\ ReachInv /\ OffInv /\ LifeInv /\ OrderInv /\ [Next]_vars
      => (TypeInv /\ TxInv /\ ReachInv /\ OffInv /\ LifeInv /\ OrderInv)'
  BY TypeStep, TxNext, ReachNext, OffNext, LifeNext, OrderNext DEF OffInv
<1>3. TypeInv /\ TxInv /\ OrderInv /\ [Next]_vars
      => [\A u \in User :
             ~Crossing(u) /\ store'[u] \notin {store[u], NoTok} =>
                 \A t \in heldR[u] : t <= store'[u]]_vars
  <2> SUFFICES ASSUME TypeInv, TxInv, OrderInv, [Next]_vars, NEW u \in User,
                      ~Crossing(u), store'[u] \notin {store[u], NoTok}, NEW t \in heldR[u]
               PROVE  t <= store'[u]
    OBVIOUS
  <2>1. PICK r \in Req : /\ Me(r) = u /\ pc[r] = "setnx" /\ store'[u] = job[r].mint
                         /\ Op(r) \in {"login", "refresh"}
    BY StoresMint DEF TxInv
  <2>2. Op(r) = "login" \/ r \in solo
    BY <2>1 DEF Crossing
  <2>3. Youngest(r, u)
    BY <2>1, <2>2 DEF Crossing, OrderInv
  <2> QED
    BY <2>1, <2>3 DEF Youngest, Known
<1> QED
  BY <1>1, <1>2, <1>3, PTL DEF Spec, TokensDoNotReturn

-----------------------------------------------------------------------------
(* The blacklist *)

\* Only SADD writes the blacklist, and nothing takes an account off it.
LEMMA BlacklistMoves ==
  ASSUME TypeInv, [Next]_vars
  PROVE  /\ blacklist \subseteq blacklist'
         /\ blacklist' # blacklist => \E r \in Req : SAdd(r)
<1>1. ASSUME NEW r \in Req, Arrive(r) PROVE blacklist' = blacklist
  BY <1>1, ArriveFrame DEF Start, redis
<1>2. ASSUME NEW r \in Req, Works(r), ~SAdd(r) PROVE blacklist' = blacklist
  BY <1>2 DEF Works, Step, Gate, Role, LoginSelect, DetailsSelect, Check, RefreshLocked,
     RefreshGet, WaitFails, Begin, Update, Commit, CommitFails, Del, DelFails, Create,
     CreateFails, Reply, Resend, Crash, redis
<1>3. ASSUME NEW r \in Req, SAdd(r) PROVE blacklist \subseteq blacklist'
  BY <1>3 DEF SAdd
<1>4. CASE Elapse \/ UNCHANGED vars
  BY <1>4 DEF Elapse, vars, redis
<1> QED
  BY <1>1, <1>2, <1>3, <1>4 DEF Next, Works

\* A working request of a locked account that is not admitted leaves.
LEMMA LockedWorks ==
  ASSUME TypeInv, Flow, NEW r \in Req, Works(r), Me(r) \in blacklist, ~Admitted(r)
  PROVE  ~Admitted(r)'
<1>1. /\ pc[r] # "idle" /\ pc[r] \in Route(Op(r))
      /\ \/ Op(r)' = "none"
         \/ Op(r)' = Op(r)
  BY Frame DEF Flow, Op, NoJob
<1>2. CASE Op(r) = "login"
  BY <1>1, <1>2 DEF Admitted
<1>3. CASE pc[r] \in {"gate", "sismember"}
  <2>1. pc'[r] \in {"error", "idle"}
    BY <1>3 DEF Works, Step, Gate, Role, LoginSelect, DetailsSelect, Check, RefreshLocked,
       RefreshGet, WaitFails, SAdd, Begin, Update, Commit, CommitFails, Del, DelFails,
       Create, CreateFails, Reply, Resend, Crash, Finish, RedisError, Fail, Goto,
       Locked, TypeInv, TypeOK
  <2>2. pc'[r] = "idle" => Op(r)' = "none"
    BY Frame DEF Op, NoJob
  <2> QED
    BY <2>1, <2>2 DEF Admitted
<1>4. CASE pc[r] \in {"reply", "error"}
  <2>1. Finish(r)
    BY <1>4 DEF Works, Step, Gate, Role, LoginSelect, DetailsSelect, Check, RefreshLocked,
       RefreshGet, WaitFails, SAdd, Begin, Update, Commit, CommitFails, Del, DelFails,
       Create, CreateFails, Reply, Resend, Crash
  <2>2. Op(r)' = "none"
    BY <2>1 DEF Finish, Op, NoJob, TypeInv, TypeOK
  <2> QED
    BY <2>2 DEF Admitted
<1>5. Op(r) # "none"
  BY <1>1 DEF Route
<1> QED
  BY <1>2, <1>3, <1>4, <1>5 DEF Admitted

LEMMA StayOutStep ==
  ASSUME TypeInv, Flow, [Next]_vars, NEW q \in Req, Me(q) \in blacklist, ~Admitted(q)
  PROVE  ~Admitted(q)'
<1>1. ASSUME NEW r \in Req, Arrive(r) PROVE ~Admitted(q)'
  <2>1. PICK o \in OpNames, v \in User, t \in Token, n \in Nat, l \in PCs \ {"idle"} :
            /\ Start(r, o, v, t, n, l)
            /\ CASE o = "login" -> l = "begin"
                 [] o = "refresh" -> l \in {"sismember", "error"}
                 [] OTHER -> l \in {"gate", "error"}
    BY <1>1, ArriveFrame
  <2>2. \A p \in Req \ {r} : pc'[p] = pc[p] /\ job'[p] = job[p]
    BY <2>1 DEF TypeInv, TypeOK, Start, Goto
  <2>3. pc'[r] = l /\ Op(r)' = o
    BY <2>1 DEF TypeInv, TypeOK, Start, Goto, Op, NoJob
  <2> QED
    BY <2>1, <2>2, <2>3 DEF Admitted, Op
<1>2. ASSUME NEW r \in Req, Works(r) PROVE ~Admitted(q)'
  BY <1>2, LockedWorks, Frame DEF Admitted, Op
<1>3. CASE Elapse \/ UNCHANGED vars
  BY <1>3 DEF Elapse, vars, Admitted, Op
<1> QED
  BY <1>1, <1>2, <1>3 DEF Next, Works

\* Tick cannot be undone, and from then on the middleware and the blacklist
\* check of RefreshTokenHandler let no request of the account pass: only those
\* admitted before it go on, each of them for a bounded number of calls.
THEOREM LockedStaysOut == Spec => LockedStayOut
<1>1. Init => TypeInv /\ TxInv
  BY InitType, InitTx
<1>2. TypeInv /\ TxInv /\ [Next]_vars => (TypeInv /\ TxInv)'
  BY TypeStep, TxNext
<1>3. TypeInv /\ TxInv /\ [Next]_vars
      => [/\ blacklist \subseteq blacklist'
          /\ \A r \in Req :
                Me(r) \in blacklist /\ ~Admitted(r) => ~Admitted(r)']_vars
  BY BlacklistMoves, StayOutStep DEF TxInv
<1> QED
  BY <1>1, <1>2, <1>3, PTL DEF Spec, LockedStayOut

\* CheckRole lets administrators pass only, and to SADD there is no other way.
RoleInv == \A r \in Req : pc[r] = "sadd" => Op(r) = "tick" /\ Me(r) \in Admin

LEMMA RoleNext == TypeInv /\ Flow /\ RoleInv /\ [Next]_vars => RoleInv'
<1> SUFFICES ASSUME TypeInv, Flow, RoleInv, [Next]_vars PROVE RoleInv'
  OBVIOUS
<1>1. ASSUME NEW r \in Req, Arrive(r) PROVE RoleInv'
  <2>1. PICK o \in OpNames, v \in User, t \in Token, n \in Nat, l \in PCs \ {"idle"} :
            /\ Start(r, o, v, t, n, l)
            /\ CASE o = "login" -> l = "begin"
                 [] o = "refresh" -> l \in {"sismember", "error"}
                 [] OTHER -> l \in {"gate", "error"}
    BY <1>1, ArriveFrame
  <2>2. /\ \A p \in Req \ {r} : pc'[p] = pc[p] /\ job'[p] = job[p]
        /\ pc'[r] = l /\ l # "sadd"
    BY <2>1 DEF TypeInv, TypeOK, Start, Goto
  <2> QED
    BY <2>2 DEF RoleInv, Op, Me
<1>2. ASSUME NEW r \in Req, Works(r) PROVE RoleInv'
  <2>1. pc'[r] = "sadd" => Role(r) /\ Me(r) \in Admin
    BY <1>2 DEF Works, Step, Gate, Role, LoginSelect, DetailsSelect, Check, RefreshLocked,
       RefreshGet, WaitFails, SAdd, Begin, Update, Commit, CommitFails, Del, DelFails,
       Create, CreateFails, Reply, Resend, Crash, Finish, RedisError, DbError, Fail,
       Goto, TypeInv, TypeOK
  <2>2. Role(r) => Op(r) = "tick"
    BY DEF Role, Flow, Route
  <2>3. pc'[r] = "sadd" => Op(r)' = Op(r) /\ Me(r)' = Me(r)
    BY <1>2, Frame DEF Op, Me
  <2> QED
    BY <1>2, <2>1, <2>2, <2>3, Frame DEF RoleInv, Op, Me
<1>3. CASE Elapse \/ UNCHANGED vars
  BY <1>3 DEF Elapse, vars, RoleInv, Op, Me
<1> QED
  BY <1>1, <1>2, <1>3 DEF Next, Works

\* An account comes onto the blacklist only by the SADD of an administrator's
\* request.
OnlyAdminsLock ==
    [][\A u \in blacklist' \ blacklist :
          \E r \in Req : Op(r) = "tick" /\ pc[r] = "sadd" /\ Me(r) \in Admin]_vars

\* Whatever fails on the way and whichever accounts are administrators, nobody
\* else locks an account.
THEOREM AdminsLock == Spec => OnlyAdminsLock
<1>1. Init => TypeInv /\ TxInv /\ RoleInv
  BY InitType, InitTx DEF Init, RoleInv
<1>2. TypeInv /\ TxInv /\ RoleInv /\ [Next]_vars => (TypeInv /\ TxInv /\ RoleInv)'
  BY TypeStep, TxNext, RoleNext DEF TxInv
<1>3. TypeInv /\ TxInv /\ RoleInv /\ [Next]_vars
      => [\A u \in blacklist' \ blacklist :
            \E r \in Req : Op(r) = "tick" /\ pc[r] = "sadd" /\ Me(r) \in Admin]_vars
  BY BlacklistMoves DEF SAdd, RoleInv
<1> QED
  BY <1>1, <1>2, <1>3, PTL DEF Spec, OnlyAdminsLock
=============================================================================
