------------------------- MODULE SessionSafetyProofs -------------------------
(***************************************************************************)
(* The two invariants that tie the users table to Redis, and what a        *)
(* request that is alone with its account has done, for every instance.    *)
(***************************************************************************)
EXTENDS SessionProofs

\* Some request of account u with operation o has reached point l.
At(u, o, l) == \E r \in Req : Op(r) = o /\ pc[r] = l /\ Me(r) = u

\* What reaches SETNX is a token.
Minted == \A r \in Req : pc[r] = "setnx" => job[r].mint # NoTok

\* An account online, or about to be, has a key, or a rotation that has
\* deleted it is about to write the next one.
HasKey(u) ==
    \/ status[u] = 1 /\ ~At(u, "logout", "commit")
    \/ At(u, "login", "commit")
    => store[u] # NoTok \/ At(u, "refresh", "setnx")

\* The stored token was delivered, or will be unless its request fails.
KeyIsKnown(u) ==
    store[u] # NoTok =>
        \/ store[u] \in heldR[u]
        \/ \E r \in Req : /\ pc[r] \in {"commit", "reply"}
                          /\ Me(r) = u
                          /\ job[r].ref = store[u]

ReachInv == Minted /\ \A u \in User \ hurt : HasKey(u) /\ KeyIsKnown(u)

-----------------------------------------------------------------------------
(* A request touches its own account only *)

LEMMA OtherAccount ==
  ASSUME TypeInv, NEW r \in Req, Works(r), NEW u \in User, u # Me(r)
  PROVE  /\ status'[u] = status[u]
         /\ store'[u] = store[u]
         /\ heldR'[u] = heldR[u]
         /\ u \in hurt' <=> u \in hurt
         /\ u \in crossed' <=> u \in crossed
         /\ \A q \in Req : /\ Me(q)' = u <=> Me(q) = u
                           /\ Me(q) = u => pc'[q] = pc[q] /\ job'[q] = job[q]
<1>1. \A q \in Req : /\ Me(q)' = u <=> Me(q) = u
                     /\ Me(q) = u => pc'[q] = pc[q] /\ job'[q] = job[q]
  BY Frame, SessionAssumption DEF Me, NoJob
<1>2. CASE Reads(r) \/ SAdd(r)
  BY <1>1, <1>2
  DEF Reads, Gate, Role, LoginSelect, DetailsSelect, Check, RefreshLocked,
      RefreshGet, WaitFails, SAdd, RedisError, DbError, Fail, db, redis, client, aux
<1>3. CASE Begin(r) \/ Update(r)
  BY <1>1, <1>3 DEF Begin, Update, redis, client, aux
<1>4. CASE Commit(r) \/ CommitFails(r)
  <2>1. status'[u] = status[u]
    BY <1>4 DEF Commit, CommitFails, Written, TypeInv, TypeOK
  <2> QED
    BY <1>1, <1>4, <2>1 DEF Commit, CommitFails, Hurt, redis, client, aux
<1>5. CASE Del(r) \/ DelFails(r)
  BY <1>1, <1>5
  DEF Del, DelFails, DelKey, RedisError, Fail, Hurt, db, client, aux, TypeInv, TypeOK
<1>6. CASE Create(r) \/ CreateFails(r)
  <2>1. store'[u] = store[u]
    BY <1>6 DEF Create, CreateFails, SetNX, TypeInv, TypeOK
  <2> QED
    BY <1>1, <1>6, <2>1 DEF Create, CreateFails, RedisError, Fail, Hurt, db, client
<1>7. CASE Reply(r)
  BY <1>1, <1>7 DEF Reply, Finish, db, redis, TypeInv, TypeOK
<1>8. CASE Crash(r)
  BY <1>1, <1>8 DEF Crash, Finish, Hurt, redis, client
<1>9. CASE Resend(r)
  <2>1. store'[u] = store[u]
    BY <1>9 DEF Resend, DelKey, SetNX, TypeInv, TypeOK
  <2> QED
    BY <1>1, <1>9, <2>1 DEF Resend, Hurt, db, client
<1> QED
  BY <1>2, <1>3, <1>4, <1>5, <1>6, <1>7, <1>8, <1>9 DEF Works, Step, Reads

\* How a step of r moves the requests of its own account.
LEMMA AtMoves ==
  ASSUME TypeInv, NEW r \in Req, Works(r), NEW u \in User, u = Me(r),
         NEW o \in OpNames, NEW l
  PROVE  /\ At(u, o, l) /\ ~(Op(r) = o /\ pc[r] = l) => At(u, o, l)'
         /\ At(u, o, l)' => At(u, o, l) \/ (Op(r) = o /\ pc'[r] = l)
         /\ Op(r) = o /\ pc'[r] = l /\ l # "idle" => At(u, o, l)'
<1>1. /\ \A q \in Req \ {r} : pc'[q] = pc[q] /\ Op(q)' = Op(q) /\ Me(q)' = Me(q)
      /\ \/ pc'[r] = "idle" /\ Op(r)' = "none" /\ Me(r)' = None
         \/ pc'[r] # "idle" /\ Op(r)' = Op(r) /\ Me(r)' = Me(r)
  BY Frame DEF Op, Me, NoJob
<1>2. u # None
  BY SessionAssumption
<1> QED
  BY <1>1, <1>2 DEF At

-----------------------------------------------------------------------------
(* OnlineIsReachable *)

LEMMA MintedStep ==
  ASSUME TypeInv, Minted, NEW r \in Req, Works(r)
  PROVE  Minted'
<1>1. \A q \in Req \ {r} : pc'[q] = pc[q] /\ job'[q] = job[q]
  BY Frame
<1>2. now # NoTok
  BY SessionAssumption DEF TypeInv, TypeOK, Time, NoTok
<1>3. job[r] \in Job /\ job \in [Req -> Job] /\ pc \in [Req -> PCs]
  BY DEF TypeInv, TypeOK
<1>4. pc'[r] = "setnx" => job'[r].mint # NoTok
  <2>1. CASE Update(r)
    <3>1. [job[r] EXCEPT !.mint = now, !.acc = now].mint = now
      BY <1>3 DEF Job
    <3> QED
      BY <1>2, <1>3, <2>1, <3>1 DEF Update, Goto
  <2>2. CASE Del(r)
    BY <1>2, <1>3, <2>2 DEF Del, Goto, Job
  <2>3. CASE Resend(r)
    BY <2>3 DEF Resend, Minted
  <2>4. CASE ~Update(r) /\ ~Del(r) /\ ~Resend(r)
    BY <1>3, <2>4
    DEF Works, Step, Gate, Role, LoginSelect, DetailsSelect, Check, RefreshLocked,
        RefreshGet, WaitFails, SAdd, Begin, Commit, CommitFails, DelFails, Create,
        CreateFails, Reply, Crash, Finish, RedisError, DbError, Fail, Goto
  <2> QED
    BY <2>1, <2>2, <2>3, <2>4
<1> QED
  BY <1>1, <1>4 DEF Minted

\* The account of a request that met a fault is out of the invariant's scope.
LEMMA FaultHurts ==
  ASSUME TypeInv, NEW r \in Req,
         CommitFails(r) \/ DelFails(r) \/ CreateFails(r) \/ Resend(r) \/ Crash(r)
  PROVE  Me(r) \in hurt'
BY DEF CommitFails, DelFails, CreateFails, Resend, Crash, Hurt

\* The steps that change neither the account's status nor its key, and that
\* neither reach nor leave the points HasKey and KeyIsKnown speak of.
Passes(r) == Reads(r) \/ SAdd(r) \/ Begin(r) \/ Update(r)

LEMMA PassMoves ==
  ASSUME TypeInv, Flow, NEW r \in Req, Passes(r)
  PROVE  /\ UNCHANGED <<status, store, expire, heldR, hurt, crossed, solo>>
         /\ pc[r] \notin {"setnx", "del", "commit", "reply"}
         /\ pc'[r] # "idle"
         /\ Op(r) = "login" => pc'[r] # "commit"
         /\ Op(r) = "logout" => pc'[r] # "commit"
         /\ Op(r) = "refresh" => pc'[r] # "setnx"
<1>1. pc \in [Req -> PCs] /\ pc[r] \in Route(Op(r))
  BY DEF TypeInv, TypeOK, Flow
<1>2. CASE Reads(r) \/ SAdd(r)
  BY <1>1, <1>2
  DEF Reads, Gate, Role, LoginSelect, DetailsSelect, Check, RefreshLocked,
      RefreshGet, WaitFails, SAdd, RedisError, DbError, Fail, Goto, redis,
      client, aux, db
<1>3. CASE Begin(r) \/ Update(r)
  BY <1>1, <1>3 DEF Begin, Update, Goto, Route, redis, client, aux
<1> QED
  BY <1>2, <1>3 DEF Passes

LEMMA HasKeyStep ==
  ASSUME TypeInv, TxInv, ReachInv, NEW r \in Req, Works(r),
         NEW u \in User, u \notin hurt', u = Me(r)
  PROVE  HasKey(u)'
<1>0. u \notin hurt /\ HasKey(u) /\ pc \in [Req -> PCs]
  BY DEF Works, Step, Reads, Gate, Role, LoginSelect, DetailsSelect, Check,
         RefreshLocked, RefreshGet, WaitFails, SAdd, Begin, Update, Commit,
         CommitFails, Del, DelFails, Create, CreateFails, Reply, Resend, Crash, Hurt, aux,
         ReachInv, TypeInv, TypeOK
<1>1. "login" \in OpNames /\ "logout" \in OpNames /\ "refresh" \in OpNames
  BY DEF OpNames
<1>2. CASE Passes(r)
  BY <1>0, <1>1, <1>2, AtMoves, PassMoves DEF HasKey, TxInv
<1>3. CASE Commit(r)
  <2>1. /\ pc[r] = "commit" /\ pc'[r] = "reply" /\ UNCHANGED store
        /\ Op(r) = "login" => At(u, "login", "commit")
        /\ Op(r) = "logout" => status'[u] = 0
        /\ Op(r) \notin {"login", "logout"} => status'[u] = status[u]
    BY <1>0, <1>3 DEF Commit, Goto, At, Written, redis, TypeInv, TypeOK
  <2> QED
    BY <1>0, <1>1, <2>1, AtMoves DEF HasKey
<1>4. CASE Del(r)
  <2>1. /\ pc[r] = "del" /\ UNCHANGED status
        /\ Op(r) = "refresh" => pc'[r] = "setnx"
        /\ Op(r) # "refresh" => pc'[r] = "commit"
    BY <1>0, <1>4 DEF Del, Goto, db
  <2>2. CASE Op(r) = "refresh"
    BY <1>1, <2>1, <2>2, AtMoves DEF HasKey
  <2>3. CASE Op(r) # "refresh"
    <3>1. Op(r) = "logout" /\ HasRow(r) /\ lock[u] = r
      BY <2>1, <2>3 DEF TxInv, Flow, Route, HasRow, TxDiscipline
    <3>2. ~At(u, "login", "commit")
      BY <2>1, <3>1 DEF At, HasRow, TxInv, TxDiscipline
    <3> QED
      BY <1>1, <2>1, <3>1, <3>2, AtMoves DEF HasKey
  <2> QED
    BY <2>2, <2>3
<1>5. CASE Create(r)
  <2>1. store'[u] # NoTok
    BY <1>5 DEF Create, SetNX, Live, ReachInv, Minted, TypeInv, TypeOK
  <2> QED
    BY <2>1 DEF HasKey
<1>6. CASE Reply(r)
  <2>1. /\ UNCHANGED <<status, store>> /\ pc'[r] = "idle"
        /\ pc[r] \notin {"setnx", "commit"}
    BY <1>0, <1>6 DEF Reply, Finish, Goto, db, redis
  <2> QED
    BY <1>0, <1>1, <2>1, AtMoves DEF HasKey
<1> QED
  BY <1>2, <1>3, <1>4, <1>5, <1>6, FaultHurts DEF Works, Step, Reads, Passes

LEMMA KeyIsKnownStep ==
  ASSUME TypeInv, TxInv, ReachInv, NEW r \in Req, Works(r),
         NEW u \in User, u \notin hurt', u = Me(r), u \notin hurt
  PROVE  KeyIsKnown(u)'
<1>0. /\ KeyIsKnown(u) /\ pc \in [Req -> PCs] /\ job \in [Req -> Job]
      /\ heldR \in [User -> SUBSET Time] /\ u # None
  BY SessionAssumption DEF ReachInv, TypeInv, TypeOK
<1>1. /\ \A q \in Req \ {r} : pc'[q] = pc[q] /\ job'[q] = job[q]
      /\ pc'[r] # "idle" => Me(r)' = u
  BY Frame DEF Me
<1>2. ASSUME store'[u] = store[u], heldR'[u] = heldR[u], pc[r] \notin {"commit", "reply"}
      PROVE  KeyIsKnown(u)'
  BY <1>0, <1>1, <1>2 DEF KeyIsKnown, Me
<1>3. CASE Passes(r)
  BY <1>2, <1>3, PassMoves DEF TxInv
<1>4. CASE Commit(r)
  <2>1. /\ UNCHANGED <<store, heldR, job>> /\ pc'[r] = "reply"
    BY <1>0, <1>4 DEF Commit, Goto, redis, client
  <2> QED
    BY <1>0, <1>1, <2>1 DEF KeyIsKnown, Me
<1>5. CASE Del(r)
  BY <1>5 DEF Del, DelKey, KeyIsKnown, TypeInv, TypeOK
<1>6. CASE Create(r)
  <2>1. heldR' = heldR /\ pc[r] = "setnx" /\ pc'[r] \in {"commit", "reply"}
    BY <1>0, <1>6 DEF Create, Goto, client
  <2>2. CASE store'[u] = store[u]
    BY <1>2, <2>1, <2>2
  <2>3. CASE store'[u] = job[r].mint
    <3>1. /\ [job[r] EXCEPT !.ref = job[r].mint, !.acc = now].ref = job[r].mint
          /\ [job[r] EXCEPT !.ref = job[r].mint].ref = job[r].mint
      BY <1>0 DEF Job
    <3>2. job'[r].ref = job[r].mint
      BY <1>0, <1>6, <3>1 DEF Create
    <3> QED
      BY <1>1, <2>1, <2>3, <3>2 DEF KeyIsKnown
  <2> QED
    BY <1>6, <2>2, <2>3 DEF Create, SetNX, TypeInv, TypeOK
<1>7. CASE Reply(r)
  <2>1. store' = store /\ heldR'[u] = heldR[u] \cup ({job[r].ref} \ {NoTok})
    BY <1>0, <1>7 DEF Reply, redis
  <2> QED
    BY <1>0, <1>1, <2>1 DEF KeyIsKnown, Me
<1> QED
  BY <1>3, <1>4, <1>5, <1>6, <1>7, FaultHurts DEF Works, Step, Reads, Passes

LEMMA ReachNext == TypeInv /\ TxInv /\ ReachInv /\ [Next]_vars => ReachInv'
<1> SUFFICES ASSUME TypeInv, TxInv, ReachInv, [Next]_vars PROVE ReachInv'
  OBVIOUS
<1>1. ASSUME NEW r \in Req, Arrive(r) PROVE ReachInv'
  <2>1. PICK o \in OpNames, v \in User, t \in Token, n \in Nat, l \in PCs \ {"idle"} :
            /\ Start(r, o, v, t, n, l)
            /\ CASE o = "login" -> l = "begin"
                 [] o = "refresh" -> l \in {"sismember", "error"}
                 [] OTHER -> l \in {"gate", "error"}
    BY <1>1, ArriveFrame
  <2>2. \A q \in Req \ {r} : pc'[q] = pc[q] /\ job'[q] = job[q]
    BY <2>1 DEF TypeInv, TypeOK, Start, Goto
  <2>3. pc[r] = "idle" /\ pc'[r] = l /\ l \notin {"setnx", "commit", "reply"}
    BY <2>1 DEF TypeInv, TypeOK, Start, Goto
  <2>4. UNCHANGED <<status, store, heldR, hurt>>
    BY <2>1 DEF Start, db, redis, client
  <2> QED
    BY <2>2, <2>3, <2>4 DEF ReachInv, Minted, HasKey, KeyIsKnown, At, Op, Me
<1>2. ASSUME NEW r \in Req, Works(r) PROVE ReachInv'
  <2>1. Minted'
    BY <1>2, MintedStep DEF ReachInv
  <2>2. ASSUME NEW u \in User \ hurt', u # Me(r)
        PROVE  HasKey(u)' /\ KeyIsKnown(u)'
    <3>1. HasKey(u) /\ KeyIsKnown(u)
      BY <1>2, <2>2, OtherAccount DEF ReachInv
    <3> QED
      BY <1>2, <2>2, <3>1, OtherAccount, Frame DEF HasKey, KeyIsKnown, At, Op, Me
  <2>3. ASSUME NEW u \in User \ hurt', u = Me(r)
        PROVE  HasKey(u)' /\ KeyIsKnown(u)'
    <3>1. u \notin hurt
      BY <1>2 DEF Works, Step, Gate, Role, LoginSelect, DetailsSelect, Check,
         RefreshLocked, RefreshGet, WaitFails, SAdd, Begin, Update, Commit,
         CommitFails, Del, DelFails, Create, CreateFails, Reply, Resend, Crash, Hurt, aux
    <3> QED
      BY <1>2, <2>3, <3>1, HasKeyStep, KeyIsKnownStep
  <2> QED
    BY <2>1, <2>2, <2>3 DEF ReachInv
<1>3. CASE Elapse \/ UNCHANGED vars
  <2>1. UNCHANGED <<status, store, heldR, pc, job, hurt>>
    BY <1>3 DEF Elapse, vars, db, redis, client, aux
  <2> QED
    BY <2>1 DEF ReachInv, Minted, HasKey, KeyIsKnown, At, Op, Me
<1> QED
  BY <1>1, <1>2, <1>3 DEF Next, Works

LEMMA InitReach == Init => ReachInv
<1> SUFFICES ASSUME Init PROVE ReachInv
  OBVIOUS
<1>1. \A r \in Req : pc[r] = "idle" /\ Op(r) = "none"
  BY DEF Init, Op, NoJob
<1>2. \A u \in User : status[u] = 0 /\ store[u] = NoTok
  BY DEF Init
<1> QED
  BY <1>1, <1>2 DEF ReachInv, Minted, HasKey, KeyIsKnown, At

\* An account recorded online whose requests met no fault and are all
\* answered has in Redis a refresh token that some client was given: the
\* races of Login, Logout and RefreshTokenHandler never leave a session that
\* nobody can continue.
THEOREM OnlineReachable == Spec => []OnlineIsReachable
<1>1. Init => TypeInv /\ TxInv /\ ReachInv
  BY InitType, InitTx, InitReach
<1>2. TypeInv /\ TxInv /\ ReachInv /\ [Next]_vars => (TypeInv /\ TxInv /\ ReachInv)'
  BY TypeStep, TxNext, ReachNext
<1>3. TypeInv /\ TxInv /\ ReachInv => OnlineIsReachable
  BY DEF ReachInv, HasKey, KeyIsKnown, At, OnlineIsReachable, Quiet
<1> QED
  BY <1>1, <1>2, <1>3, PTL DEF Spec

-----------------------------------------------------------------------------
(* OfflineHasNoKey *)

\* What solo means: nobody else works for the account.
Alone ==
    \A r \in solo : pc[r] # "idle" /\ \A q \in Req \ {r} : Me(q) # Me(r)

\* A key of an account recorded offline belongs to a login about to commit,
\* and a logout about to commit has left none.
NoKey(u) ==
    /\ status[u] = 0 /\ store[u] # NoTok => At(u, "login", "commit")
    /\ At(u, "logout", "commit") => store[u] = NoTok

\* A rotation that is alone found its key, so it works for an online account.
RotatesOnline(r) ==
    Op(r) = "refresh" /\ pc[r] \in {"del", "setnx"} => status[Me(r)] = 1

OffInv ==
    /\ Alone
    /\ \A u \in User \ (hurt \cup crossed) : NoKey(u)
    /\ \A r \in solo : Me(r) \notin hurt \cup crossed => RotatesOnline(r)

LEMMA InitOff == Init => OffInv
<1> SUFFICES ASSUME Init PROVE OffInv
  OBVIOUS
<1>1. \A r \in Req : pc[r] = "idle" /\ Op(r) = "none"
  BY DEF Init, Op, NoJob
<1> QED
  BY <1>1 DEF Init, OffInv, Alone, NoKey, At

LEMMA AloneStep ==
  ASSUME TypeInv, Alone, NEW r \in Req, Works(r)
  PROVE  Alone' /\ solo' \subseteq solo
<1>1. solo' = solo \/ solo' = solo \ {r}
  BY DEF Works, Step, Gate, Role, LoginSelect, DetailsSelect, Check, RefreshLocked,
     RefreshGet, WaitFails, SAdd, Begin, Update, Commit, CommitFails, Del, DelFails,
     Create, CreateFails, Reply, Resend, Crash, Finish, aux
<1>2. /\ \A q \in Req \ {r} : pc'[q] = pc[q] /\ Me(q)' = Me(q)
      /\ \/ pc'[r] = "idle" /\ Me(r)' = None
         \/ pc'[r] # "idle" /\ Me(r)' = Me(r)
  BY Frame DEF Me, NoJob
<1>3. \A q \in solo : q \in Req /\ Me(q) \in User
  BY DEF Alone, TypeInv, TypeOK, Busy
<1>4. pc'[r] = "idle" => r \notin solo'
  <2>1. CASE Reply(r) \/ Crash(r)
    BY <2>1 DEF Reply, Crash, Finish
  <2>2. CASE ~(Reply(r) \/ Crash(r) \/ Resend(r))
    BY <2>2 DEF Works, Step, Gate, Role, LoginSelect, DetailsSelect, Check,
       RefreshLocked, RefreshGet, WaitFails, SAdd, Begin, Update, Commit,
       CommitFails, Del, DelFails, Create, CreateFails, RedisError, DbError, Fail,
       Goto, TypeInv, TypeOK
  <2>3. CASE Resend(r)
    BY <2>3, Frame DEF Resend
  <2> QED
    BY <2>1, <2>2, <2>3
<1>5. \A q \in solo' : pc'[q] # "idle" /\ \A p \in Req \ {q} : Me(p)' # Me(q)'
  BY <1>1, <1>2, <1>3, <1>4, SessionAssumption DEF Alone
<1> QED
  BY <1>1, <1>5 DEF Alone

LEMMA ScopeShrinks ==
  ASSUME TypeInv, NEW r \in Req, Works(r)
  PROVE  hurt \subseteq hurt' /\ crossed \subseteq crossed'
BY DEF Works, Step, Gate, Role, LoginSelect, DetailsSelect, Check, RefreshLocked,
   RefreshGet, WaitFails, SAdd, Begin, Update, Commit, CommitFails, Del, DelFails,
   Create, CreateFails, Reply, Resend, Crash, Hurt, aux

LEMMA NoKeyStep ==
  ASSUME TypeInv, TxInv, ReachInv, OffInv, NEW r \in Req, Works(r),
         NEW u \in User, u \notin hurt' \cup crossed', u = Me(r)
  PROVE  NoKey(u)'
<1>0. u \notin hurt \cup crossed /\ NoKey(u) /\ pc \in [Req -> PCs]
  BY ScopeShrinks DEF OffInv, TypeInv, TypeOK
<1>1. "login" \in OpNames /\ "logout" \in OpNames /\ "refresh" \in OpNames
  BY DEF OpNames
<1>2. CASE Passes(r)
  BY <1>0, <1>1, <1>2, AtMoves, PassMoves DEF NoKey, TxInv
<1>3. CASE Commit(r)
  <2>1. /\ pc[r] = "commit" /\ pc'[r] = "reply" /\ UNCHANGED store
        /\ Op(r) = "login" => status'[u] = 1
        /\ Op(r) = "logout" => At(u, "logout", "commit")
        /\ Op(r) \notin {"login", "logout"} => status'[u] = status[u]
    BY <1>0, <1>3 DEF Commit, Goto, At, Written, redis, TypeInv, TypeOK
  <2> QED
    BY <1>0, <1>1, <2>1, AtMoves DEF NoKey
<1>4. CASE Del(r)
  BY <1>4 DEF Del, DelKey, NoKey, TypeInv, TypeOK
<1>5. CASE Create(r)
  <2>1. /\ pc[r] = "setnx" /\ UNCHANGED status
        /\ Op(r) = "login" => pc'[r] = "commit"
        /\ Op(r) # "login" => pc'[r] = "reply"
        /\ Op(r) = "refresh" => r \in solo
    BY <1>0, <1>5 DEF Create, Goto, db
  <2>2. Op(r) \in {"login", "refresh"}
    BY <2>1 DEF TxInv, Flow, Route
  <2>3. CASE Op(r) = "login"
    <3>1. ~At(u, "logout", "commit")
      BY <2>1, <2>3 DEF At, HasRow, TxInv, TxDiscipline
    <3> QED
      BY <1>1, <2>1, <2>3, <3>1, AtMoves DEF NoKey
  <2>4. CASE Op(r) = "refresh"
    <3>1. status'[u] = 1
      BY <1>0, <2>1, <2>4 DEF OffInv, RotatesOnline
    <3>2. ~At(u, "logout", "commit")
      BY <2>1, <2>4 DEF At, OffInv, Alone
    <3> QED
      BY <1>1, <2>1, <2>4, <3>1, <3>2, AtMoves DEF NoKey
  <2> QED
    BY <2>2, <2>3, <2>4
<1>6. CASE Reply(r)
  <2>1. /\ UNCHANGED <<status, store>> /\ pc'[r] = "idle" /\ pc[r] # "commit"
    BY <1>0, <1>6 DEF Reply, Finish, Goto, db, redis
  <2> QED
    BY <1>0, <1>1, <2>1, AtMoves DEF NoKey
<1> QED
  BY <1>2, <1>3, <1>4, <1>5, <1>6, FaultHurts DEF Works, Step, Reads, Passes

LEMMA RotatesStep ==
  ASSUME TypeInv, TxInv, OffInv, NEW r \in Req, Works(r), r \in solo,
         Me(r) \notin hurt' \cup crossed', pc'[r] \in {"del", "setnx"}, Op(r) = "refresh"
  PROVE  status'[Me(r)] = 1
<1>1. Me(r) \in User /\ NoKey(Me(r)) /\ RotatesOnline(r)
  BY ScopeShrinks DEF OffInv, Alone, TypeInv, Busy
<1>2. pc[r] \in Route("refresh") /\ pc \in [Req -> PCs]
  BY DEF TxInv, Flow, TypeInv, TypeOK
<1>3. CASE RefreshGet(r)
  <2>1. UNCHANGED status /\ store[Me(r)] # NoTok
    BY <1>2, <1>3 DEF RefreshGet, RedisError, Fail, Goto, Live, db
  <2>2. ~At(Me(r), "login", "commit")
    BY DEF At, OffInv, Alone
  <2> QED
    BY <1>1, <2>1, <2>2 DEF NoKey, TypeInv, TypeOK
<1>4. CASE Del(r)
  BY <1>1, <1>4 DEF Del, RotatesOnline, db
<1>5. CASE Resend(r)
  BY <1>5, FaultHurts
<1>6. CASE ~RefreshGet(r) /\ ~Del(r) /\ ~Resend(r)
  <2>1. FALSE
    BY <1>2, <1>6 DEF Works, Step, Gate, Role, LoginSelect, DetailsSelect, Check,
       RefreshLocked, WaitFails, SAdd, Begin, Update, Commit, CommitFails, DelFails,
       Create, CreateFails, Reply, Crash, Finish, RedisError, DbError, Fail, Goto, Route
  <2> QED
    BY <2>1
<1> QED
  BY <1>3, <1>4, <1>5, <1>6

LEMMA OffNext == TypeInv /\ TxInv /\ ReachInv /\ OffInv /\ [Next]_vars => OffInv'
<1> SUFFICES ASSUME TypeInv, TxInv, ReachInv, OffInv, [Next]_vars PROVE OffInv'
  OBVIOUS
<1>1. ASSUME NEW r \in Req, Arrive(r) PROVE OffInv'
  <2>1. PICK o \in OpNames, v \in User, t \in Token, n \in Nat, l \in PCs \ {"idle"} :
            /\ Start(r, o, v, t, n, l)
            /\ CASE o = "login" -> l = "begin"
                 [] o = "refresh" -> l \in {"sismember", "error"}
                 [] OTHER -> l \in {"gate", "error"}
    BY <1>1, ArriveFrame
  <2>2. \A q \in Req \ {r} : pc'[q] = pc[q] /\ job'[q] = job[q]
    BY <2>1 DEF TypeInv, TypeOK, Start, Goto
  <2>3. /\ pc[r] = "idle" /\ pc'[r] = l /\ Me(r)' = v
        /\ l \notin {"setnx", "commit", "del", "idle"}
    BY <2>1 DEF TypeInv, TypeOK, Start, Goto, Me, NoJob
  <2>4. UNCHANGED <<status, store, hurt, crossed>>
    BY <2>1 DEF Start, db, redis
  <2>5. /\ solo' \subseteq solo \cup {r}
        /\ \A q \in solo' : q # r => Me(q) # v
        /\ r \in solo' => \A q \in Req : Me(q) # v
    <3>1. r \notin solo /\ solo \subseteq Req
      BY <2>3 DEF OffInv, Alone, TypeInv, TypeOK
    <3>2. solo' = IF \E q \in Req : Me(q) = v
                  THEN {q \in solo : Me(q) # v} ELSE solo \cup {r}
      BY <2>1 DEF Start
    <3> QED
      BY <3>1, <3>2
  <2>6. Alone'
    BY <2>2, <2>3, <2>5 DEF OffInv, Alone, Me, TypeInv, TypeOK
  <2>7. ASSUME NEW u \in User, u \notin hurt' \cup crossed' PROVE NoKey(u)'
    BY <2>2, <2>3, <2>4, <2>7 DEF OffInv, NoKey, At, Op, Me
  <2>8. ASSUME NEW q \in solo', Me(q)' \notin hurt' \cup crossed'
        PROVE  RotatesOnline(q)'
    BY <2>2, <2>3, <2>4, <2>5, <2>8 DEF OffInv, Alone, RotatesOnline, Op, Me, TypeInv, TypeOK
  <2> QED
    BY <2>6, <2>7, <2>8 DEF OffInv
<1>2. ASSUME NEW r \in Req, Works(r) PROVE OffInv'
  <2>1. Alone' /\ solo' \subseteq solo
    BY <1>2, AloneStep DEF OffInv
  <2>2. ASSUME NEW u \in User, u \notin hurt' \cup crossed' PROVE NoKey(u)'
    <3>1. CASE u # Me(r)
      BY <1>2, <2>2, <3>1, OtherAccount DEF OffInv, NoKey, At, Op, Me
    <3>2. CASE u = Me(r)
      BY <1>2, <2>2, <3>2, NoKeyStep
    <3> QED
      BY <3>1, <3>2
  <2>3. ASSUME NEW q \in solo', Me(q)' \notin hurt' \cup crossed'
        PROVE  RotatesOnline(q)'
    <3>1. q \in solo /\ q \in Req /\ Me(q) \in User
      BY <2>1 DEF OffInv, Alone, TypeInv, TypeOK, Busy
    <3>2. CASE q # r
      <4>1. Me(q) # Me(r)
        BY <1>2, <3>1, <3>2 DEF OffInv, Alone
      <4>2. /\ status'[Me(q)] = status[Me(q)] /\ pc'[q] = pc[q] /\ job'[q] = job[q]
            /\ Me(q) \in hurt' <=> Me(q) \in hurt
            /\ Me(q) \in crossed' <=> Me(q) \in crossed
        BY <1>2, <3>1, <4>1, OtherAccount
      <4> QED
        BY <2>3, <3>1, <4>2 DEF OffInv, RotatesOnline, Op, Me
    <3>3. CASE q = r
      <4>1. Op(r)' = "refresh" => Op(r) = "refresh" /\ Me(r)' = Me(r)
        BY <1>2, Frame DEF Op, Me, NoJob
      <4> QED
        BY <1>2, <2>3, <3>1, <3>3, <4>1, RotatesStep DEF RotatesOnline
    <3> QED
      BY <3>2, <3>3
  <2> QED
    BY <2>1, <2>2, <2>3 DEF OffInv
<1>3. CASE Elapse \/ UNCHANGED vars
  <2>1. UNCHANGED <<status, store, pc, job, hurt, solo, crossed>>
    BY <1>3 DEF Elapse, vars, db, redis, aux
  <2> QED
    BY <2>1 DEF OffInv, Alone, NoKey, RotatesOnline, At, Op, Me
<1> QED
  BY <1>1, <1>2, <1>3 DEF Next, Works

\* An account recorded offline, with no transaction on its row, has no refresh
\* key in Redis, so CheckLogin lets its next login through: unless one of its
\* requests met a fault or a rotation overlapped another request.
THEOREM OfflineIsClean == Spec => []OfflineHasNoKey
<1>1. Init => TypeInv /\ TxInv /\ ReachInv /\ OffInv
  BY InitType, InitTx, InitReach, InitOff
<1>2. TypeInv /\ TxInv /\ ReachInv /\ OffInv /\ [Next]_vars
      => (TypeInv /\ TxInv /\ ReachInv /\ OffInv)'
  BY TypeStep, TxNext, ReachNext, OffNext
<1>3. TypeInv /\ TxInv /\ ReachInv /\ OffInv => OfflineHasNoKey
  BY SessionAssumption DEF OffInv, NoKey, At, OfflineHasNoKey, TxInv, TxDiscipline, HasRow
<1> QED
  BY <1>1, <1>2, <1>3, PTL DEF Spec

-----------------------------------------------------------------------------
(* SoloOutcome *)

\* What a request that is alone with its account knows on its way: a login
\* found no live key, a rotation deleted it, and after SETNX the key is the
\* one of the request.
Outcome(r) ==
    /\ Op(r) = "login" /\ pc[r] = "update" => ~Live(Me(r))
    /\ pc[r] = "setnx" => ~Live(Me(r)) \/ store[Me(r)] = job[r].mint
    /\ Op(r) = "login" /\ pc[r] = "commit" => store[Me(r)] = job[r].ref
    /\ Op(r) = "logout" /\ pc[r] = "commit" => store[Me(r)] = NoTok
    /\ pc[r] = "reply" =>
         /\ Op(r) = "login" => status[Me(r)] = 1 /\ store[Me(r)] = job[r].ref
         /\ Op(r) = "logout" => status[Me(r)] = 0 /\ store[Me(r)] = NoTok
         /\ Op(r) = "refresh" => store[Me(r)] = job[r].ref

SoloInv == \A r \in solo : Outcome(r)

\* The points Outcome speaks of.
Watched(o) ==
    CASE o = "login"   -> {"update", "setnx", "commit", "reply"}
      [] o = "logout"  -> {"commit", "reply"}
      [] o = "refresh" -> {"setnx", "reply"}
      [] OTHER         -> {}

\* The clock and the requests of others do not bring a key back to life.
LEMMA StaysDead ==
  ASSUME TypeInv, [Next]_vars, NEW u \in User, ~Live(u),
         store'[u] = store[u], expire'[u] = expire[u]
  PROVE  ~Live(u)'
<1>1. now' = now \/ now' = now + 1
  <2>1. ASSUME NEW r \in Req, Arrive(r) PROVE now' = now
    BY <2>1, ArriveFrame DEF Start
  <2>2. ASSUME NEW r \in Req, Works(r) PROVE now' = now
    BY <2>2 DEF Works, Step, Gate, Role, LoginSelect, DetailsSelect, Check, RefreshLocked,
       RefreshGet, WaitFails, SAdd, Begin, Update, Commit, CommitFails, Del, DelFails,
       Create, CreateFails, Reply, Resend, Crash
  <2> QED
    BY <2>1, <2>2 DEF Next, Works, Elapse, vars
<1>2. now \in Nat /\ expire[u] \in Nat
  BY SessionAssumption DEF TypeInv, TypeOK, Time
<1> QED
  BY <1>1, <1>2 DEF Live

LEMMA OtherExpire ==
  ASSUME TypeInv, NEW r \in Req, Works(r), NEW u \in User, u # Me(r)
  PROVE  expire'[u] = expire[u]
BY DEF Works, Step, Gate, Role, LoginSelect, DetailsSelect, Check, RefreshLocked,
   RefreshGet, WaitFails, SAdd, Begin, Update, Commit, CommitFails, Del, DelFails,
   Create, CreateFails, Reply, Resend, Crash, SetNX, redis, TypeInv, TypeOK

LEMMA OutcomeStep ==
  ASSUME TypeInv, TxInv, Flow', NEW r \in Req, Works(r), Outcome(r), pc'[r] # "idle"
  PROVE  Outcome(r)'
<1> DEFINE u == Me(r)
<1>1. /\ Me(r)' = u /\ Op(r)' = Op(r) /\ u \in User /\ pc[r] \in Route(Op(r))
      /\ pc \in [Req -> PCs] /\ job \in [Req -> Job] /\ store \in [User -> Token]
      /\ status \in [User -> {0, 1}] /\ pc[r] # "idle"
  BY Frame DEF Me, Op, TypeInv, TypeOK, Busy, TxInv, Flow
<1>2. \A l : Goto(r, l) => pc'[r] = l
  BY <1>1 DEF Goto
<1>3. ASSUME pc'[r] \notin Watched(Op(r)) PROVE Outcome(r)'
  <2>1. pc'[r] \in Route(Op(r))
    BY <1>1, FlowNext DEF TxInv
  <2> QED
    BY <1>1, <1>3, <2>1 DEF Outcome, Watched, Route
<1>4. CASE Gate(r) \/ Role(r) \/ SAdd(r) \/ RefreshLocked(r) \/ RefreshGet(r)
  BY <1>1, <1>2, <1>3, <1>4
  DEF Gate, Role, SAdd, RefreshLocked, RefreshGet, RedisError, Fail, Route, Watched
<1>5. CASE LoginSelect(r) \/ DetailsSelect(r) \/ WaitFails(r) \/ Begin(r)
  BY <1>1, <1>2, <1>3, <1>5
  DEF LoginSelect, DetailsSelect, WaitFails, Begin, DbError, Fail, Route, Watched
<1>6. CASE CommitFails(r) \/ DelFails(r) \/ CreateFails(r)
  BY <1>2, <1>3, <1>6 DEF CommitFails, DelFails, CreateFails, RedisError, Fail, Watched
<1>7. CASE Check(r)
  <2>1. UNCHANGED <<store, expire, now>>
    BY <1>7 DEF Check, redis
  <2>2. CASE Op(r) = "login" /\ pc'[r] = "update"
    <3>1. ~Live(u)
      BY <1>2, <1>7, <2>2 DEF Check, CheckLogin, Fail
    <3> QED
      BY <1>1, <2>1, <2>2, <3>1 DEF Outcome, Live
  <2> QED
    BY <1>1, <1>2, <1>3, <1>7, <2>2 DEF Check, Fail, Route, Watched
<1>8. CASE Update(r)
  <2>1. UNCHANGED <<store, expire, now>> /\ pc[r] = "update"
    BY <1>8 DEF Update, redis
  <2>2. CASE Op(r) = "login"
    <3>1. ~Live(u) /\ pc'[r] = "setnx"
      BY <1>2, <1>8, <2>1, <2>2 DEF Update, Outcome
    <3> QED
      BY <1>1, <2>1, <2>2, <3>1 DEF Outcome, Live
  <2>3. CASE Op(r) # "login"
    BY <1>1, <1>2, <1>3, <1>8, <2>3 DEF Update, Route, Watched
  <2> QED
    BY <2>2, <2>3
<1>9. CASE Commit(r)
  <2>1. /\ UNCHANGED <<store, job>> /\ pc[r] = "commit" /\ pc'[r] = "reply"
        /\ Op(r) = "login" => status'[u] = 1
        /\ Op(r) = "logout" => status'[u] = 0
        /\ Op(r) # "refresh"
    BY <1>1, <1>2, <1>9 DEF Commit, Written, redis, Route
  <2> QED
    BY <1>1, <2>1 DEF Outcome
<1>10. CASE Del(r)
  <2>1. store'[u] = NoTok /\ ~Live(u)'
    BY <1>1, <1>10 DEF Del, DelKey, Live
  <2>2. IF Op(r) = "refresh" THEN pc'[r] = "setnx" ELSE pc'[r] = "commit" /\ Op(r) = "logout"
    BY <1>1, <1>2, <1>10 DEF Del, Route
  <2> QED
    BY <1>1, <2>1, <2>2 DEF Outcome
<1>11. ASSUME pc[r] = "setnx", SetNX(u, job[r].mint) PROVE store'[u] = job[r].mint
  BY <1>1, <1>11 DEF SetNX, Outcome
<1>12. CASE Create(r)
  <2>1. store'[u] = job[r].mint
    BY <1>11, <1>12 DEF Create
  <2>2. job'[r].ref = job[r].mint
    <3>1. /\ [job[r] EXCEPT !.ref = job[r].mint, !.acc = now].ref = job[r].mint
          /\ [job[r] EXCEPT !.ref = job[r].mint].ref = job[r].mint
      BY <1>1 DEF Job
    <3> QED
      BY <1>1, <1>12, <3>1 DEF Create
  <2>3. /\ Op(r) \in {"login", "refresh"}
        /\ pc'[r] = IF Op(r) = "login" THEN "commit" ELSE "reply"
    BY <1>1, <1>2, <1>12 DEF Create, Route
  <2> QED
    BY <1>1, <2>1, <2>2, <2>3 DEF Outcome
<1>13. CASE Resend(r)
  <2>1. UNCHANGED <<pc, job>>
    BY <1>13 DEF Resend
  <2>2. CASE pc[r] = "del"
    BY <1>1, <1>3, <2>1, <2>2 DEF Watched
  <2>3. CASE pc[r] = "setnx"
    BY <1>1, <1>11, <1>13, <2>1, <2>3 DEF Outcome, Resend
  <2> QED
    BY <1>13, <2>2, <2>3 DEF Resend
<1>14. CASE Reply(r) \/ Crash(r)
  BY <1>2, <1>14 DEF Reply, Crash, Finish
<1> QED
  BY <1>4, <1>5, <1>6, <1>7, <1>8, <1>9, <1>10, <1>12, <1>13, <1>14 DEF Works, Step

LEMMA SoloNext ==
  TypeInv /\ TxInv /\ TxInv' /\ Alone /\ Alone' /\ SoloInv /\ [Next]_vars => SoloInv'
<1> SUFFICES ASSUME TypeInv, TxInv, TxInv', Alone, Alone', SoloInv, [Next]_vars,
                    NEW q \in solo'
             PROVE  Outcome(q)'
  BY DEF SoloInv
<1>0. ASSUME q \in solo, q \in Req, Me(q) \in User, pc'[q] = pc[q], job'[q] = job[q],
             status'[Me(q)] = status[Me(q)], store'[Me(q)] = store[Me(q)],
             expire'[Me(q)] = expire[Me(q)]
      PROVE  Outcome(q)'
  <2>1. Me(q)' = Me(q) /\ Op(q)' = Op(q) /\ Outcome(q)
    BY <1>0 DEF Me, Op, SoloInv
  <2>2. ~Live(Me(q)) => ~Live(Me(q))'
    <3>1. ASSUME NEW u \in User, u = Me(q), ~Live(u) PROVE ~Live(u)'
      BY <1>0, <3>1, StaysDead
    <3> QED
      BY <1>0, <2>1, <3>1 DEF Live
  <2> QED
    BY <1>0, <2>1, <2>2 DEF Outcome
<1>1. ASSUME NEW r \in Req, Arrive(r) PROVE Outcome(q)'
  <2>1. PICK o \in OpNames, v \in User, t \in Token, n \in Nat, l \in PCs \ {"idle"} :
            /\ Start(r, o, v, t, n, l)
            /\ CASE o = "login" -> l = "begin"
                 [] o = "refresh" -> l \in {"sismember", "error"}
                 [] OTHER -> l \in {"gate", "error"}
    BY <1>1, ArriveFrame
  <2>2. \A p \in Req \ {r} : pc'[p] = pc[p] /\ job'[p] = job[p]
    BY <2>1 DEF TypeInv, TypeOK, Start, Goto
  <2>3. pc'[r] = l /\ l \notin {"update", "setnx", "commit", "reply"}
    BY <2>1 DEF TypeInv, TypeOK, Start, Goto
  <2>4. UNCHANGED <<status, store, expire>> /\ solo' \subseteq solo \cup {r}
    BY <2>1 DEF Start, db, redis
  <2>5. CASE q = r
    BY <2>3, <2>5 DEF Outcome
  <2>6. CASE q # r
    <3>1. q \in solo /\ q \in Req /\ Me(q) \in User
      BY <2>4, <2>6 DEF Alone, TypeInv, TypeOK, Busy
    <3> QED
      BY <1>0, <2>2, <2>4, <2>6, <3>1
  <2> QED
    BY <2>5, <2>6
<1>2. ASSUME NEW r \in Req, Works(r) PROVE Outcome(q)'
  <2>1. q \in solo /\ q \in Req /\ Me(q) \in User
    BY <1>2, AloneStep DEF Alone, TypeInv, TypeOK, Busy
  <2>2. CASE q = r
    <3>1. Outcome(r) /\ pc'[r] # "idle"
      BY <2>1, <2>2 DEF Alone, SoloInv
    <3>2. Outcome(r)'
      BY <1>2, <3>1, OutcomeStep DEF TxInv
    <3> QED
      BY <2>2, <3>2
  <2>3. CASE q # r
    <3>1. Me(q) # Me(r)
      BY <1>2, <2>1, <2>3 DEF Alone
    <3>2. /\ status'[Me(q)] = status[Me(q)] /\ store'[Me(q)] = store[Me(q)]
          /\ expire'[Me(q)] = expire[Me(q)] /\ pc'[q] = pc[q] /\ job'[q] = job[q]
      BY <1>2, <2>1, <3>1, OtherAccount, OtherExpire
    <3> QED
      BY <1>0, <2>1, <3>2
  <2> QED
    BY <2>2, <2>3
<1>3. CASE Elapse \/ UNCHANGED vars
  <2>1. UNCHANGED <<status, store, expire, pc, job, solo>>
    BY <1>3 DEF Elapse, vars, db, redis, aux
  <2>2. q \in solo /\ q \in Req /\ Me(q) \in User
    BY <2>1 DEF Alone, TypeInv, TypeOK, Busy
  <2> QED
    BY <1>0, <2>1, <2>2
<1> QED
  BY <1>1, <1>2, <1>3 DEF Next, Works

\* A request that never overlapped another one of its account has done what it
\* answers: the token returned is the one stored, a login leaves the account
\* online, a logout offline and without a key, whatever happened before it.
THEOREM SoloRequestsSucceed == Spec => []SoloOutcome
<1>1. Init => TypeInv /\ TxInv /\ ReachInv /\ OffInv /\ SoloInv
  BY InitType, InitTx, InitReach, InitOff DEF Init, SoloInv
<1>2. TypeInv /\ TxInv /\ ReachInv /\ OffInv /\ SoloInv /\ [Next]_vars
      => (TypeInv /\ TxInv /\ ReachInv /\ OffInv /\ SoloInv)'
  BY TypeStep, TxNext, ReachNext, OffNext, SoloNext DEF OffInv
<1>3. SoloInv => SoloOutcome
  BY DEF SoloInv, Outcome, SoloOutcome
<1> QED
  BY <1>1, <1>2, <1>3, PTL DEF Spec
=============================================================================
