------------------------------ MODULE Session ------------------------------
(***************************************************************************)
(* The session core of GH-Server: the handlers that log an account in and  *)
(* out, rotate its refresh token, lock it, and the authenticated handlers  *)
(* that run behind the JWT middleware.  Every HTTP request runs in its own *)
(* goroutine, in one of several prefork processes, and the only state the  *)
(* requests share is remote: the users table in PostgreSQL and three kinds *)
(* of keys in Redis.  One action is one remote call together with the      *)
(* local code up to the next one, so that requests interleave exactly      *)
(* where the program gives the others a chance to run.                     *)
(*                                                                         *)
(* PostgreSQL runs at its default isolation, READ COMMITTED: a SELECT sees *)
(* the committed row, an UPDATE waits for the row lock and keeps it until  *)
(* the transaction ends.  A Redis command is atomic and is not undone when *)
(* the surrounding SQL transaction rolls back.                             *)
(***************************************************************************)
EXTENDS Integers, FiniteSets

CONSTANTS
    User,           \* the registered accounts, named by their uuid
    Admin,          \* the accounts whose role column is "admin"
    Req,            \* slots for requests in flight (goroutines)
    None,           \* no request, no account
    Ops,            \* the operations clients ask for in this instance
    Faults,         \* what may go wrong: "redis", "db", "crash"
    MaxConns,       \* DB_MAX_OPEN_CONNS
    MaxTime,        \* bound of the clock
    AccessTTL,      \* JWT_EXPIRE, lifetime of an access token
    RefreshTTL,     \* JWT_REFRESH, lifetime of a refresh token and its key
    RenewWindow     \* remaining life of the bearer token under which an access
                    \* token is issued anew

OpNames == {"login", "logout", "refresh", "tick", "upload", "details"}
FaultNames == {"redis", "db", "crash"}

ASSUME SessionAssumption ==
    /\ Admin \subseteq User
    /\ None \notin User /\ None \notin Req
    /\ Ops \subseteq OpNames
    /\ Faults \subseteq FaultNames
    /\ MaxConns \in Nat \ {0}
    /\ MaxTime \in Nat
    /\ AccessTTL \in Nat
    /\ RefreshTTL \in Nat
    /\ RenewWindow \in Nat

Time == 0..MaxTime

(***************************************************************************)
(* A token is a signed function of its subject, its role, its lifetime and *)
(* the second it is issued in, so for one account a token IS its issue     *)
(* time, and two tokens made within a second are the same string.          *)
(***************************************************************************)
NoTok == -1
Token == Time \cup {NoTok}

PCs == {"idle", "gate", "role", "sadd", "sismember", "get", "begin", "select",
        "check", "update", "setnx", "del", "commit", "reply", "error"}

Job == [op : OpNames \cup {"none"}, user : User \cup {None}, tok : Token,
        life : Nat, mint : Token, acc : Token, ref : Token]
NoJob == [op |-> "none", user |-> None, tok |-> NoTok,
          life |-> 0, mint |-> NoTok, acc |-> NoTok, ref |-> NoTok]

VARIABLES
    status,     \* committed column status: 0 offline, 1 online
    lock,       \* lock[u]: the request holding the lock on u's row
    conns,      \* the requests that hold a database connection
    store,      \* the token under "refresh:<uuid>", NoTok when absent
    expire,     \* when that key expires
    blacklist,  \* the set "blacklist:<app>"
    pc,         \* pc[r]: the remote call request r is about to make
    job,        \* job[r]: op and account of r, the token it presented and how
                \* long that lives, the refresh token it minted, the response
                \* headers set so far
    heldA,      \* access tokens that reached a client, by account
    heldR,      \* refresh tokens that reached a client, by account
    now,        \* the clock
    hurt,       \* auxiliary: accounts one of whose requests met a fault
    solo,       \* auxiliary: requests that never overlapped another request
                \* of the same account
    crossed     \* auxiliary: accounts for which a refresh token was made by a
                \* refresh that did overlap another request

db     == <<status, lock, conns>>
redis  == <<store, expire, blacklist>>
client == <<heldA, heldR>>
aux    == <<hurt, solo, crossed>>
vars   == <<db, redis, pc, job, client, now, aux>>

Init ==
    /\ status = [u \in User |-> 0]
    /\ lock = [u \in User |-> None]
    /\ conns = {}
    /\ store = [u \in User |-> NoTok]
    /\ expire = [u \in User |-> 0]
    /\ blacklist = {}
    /\ pc = [r \in Req |-> "idle"]
    /\ job = [r \in Req |-> NoJob]
    /\ heldA = [u \in User |-> {}]
    /\ heldR = [u \in User |-> {}]
    /\ now = 0
    /\ hurt = {}
    /\ solo = {}
    /\ crossed = {}

-----------------------------------------------------------------------------
(* Helpers *)

Me(r) == job[r].user
Op(r) == job[r].op

\* A key set with expiration 0 never expires (JWT_REFRESH unset).
Live(u) == store[u] # NoTok /\ (RefreshTTL = 0 \/ now < expire[u])

\* Mutant: the lookup uses another key than Tick.
LockedElsewhere(u) == FALSE

\* SISMEMBER blacklist:<app> <uuid>
Locked(u) == u \in blacklist

Goto(r, l) == pc' = [pc EXCEPT ![r] = l]

\* The transaction of r is over: its row lock and its connection are free.
Release(r) ==
    /\ lock' = [u \in User |-> IF lock[u] = r THEN None ELSE lock[u]]
    /\ conns' = conns \ {r}

\* Mutant: an early return that forgets to roll back.
FailLeaks(r) ==
    /\ Goto(r, "error")
    /\ UNCHANGED db

\* An early return: the error response, with whatever headers are set so
\* far; an open transaction is rolled back.
Fail(r) ==
    /\ Goto(r, "error")
    /\ Release(r)
    /\ UNCHANGED status

\* An error of Redis, or of PostgreSQL, where the code returns it.
RedisError(r) == "redis" \in Faults /\ Fail(r)
DbError(r)    == "db" \in Faults /\ Fail(r)

Hurt(u) == hurt' = hurt \cup {u}

-----------------------------------------------------------------------------
(* A request arrives *)

Start(r, o, u, t, life, first) ==
    /\ pc[r] = "idle"
    /\ o \in Ops
    /\ Goto(r, first)
    /\ job' = [job EXCEPT ![r] =
                 [NoJob EXCEPT !.op = o, !.user = u, !.tok = t, !.life = life]]
    /\ solo' = IF \E q \in Req : Me(q) = u
               THEN {q \in solo : Me(q) # u}
               ELSE solo \cup {r}
    /\ UNCHANGED <<db, redis, client, now, hurt, crossed>>

\* /user/login is not behind the JWT middleware.
LoginStart(r, u) == Start(r, "login", u, NoTok, 0, "begin")

\* What passes for a bearer token: the middleware checks the signature and
\* the expiry, and both kinds of token are signed with the same secret.
Bearer(u, t, life) ==
    \/ t \in heldA[u] /\ life = AccessTTL
    \/ t \in heldR[u] /\ life = RefreshTTL

\* The JWT middleware has verified the bearer token: an expired one is
\* answered at once (JwtErrorHandler).
AuthStart(r, o, u, t, life) ==
    /\ Bearer(u, t, life)
    /\ o \in {"logout", "tick", "upload", "details"}
    /\ Start(r, o, u, t, life, IF now < t + life THEN "gate" ELSE "error")

\* /refresh is not behind the middleware either: it parses the X-Refresh
\* header itself.
RefreshStart(r, u, t) ==
    /\ t \in heldR[u]
    /\ Start(r, "refresh", u, t, RefreshTTL,
             IF now < t + RefreshTTL THEN "sismember" ELSE "error")

-----------------------------------------------------------------------------
(* JwtSuccessHandler, CheckRole and Tick *)

\* The blacklist is consulted; when the token presented is about to expire
\* an access token is issued.
Gate(r) ==
    /\ pc[r] = "gate"
    /\ \/ /\ ~Locked(Me(r))
          /\ job' = IF job[r].tok + job[r].life - now <= RenewWindow
                    THEN [job EXCEPT ![r].acc = now]
                    ELSE job
          /\ Goto(r, IF Op(r) = "tick" THEN "role" ELSE "check")
          /\ UNCHANGED db
       \/ /\ Locked(Me(r))
          /\ Fail(r)
          /\ UNCHANGED job
       \/ RedisError(r) /\ UNCHANGED job
    /\ UNCHANGED <<redis, client, now, aux>>

\* The role is read from the refresh token stored for the caller.
Role(r) ==
    /\ pc[r] = "role"
    /\ \/ /\ Live(Me(r))
          /\ now < store[Me(r)] + RefreshTTL
          /\ Me(r) \in Admin
          /\ Goto(r, "sadd")
          /\ UNCHANGED db
       \/ /\ \/ ~Live(Me(r))
             \/ now >= store[Me(r)] + RefreshTTL
             \/ Me(r) \notin Admin
          /\ Fail(r)
       \/ RedisError(r)
    /\ UNCHANGED <<redis, job, client, now, aux>>

\* The path parameter names any account.
SAdd(r) ==
    /\ pc[r] = "sadd"
    /\ \E v \in User, applied \in BOOLEAN :
          /\ blacklist' = IF applied THEN blacklist \cup {v} ELSE blacklist
          /\ \/ applied /\ Goto(r, "reply") /\ UNCHANGED db
             \/ RedisError(r)
    /\ UNCHANGED <<store, expire, job, client, now, aux>>

-----------------------------------------------------------------------------
(* The database side of Login, Logout, UploadAvatar and GetUserDetails *)

\* gdb.Transaction waits for a connection of the pool.
Begin(r) ==
    /\ pc[r] = "begin"
    /\ Cardinality(conns) < MaxConns
    /\ conns' = conns \cup {r}
    /\ Goto(r, IF Op(r) \in {"login", "details"} THEN "select" ELSE "update")
    /\ UNCHANGED <<status, lock, redis, job, client, now, aux>>

LoginSelect(r) ==
    /\ pc[r] = "select" /\ Op(r) = "login"
    /\ \/ status[Me(r)] = 0 /\ Goto(r, "check") /\ UNCHANGED db
       \/ status[Me(r)] = 1 /\ Fail(r)
       \/ DbError(r)
    /\ UNCHANGED <<redis, job, client, now, aux>>

\* The searched account may be any one, or nobody's.
DetailsSelect(r) ==
    /\ pc[r] = "select" /\ Op(r) = "details"
    /\ \/ Goto(r, "commit") /\ UNCHANGED db
       \/ Fail(r)
    /\ UNCHANGED <<redis, job, client, now, aux>>

\* Mutant: the outcome of EXISTS is lost as well.
CheckLoginBlind(u, existsFailed, ignore) ==
    IF existsFailed THEN "ErrInternalServerError" ELSE "nil"

\* CheckLogin: SISMEMBER, then EXISTS.  The second call assigns the same err
\* variable, so the outcome of the blacklist lookup is lost, and only Login
\* (ignore = false) looks at the outcome of the second.
CheckLogin(u, existsFailed, ignore) ==
    IF ~ignore /\ ~existsFailed /\ Live(u) THEN "ErrAccountLogined"
    ELSE IF existsFailed THEN "ErrInternalServerError" ELSE "nil"

Check(r) ==
    /\ pc[r] = "check"
    /\ \E existsFailed, passwordMatches \in BOOLEAN :
          /\ existsFailed => "redis" \in Faults
          /\ LET err == CheckLogin(Me(r), existsFailed, Op(r) # "login")
             IN  \/ /\ err # "nil"
                    /\ Fail(r)
                 \/ /\ err = "nil" /\ Op(r) = "login"
                    /\ \/ passwordMatches /\ Goto(r, "update") /\ UNCHANGED db
                       \/ ~passwordMatches /\ Fail(r)
                 \/ /\ err = "nil" /\ Op(r) # "login"
                    /\ Goto(r, "begin") /\ UNCHANGED db
    /\ UNCHANGED <<redis, job, client, now, aux>>

\* Mutant: the locking read comes after the tokens are minted, so two logins
\* of one account are on their way to SETNX at once.
UpdateUnlocked(r) ==
    /\ pc[r] = "update"
    /\ lock' = [lock EXCEPT ![Me(r)] = IF @ = None THEN r ELSE @]
    /\ job' = IF Op(r) = "login"
              THEN [job EXCEPT ![r] = [@ EXCEPT !.mint = now, !.acc = now]]
              ELSE job
    /\ Goto(r, CASE Op(r) = "login" -> "setnx"
                 [] Op(r) = "logout" -> "del"
                 [] OTHER -> "commit")
    /\ UNCHANGED <<status, conns, redis, client, now, aux>>

\* UPDATE users SET ... WHERE email/uuid = ?.  The version column is only
\* incremented: nothing compares it, and RowsAffected is discarded.  Login
\* mints both tokens next and sets the access header at once.
Update(r) ==
    /\ pc[r] = "update"
    /\ lock[Me(r)] = None
    /\ lock' = [lock EXCEPT ![Me(r)] = r]
    /\ job' = IF Op(r) = "login"
              THEN [job EXCEPT ![r] = [@ EXCEPT !.mint = now, !.acc = now]]
              ELSE job
    /\ Goto(r, CASE Op(r) = "login" -> "setnx"
                 [] Op(r) = "logout" -> "del"
                 [] OTHER -> "commit")
    /\ UNCHANGED <<status, conns, redis, client, now, aux>>

\* BEGIN or UPDATE returned an error.
WaitFails(r) ==
    /\ pc[r] \in {"begin", "update"}
    /\ DbError(r)
    /\ UNCHANGED <<redis, job, client, now, aux>>

\* Mutant: Login counts sessions in the column.
WrittenCounts(r) ==
    CASE Op(r) = "login" -> [status EXCEPT ![Me(r)] = @ + 1]
      [] Op(r) = "logout" -> [status EXCEPT ![Me(r)] = 0]
      [] OTHER -> status

\* Mutant: Logout without its Select, Updates skips the zero value.
WrittenSkipsZero(r) ==
    IF Op(r) = "login" THEN [status EXCEPT ![Me(r)] = 1] ELSE status

\* What the committing transaction wrote to the status column.
Written(r) ==
    CASE Op(r) = "login" -> [status EXCEPT ![Me(r)] = 1]
      [] Op(r) = "logout" -> [status EXCEPT ![Me(r)] = 0]
      [] OTHER -> status

Commit(r) ==
    /\ pc[r] = "commit"
    /\ status' = Written(r)
    /\ Release(r)
    /\ Goto(r, "reply")
    /\ UNCHANGED <<redis, job, client, now, aux>>

\* COMMIT returned an error: it took effect or it did not.
CommitFails(r) ==
    /\ pc[r] = "commit" /\ "db" \in Faults
    /\ status' \in {status, Written(r)}
    /\ Release(r)
    /\ Goto(r, "error")
    /\ Hurt(Me(r))
    /\ UNCHANGED <<redis, job, client, now, solo, crossed>>

-----------------------------------------------------------------------------
(* RefreshTokenHandler *)

RefreshLocked(r) ==
    /\ pc[r] = "sismember"
    /\ \/ ~Locked(Me(r)) /\ Goto(r, "get") /\ UNCHANGED db
       \/ Locked(Me(r)) /\ Fail(r)
       \/ RedisError(r)
    /\ UNCHANGED <<redis, job, client, now, aux>>

RefreshGet(r) ==
    /\ pc[r] = "get"
    /\ \/ Live(Me(r)) /\ store[Me(r)] = job[r].tok /\ Goto(r, "del") /\ UNCHANGED db
       \/ (~Live(Me(r)) \/ store[Me(r)] # job[r].tok) /\ Fail(r)
       \/ RedisError(r)
    /\ UNCHANGED <<redis, job, client, now, aux>>

-----------------------------------------------------------------------------
(* The writes of Redis: DEL in Logout and RefreshTokenHandler, SETNX in     *)
(* CreateRefreshToken                                                       *)

\* Mutant: DEL of a key that does not exist.
DelOtherKey(u) == UNCHANGED store

DelKey(u) == store' = [store EXCEPT ![u] = NoTok]

\* After its DEL, RefreshTokenHandler mints the new refresh token.
Del(r) ==
    /\ pc[r] = "del"
    /\ DelKey(Me(r))
    /\ IF Op(r) = "refresh"
       THEN Goto(r, "setnx") /\ job' = [job EXCEPT ![r].mint = now]
       ELSE Goto(r, "commit") /\ UNCHANGED job
    /\ UNCHANGED <<db, expire, blacklist, client, now, aux>>

\* A failed write may have reached Redis all the same.
DelFails(r) ==
    /\ pc[r] = "del"
    /\ DelKey(Me(r)) \/ UNCHANGED store
    /\ RedisError(r)
    /\ Hurt(Me(r))
    /\ UNCHANGED <<expire, blacklist, job, client, now, solo, crossed>>

\* Mutant: SETXX, the mode for a key that exists.
SetXX(u, t) ==
    IF ~Live(u) THEN UNCHANGED <<store, expire>>
    ELSE /\ store' = [store EXCEPT ![u] = t]
         /\ expire' = [expire EXCEPT ![u] = now + RefreshTTL]

\* Mutant: JWT_REFRESH taken for hours where the key is stored, for days in
\* the token.
SetNXHours(u, t) ==
    IF Live(u) THEN UNCHANGED <<store, expire>>
    ELSE /\ store' = [store EXCEPT ![u] = t]
         /\ expire' = [expire EXCEPT ![u] = now + RefreshTTL \div 24]

SetNX(u, t) ==
    IF Live(u) THEN UNCHANGED <<store, expire>>
    ELSE /\ store' = [store EXCEPT ![u] = t]
         /\ expire' = [expire EXCEPT ![u] = now + RefreshTTL]

\* CreateRefreshToken looks at the error of SETNX and not at its result, so
\* the handler goes on whether or not its token was stored.
Create(r) ==
    /\ pc[r] = "setnx"
    /\ SetNX(Me(r), job[r].mint)
    /\ job' = IF Op(r) = "refresh"
              THEN [job EXCEPT ![r] = [@ EXCEPT !.ref = job[r].mint, !.acc = now]]
              ELSE [job EXCEPT ![r].ref = job[r].mint]
    /\ Goto(r, IF Op(r) = "login" THEN "commit" ELSE "reply")
    /\ crossed' = IF Op(r) = "refresh" /\ r \notin solo
                  THEN crossed \cup {Me(r)} ELSE crossed
    /\ UNCHANGED <<db, blacklist, client, now, hurt, solo>>

CreateFails(r) ==
    /\ pc[r] = "setnx"
    /\ SetNX(Me(r), job[r].mint) \/ UNCHANGED <<store, expire>>
    /\ RedisError(r)
    /\ Hurt(Me(r))
    /\ UNCHANGED <<blacklist, job, client, now, solo, crossed>>

\* The answer to a write that took effect is lost: go-redis sends the command
\* again (RDB_MAX_RETRIES), with the steps of others in between.
Resend(r) ==
    /\ "redis" \in Faults
    /\ \/ pc[r] = "del" /\ DelKey(Me(r)) /\ UNCHANGED expire
       \/ pc[r] = "setnx" /\ SetNX(Me(r), job[r].mint)
    /\ Hurt(Me(r))
    /\ UNCHANGED <<db, blacklist, pc, job, client, now, solo, crossed>>

-----------------------------------------------------------------------------
(* The end of a request, and the environment *)

Finish(r) ==
    /\ Goto(r, "idle")
    /\ job' = [job EXCEPT ![r] = NoJob]
    /\ solo' = solo \ {r}

\* The response reaches the client with its headers, whatever its status.
Reply(r) ==
    /\ pc[r] \in {"reply", "error"}
    /\ heldA' = [heldA EXCEPT ![Me(r)] = @ \cup ({job[r].acc} \ {NoTok})]
    /\ heldR' = [heldR EXCEPT ![Me(r)] = @ \cup ({job[r].ref} \ {NoTok})]
    /\ Finish(r)
    /\ UNCHANGED <<db, redis, now, hurt, crossed>>

\* The process dies under the request: main returns when the five seconds
\* of graceful shutdown are over, Health calls zap's Fatal, a prefork child
\* is killed.  PostgreSQL rolls the transaction back; Redis keeps what it
\* was told; no response is sent.
Crash(r) ==
    /\ "crash" \in Faults
    /\ pc[r] # "idle"
    /\ Release(r)
    /\ Finish(r)
    /\ Hurt(Me(r))
    /\ UNCHANGED <<status, redis, client, now, crossed>>

Elapse ==
    /\ now < MaxTime
    /\ now' = now + 1
    /\ UNCHANGED <<db, redis, pc, job, client, aux>>

-----------------------------------------------------------------------------

Arrive(r) ==
    \E u \in User :
        \/ LoginStart(r, u)
        \/ \E o \in OpNames, t \in Time, life \in {AccessTTL, RefreshTTL} :
              AuthStart(r, o, u, t, life)
        \/ \E t \in heldR[u] : RefreshStart(r, u, t)

\* The steps that wait for nobody.
Step(r) ==
    \/ Gate(r) \/ Role(r) \/ SAdd(r)
    \/ LoginSelect(r) \/ DetailsSelect(r) \/ Check(r)
    \/ Commit(r) \/ CommitFails(r)
    \/ RefreshLocked(r) \/ RefreshGet(r)
    \/ Del(r) \/ DelFails(r) \/ Create(r) \/ CreateFails(r)
    \/ Reply(r)

Next ==
    \/ \E r \in Req : \/ Arrive(r) \/ Step(r) \/ Begin(r) \/ Update(r)
                      \/ WaitFails(r) \/ Resend(r) \/ Crash(r)
    \/ Elapse

Spec == Init /\ [][Next]_vars

\* A goroutine keeps running, so a step that waits for nobody is taken.
\* database/sql hands out connections first come first served and PostgreSQL
\* queues the waiters of a row lock, so whoever waits is served if what it
\* waits for is released again and again: strong fairness.  A request is at
\* one point at a time, so one condition says both of it.  No fault
\* (WaitFails, Resend, Crash) is fair, so none is what ends a wait.
Fairness == \A r \in Req : SF_vars(Step(r) \/ Begin(r) \/ Update(r))

FairSpec == Spec /\ Fairness
=============================================================================
