------------------------------- MODULE Health -------------------------------
(***************************************************************************)
(* The health report of one GH-Server process: Service.Health pings        *)
(* PostgreSQL and Redis through the very pools the handlers use, gives up  *)
(* after a second, and reports the figures of the Redis pool, which it     *)
(* reads field by field while handlers take connections and return them.   *)
(*                                                                         *)
(* The pools belong to database/sql and go-redis: their steps are modelled *)
(* as the handlers see them.  A Redis connection is either idle or held,   *)
(* the pool dials when none is idle and it is not full, and a held         *)
(* connection is put back or, after an error, closed.                      *)
(***************************************************************************)
EXTENDS Integers, FiniteSets

CONSTANTS
    Handler,        \* goroutines of other requests
    MaxConns,       \* DB_MAX_OPEN_CONNS
    PoolSize,       \* the size of the Redis pool
    Word,           \* the modulus of uint32
    Outage,         \* what may be unreachable: "db", "redis"
    None            \* no figure yet

ASSUME HealthAssumption ==
    /\ IsFiniteSet(Handler)
    /\ MaxConns \in Nat \ {0}
    /\ PoolSize \in Nat \ {0}
    /\ Word \in Nat /\ Word > PoolSize
    /\ Outage \subseteq {"db", "redis"}
    /\ None \notin Int

PCs == {"none", "db", "redis", "info", "total", "idle", "total2", "idle2", "reply"}

\* The conditions evaluateRedisStats looks at, those of INFO first.
InfoAlarms == {"clients", "memory", "restarted"}
Alarms == InfoAlarms \cup {"stale", "idle", "utilization"}

VARIABLES
    alive,      \* the process runs
    down,       \* what is unreachable
    inTx,       \* handlers that hold a database connection
    inRedis,    \* handlers that hold a Redis connection
    idle,       \* number of idle Redis connections
    pc,         \* the next call of Health, "none" when it is not running
    total,      \* PoolStats.TotalConns as last read
    active,     \* the figure redis_active_connections
    alarms,     \* the conditions found so far
    dialled,    \* auxiliary: a connection may have been opened since total
                \* was read
    closed,     \* auxiliary: connections closed since, up to that moment
    still       \* auxiliary: no connection moved since the first read

process == <<alive, down>>
pool    == <<inTx, inRedis, idle>>
report  == <<total, active, alarms>>
aux     == <<dialled, closed, still>>
vars    == <<process, pool, pc, report, aux>>

Init ==
    /\ alive = TRUE
    /\ down = {}
    /\ inTx = {}
    /\ inRedis = {}
    /\ idle = 0
    /\ pc = "none"
    /\ total = 0
    /\ active = None
    /\ alarms = {}
    /\ dialled = TRUE
    /\ closed = 0
    /\ still = FALSE

-----------------------------------------------------------------------------
(* Figures *)

Used == Cardinality(inRedis)
Open == idle + Used

\* Mutant: the operands are swapped.
ActiveSwapped(t, i) == IF t <= i THEN i - t ELSE i - t + Word

\* Mutant: the subtraction is signed.
ActiveSigned(t, i) == t - i

\* TotalConns - IdleConns in uint32, so the difference has wrapped before
\* math.Max sees it.
Active(t, i) == IF i <= t THEN t - i ELSE t - i + Word

Utilized(t, i) == 10 * Active(t, i) > 9 * PoolSize

\* The conditions in the order they are looked at.
Order == [clients |-> 1, stale |-> 2, memory |-> 3, restarted |-> 4,
          idle |-> 5, utilization |-> 6]

\* Mutant: the first condition met keeps the message.
MessageFirst(S) ==
    IF S = {} THEN "healthy"
    ELSE CHOOSE a \in S : \A b \in S : Order[a] <= Order[b]

\* Every condition overwrites the message of the ones before it.
Message(S) ==
    IF S = {} THEN "healthy"
    ELSE CHOOSE a \in S : \A b \in S : Order[b] <= Order[a]

-----------------------------------------------------------------------------
(* The handlers *)

\* A transaction of a handler; its Redis calls may come inside or outside.
BeginTx(h) ==
    /\ h \notin inTx \cup inRedis
    /\ Cardinality(inTx) < MaxConns
    /\ inTx' = inTx \cup {h}
    /\ UNCHANGED <<process, inRedis, idle, pc, report, aux>>

EndTx(h) ==
    /\ h \in inTx \ inRedis
    /\ inTx' = inTx \ {h}
    /\ UNCHANGED <<process, inRedis, idle, pc, report, aux>>

\* A Redis command takes an idle connection, or dials.
Take(h) ==
    /\ h \notin inRedis
    /\ Used < PoolSize
    /\ inRedis' = inRedis \cup {h}
    /\ \/ idle > 0 /\ idle' = idle - 1 /\ UNCHANGED dialled
       \/ idle = 0 /\ "redis" \notin down /\ idle' = idle /\ dialled' = TRUE
    /\ still' = FALSE
    /\ UNCHANGED <<process, inTx, pc, report, closed>>

\* It returns the connection, or closes it after an error.
Put(h) ==
    /\ h \in inRedis
    /\ inRedis' = inRedis \ {h}
    /\ \/ idle' = idle + 1 /\ UNCHANGED closed
       \/ idle' = idle /\ closed' = IF dialled THEN closed ELSE closed + 1
    /\ still' = FALSE
    /\ UNCHANGED <<process, inTx, pc, report, dialled>>

-----------------------------------------------------------------------------
(* Health *)

\* GET /health, for an administrator.
Start ==
    /\ pc = "none"
    /\ pc' = "db"
    /\ UNCHANGED <<process, pool, report, aux>>

\* zap's Fatal ends the process.
Fatal ==
    /\ alive' = FALSE
    /\ UNCHANGED <<down, pool, pc, report, aux>>

\* Db.PingContext needs a connection of the pool.
PingDb ==
    /\ pc = "db" /\ "db" \notin down
    /\ Cardinality(inTx) < MaxConns
    /\ pc' = "redis"
    /\ UNCHANGED <<process, pool, report, aux>>

\* Mutant: PingContext without the timeout.
PingDbUntimed == pc = "db" /\ "db" \in down /\ Fatal

\* It fails when the second is over as well.
PingDbFails ==
    /\ pc = "db"
    /\ "db" \in down \/ Cardinality(inTx) = MaxConns
    /\ Fatal

\* A command of Health is served by an idle connection or by a new one,
\* which stays in the pool.
Command ==
    /\ "redis" \notin down
    /\ Used < PoolSize
    /\ \/ idle > 0 /\ UNCHANGED <<idle, dialled>>
       \/ idle = 0 /\ idle' = 1 /\ dialled' = TRUE
    /\ still' = FALSE
    /\ UNCHANGED <<inTx, inRedis, closed>>

CommandFails == "redis" \in down \/ Used = PoolSize

PingRedis ==
    /\ pc = "redis"
    /\ \/ Command /\ pc' = "info" /\ UNCHANGED <<process, report>>
       \/ CommandFails /\ Fatal

\* Without INFO the report ends here, with no figures of the pool.
Info ==
    /\ pc = "info"
    /\ \/ Command /\ pc' = "total" /\ alarms' \in SUBSET InfoAlarms
       \/ CommandFails /\ pc' = "reply" /\ UNCHANGED <<pool, alarms, aux>>
    /\ UNCHANGED <<process, total, active>>

\* PoolStats takes the two numbers one after the other.
ReadTotal ==
    /\ pc \in {"total", "total2"}
    /\ total' = Open
    /\ pc' = IF pc = "total" THEN "idle" ELSE "idle2"
    /\ dialled' = FALSE /\ closed' = 0
    /\ still' = (pc = "total" \/ still)
    /\ UNCHANGED <<process, pool, active, alarms>>

\* checkRedisHealth
ReadIdle ==
    /\ pc = "idle"
    /\ active' = Active(total, idle)
    /\ pc' = "total2"
    /\ UNCHANGED <<process, pool, total, alarms, aux>>

\* evaluateRedisStats, with a second PoolStats
Evaluate ==
    /\ pc = "idle2"
    /\ \E stale \in BOOLEAN :
          alarms' = alarms
              \cup (IF stale THEN {"stale"} ELSE {})
              \cup (IF idle > (7 * PoolSize) \div 10 THEN {"idle"} ELSE {})
              \cup (IF Utilized(total, idle) THEN {"utilization"} ELSE {})
    /\ pc' = "reply"
    /\ UNCHANGED <<process, pool, total, active, aux>>

Reply ==
    /\ pc = "reply"
    /\ pc' = "none"
    /\ total' = 0 /\ active' = None /\ alarms' = {}
    /\ dialled' = TRUE /\ closed' = 0 /\ still' = FALSE
    /\ UNCHANGED <<process, pool>>

-----------------------------------------------------------------------------

Fails == down' \in SUBSET Outage /\ UNCHANGED <<alive, pool, pc, report, aux>>

HealthStep ==
    \/ PingDb \/ PingDbFails \/ PingRedis \/ Info
    \/ ReadTotal \/ ReadIdle \/ Evaluate \/ Reply

Next ==
    /\ alive
    /\ \/ \E h \in Handler : BeginTx(h) \/ EndTx(h) \/ Take(h) \/ Put(h)
       \/ Start \/ HealthStep
       \/ Fails

Spec == Init /\ [][Next]_vars

\* The goroutine of Health runs on.  Nothing is assumed of the handlers: they
\* may keep every connection for ever.
FairSpec == Spec /\ WF_vars(alive /\ HealthStep)
=============================================================================
