----------------------------- MODULE HealthProps -----------------------------
(***************************************************************************)
(* What a health report must be good for (first part), and what comments   *)
(* and messages of the code say that does not hold (second part).          *)
(***************************************************************************)
EXTENDS Health

\* The types of the variables; the pool is never larger than its size.
TypeOK ==
    /\ alive \in BOOLEAN
    /\ down \subseteq Outage
    /\ inTx \subseteq Handler
    /\ inRedis \subseteq Handler
    /\ idle \in 0..PoolSize
    /\ pc \in PCs
    /\ total \in 0..PoolSize
    /\ active \in (0..(Word - 1)) \cup {None}
    /\ alarms \subseteq Alarms
    /\ dialled \in BOOLEAN
    /\ closed \in 0..PoolSize
    /\ still \in BOOLEAN

\* redis_active_connections is right although TotalConns and IdleConns are
\* read at different moments, with connections taken and returned in between:
\* it is the number in use when IdleConns was read, plus those closed since
\* the first read.  Only a connection opened in between spoils it.
ActiveIsRight ==
    [][pc = "idle" /\ pc' = "total2" /\ ~dialled => active' = Used + closed]_vars

\* The figure and the message of one report rest on two PoolStats.  While no
\* connection moves between them the message reports high utilization exactly
\* if the figure says so, whatever INFO and the other conditions found.
ReportAgrees ==
    pc = "reply" /\ still
        => (Message(alarms) = "utilization" <=> 10 * active > 9 * PoolSize)

\* A health request ends, with an answer or with the process, even if the
\* handlers never give a connection back.
HealthEnds == pc # "none" ~> pc = "none" \/ ~alive

-----------------------------------------------------------------------------
(* Statements of the repository that the code does not keep *)

\* internal/database/database.go:205-207, math.Max keeps the number of active
\* connections from underflowing: it never exceeds the size of the pool.
NoUnderflow == active # None => active \in 0..PoolSize
=============================================================================
