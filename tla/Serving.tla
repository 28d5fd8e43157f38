------------------------------ MODULE Serving ------------------------------
(***************************************************************************)
(* The processes of GH-Server and what their life and death does to        *)
(* requests: start-up, prefork, graceful shutdown, the middleware chain    *)
(* with its recovery, the mapping of errors to responses, and the access   *)
(* log.                                                                    *)
(*                                                                         *)
(* Prefork makes every child a whole process that runs main() from its     *)
(* start.  The master has no server: its Listen forks the children and     *)
(* waits for them.  What happens to data is in Session and Registration;   *)
(* here a handler is one step with some outcome.                           *)
(***************************************************************************)
EXTENDS Integers, FiniteSets

CONSTANTS
    Master,         \* the first process
    Child,          \* slots for prefork children
    Req,            \* requests
    None,           \* no process
    LogLevels       \* the values of LOG_LEVEL considered

Proc == Child \cup {Master}

\* Severity as zapcore orders it; an empty LOG_LEVEL is "info".
Rank == [debug |-> -1, info |-> 0, warn |-> 1, error |-> 2,
         dpanic |-> 3, panic |-> 4, fatal |-> 5]
LevelNames == DOMAIN Rank \cup {"unreadable"}

ASSUME ServingAssumption ==
    /\ Master \notin Child
    /\ None \notin Proc
    /\ LogLevels \subseteq LevelNames

\* How a handler ends: the error it returns or its panic, the status it has
\* set, which is not 200 only when it passes on what an outside service
\* answered, and the XHR header of the request, which is read for an expired
\* token only.
Outcome ==
    [err : {"nil"}, status : {200, 404, 502}, xhr : {FALSE}]
        \cup [err : {"exception", "other", "panic"}, status : {200}, xhr : {FALSE}]
        \cup [err : {"expired"}, status : {200}, xhr : BOOLEAN]
NoOutcome == [err |-> "none", status |-> 0, xhr |-> FALSE]

Request == [pc : {"idle", "run", "ready", "answered", "cut"},
            at : Child \cup {None},
            out : Outcome \cup {NoOutcome},
            line : {"none", "info", "warn", "error"},
            end : {"none", "drained", "late", "signal", "orphan", "killed",
                   "panic", "fatal"}]
NoRequest == [pc |-> "idle", at |-> None, out |-> NoOutcome,
              line |-> "none", end |-> "none"]

VARIABLES
    level,      \* LOG_LEVEL, the same in every process
    proc,       \* proc[p]: "none" (not forked), "boot", "up", "told" (it has
                \* taken a signal), "stopping" (past stop(), the listener still
                \* open), "draining", "left" (exit status 0) or "gone" (any
                \* other end)
    listening,  \* the master's Listen has been called and has not returned
    late,       \* children whose five seconds of shutdown are over
    req         \* req[r]: where r is, at which child, its outcome, the level
                \* of its line in the access log, what cut it

vars == <<level, proc, listening, late, req>>

Init ==
    /\ level \in LogLevels
    /\ proc = [p \in Proc |-> IF p = Master THEN "boot" ELSE "none"]
    /\ listening = FALSE
    /\ late = {}
    /\ req = [r \in Req |-> NoRequest]

-----------------------------------------------------------------------------
(* Processes *)

\* A process in one of these states has its listener open, or still has
\* handlers to wait for.
Listens == {"up", "told", "stopping"}
Serves == Listens \cup {"draining"}

Alive(p) == proc[p] \in Serves \cup {"boot"}
Ended(p) == proc[p] \in {"left", "gone"}

\* Accepted and not answered.
Open(p) == {r \in Req : req[r].at = p /\ req[r].pc \in {"run", "ready"}}

Become(p, st) == proc' = [proc EXCEPT ![p] = st]

\* The processes of S end together, and with them the requests they have and
\* their timers.
End(S, cause, st) ==
    /\ late' = late \ S
    /\ proc' = [p \in Proc |-> IF p \in S THEN st ELSE proc[p]]
    /\ req' = [r \in Req |->
                 IF \E p \in S : r \in Open(p)
                 THEN [NoRequest EXCEPT !.pc = "cut", !.end = cause]
                 ELSE req[r]]

\* CustomLogger returns nil for a LOG_LEVEL it cannot parse, its error is
\* dropped, and the first use of zaplog.Zap panics.
AppLog == level # "unreadable"

\* New and RegisterRoutes, then Listen.  database.New panics when PostgreSQL
\* cannot be reached, Listen when the port is taken.
Boot(p) ==
    /\ proc[p] = "boot"
    /\ \/ /\ Become(p, "up")
          /\ listening' = (listening \/ p = Master)
          /\ UNCHANGED <<late, req>>
       \/ /\ End({p}, "panic", "gone")
          /\ UNCHANGED listening
    /\ UNCHANGED level

\* The master forks a child, also in place of one that ended.
Fork(c) ==
    /\ listening /\ Alive(Master)
    /\ ~Alive(c)
    /\ Become(c, "boot")
    /\ UNCHANGED <<level, listening, late, req>>

\* Or it gives up: Listen kills the other children and returns how the child
\* ended.  An error becomes a panic of the master; without one, main goes on
\* waiting for a signal, with nobody left to serve.
ListenReturns(c) ==
    /\ listening /\ Alive(Master)
    /\ Ended(c)
    /\ End({d \in Child : Alive(d)} \cup (IF proc[c] = "gone" THEN {Master} ELSE {}),
           "killed", "gone")
    /\ listening' = FALSE
    /\ UNCHANGED level

\* A child looks for its master twice a second.
Orphan(c) ==
    /\ Ended(Master)
    /\ proc[c] \in Serves
    /\ End({c}, "orphan", "gone")
    /\ UNCHANGED <<level, listening>>

-----------------------------------------------------------------------------
(* gracefulShutdown *)

\* SIGINT or SIGTERM, to one process or one after the other to all.  Before
\* NotifyContext and after stop() a signal has its default effect; in between
\* the first one is taken, and the others change nothing.
Interrupt(p) ==
    /\ \/ proc[p] = "up" /\ Become(p, "told") /\ UNCHANGED <<late, req>>
       \/ proc[p] \in {"boot", "stopping", "draining"} /\ End({p}, "signal", "gone")
    /\ UNCHANGED <<level, listening>>

\* The signal is logged, stop() takes the handling of signals back and the
\* five seconds start to run.
Stop(p) ==
    /\ proc[p] = "told"
    /\ \/ AppLog /\ Become(p, "stopping") /\ UNCHANGED <<late, req>>
       \/ ~AppLog /\ End({p}, "panic", "gone")
    /\ UNCHANGED <<level, listening>>

\* ShutdownWithContext closes the listener and starts to wait.  The master
\* has no listener, nor connections to wait for.
Close(p) ==
    /\ proc[p] = "stopping"
    /\ Become(p, "draining")
    /\ UNCHANGED <<level, listening, late, req>>

\* The context of ShutdownWithContext is over.  The timer runs in the master
\* too, where nothing waits for it.
Deadline(c) ==
    /\ proc[c] = "draining"
    /\ late' = late \cup {c}
    /\ UNCHANGED <<level, proc, listening, req>>

\* Mutant: done is sent without waiting for Shutdown.
ExitAtOnce(p) ==
    /\ proc[p] = "draining"
    /\ End({p}, IF p \in late THEN "late" ELSE "drained", "left")
    /\ UNCHANGED <<level, listening>>

\* Mutant: Shutdown instead of ShutdownWithContext, no deadline.
ExitDrained(p) ==
    /\ proc[p] = "draining"
    /\ Open(p) = {}
    /\ End({p}, "drained", "left")
    /\ UNCHANGED <<level, listening>>

\* Mutant: the master waits for children nobody has told to end.
ExitAfterChildren(p) ==
    /\ proc[p] = "draining"
    /\ Open(p) = {} \/ p \in late
    /\ p = Master => \A c \in Child : ~Alive(c)
    /\ End({p}, IF p \in late THEN "late" ELSE "drained", "left")
    /\ UNCHANGED <<level, listening>>

\* ShutdownWithContext returns when every connection is closed or the
\* deadline has passed; then done is sent and main returns.
Exit(p) ==
    /\ proc[p] = "draining"
    /\ Open(p) = {} \/ p \in late
    /\ End({p}, IF p \in late THEN "late" ELSE "drained", "left")
    /\ UNCHANGED <<level, listening>>

-----------------------------------------------------------------------------
(* The response and its line in the access log *)

\* recover.New: a panic becomes ErrInternalServerError.
PanicHandler(err) == IF err = "panic" THEN "exception" ELSE err

\* Mutant: an expired token is only announced to XHR clients.
ErrorHandlerXhrOnly(err, xhr) ==
    [status |-> IF err = "expired" /\ xhr THEN 401
                ELSE IF err \in {"expired", "exception"} THEN 200 ELSE 500,
     flag |-> FALSE,
     code |-> IF err = "expired" THEN 0 ELSE 1]

\* flag is the Access-Status header; code stands for the field of the JSON
\* body, 0 for Success and that of the exception otherwise.
ErrorHandler(err, xhr) ==
    [status |-> IF err = "expired" /\ xhr THEN 401
                ELSE IF err \in {"expired", "exception"} THEN 200 ELSE 500,
     flag |-> err = "expired" /\ ~xhr,
     code |-> IF err = "expired" THEN 0 ELSE 1]

Answer(out) ==
    IF out.err = "nil" THEN [status |-> out.status, flag |-> FALSE, code |-> 0]
    ELSE ErrorHandler(PanicHandler(out.err), out.xhr)

\* zaplog.New falls back to info where CustomLogger fails.
Enabled(l) == Rank[l] >= (IF AppLog THEN Rank[level] ELSE Rank["info"])

\* Levels of ConfigDefault, which New is given no config to replace.
DefaultLevels == [server |-> "error", client |-> "warn", success |-> "info"]

\* Mutant: Levels[2] becomes LOG_LEVEL itself.
SuccessLevelIsLogLevel == IF AppLog THEN level ELSE DefaultLevels.success

\* Mutant: Levels[2] is left alone.
SuccessLevelFixed == DefaultLevels.success

\* Levels[2] follows a higher LOG_LEVEL; Levels[1] does not.
SuccessLevel ==
    IF ~Enabled("info") /\ Enabled("warn") THEN "warn"
    ELSE IF ~Enabled("warn") /\ Enabled("error") THEN "error"
    ELSE DefaultLevels.success

\* The line of the middleware, "none" when Check returns nil.
Line(status) ==
    LET l == IF status >= 500 THEN DefaultLevels.server
             ELSE IF status >= 400 THEN DefaultLevels.client ELSE SuccessLevel
    IN  IF Enabled(l) THEN l ELSE "none"

-----------------------------------------------------------------------------
(* Requests *)

\* The kernel hands a connection to any process with an open listener, one
\* that has been told to end included.
Accept(r, c) ==
    /\ req[r].pc = "idle"
    /\ proc[c] \in Listens
    /\ req' = [req EXCEPT ![r] = [@ EXCEPT !.pc = "run", !.at = c]]
    /\ UNCHANGED <<level, proc, listening, late>>

\* The handler ends, ErrorHandler makes the response and the line is written.
\* PanicHandler uses the application log, and a handler may: without one that
\* is a panic outside of every recovery.
Handle(r) ==
    /\ req[r].pc = "run"
    /\ \/ /\ \E out \in Outcome :
                /\ AppLog \/ out.err # "panic"
                /\ req' = [req EXCEPT ![r] =
                             [@ EXCEPT !.pc = "ready", !.out = out,
                                       !.line = Line(Answer(out).status)]]
          /\ UNCHANGED <<proc, late>>
       \/ ~AppLog /\ End({req[r].at}, "panic", "gone")
    /\ UNCHANGED <<level, listening>>

\* Health finds a store unreachable and calls zap's Fatal.
Fatal(r) ==
    /\ req[r].pc = "run"
    /\ End({req[r].at}, IF AppLog THEN "fatal" ELSE "panic", "gone")
    /\ UNCHANGED <<level, listening>>

Deliver(r) ==
    /\ req[r].pc = "ready"
    /\ req' = [req EXCEPT ![r] = [@ EXCEPT !.pc = "answered", !.at = None]]
    /\ UNCHANGED <<level, proc, listening, late>>

-----------------------------------------------------------------------------

Next ==
    \/ \E p \in Proc : \/ Boot(p) \/ Interrupt(p)
                      \/ Stop(p) \/ Close(p) \/ Exit(p)
    \/ \E c \in Child : Fork(c) \/ ListenReturns(c) \/ Orphan(c) \/ Deadline(c)
    \/ \E r \in Req : \/ \E c \in Child : Accept(r, c)
                      \/ Handle(r) \/ Fatal(r) \/ Deliver(r)

Spec == Init /\ [][Next]_vars

\* Goroutines that wait for nobody run on and timers fire.  Handlers are not
\* fair: the client of the proxy has no timeout.  Nor are signals and what
\* the framework does about a child that ended.
Fairness ==
    /\ \A p \in Proc : /\ WF_vars(Boot(p)) /\ WF_vars(Exit(p))
                      /\ WF_vars(Stop(p)) /\ WF_vars(Close(p))
    /\ \A c \in Child : WF_vars(Deadline(c)) /\ WF_vars(Orphan(c))

FairSpec == Spec /\ Fairness
=============================================================================
