---------------------------- MODULE ServingProps ----------------------------
(***************************************************************************)
(* What the processes of GH-Server owe to the requests they accept.        *)
(***************************************************************************)
EXTENDS Serving

\* The types of the variables.
TypeOK ==
    /\ level \in LogLevels
    /\ proc \in [Proc -> {"none", "boot", "left", "gone"} \cup Serves]
    /\ listening \in BOOLEAN
    /\ late \subseteq Child
    /\ req \in [Req -> Request]

\* gracefulShutdown and recover.New: a request that is cut off was not cut by
\* a shutdown within its five seconds, nor, if LOG_LEVEL can be parsed, by a
\* panic in a handler or in gracefulShutdown; siblings are killed only by a
\* Listen that has returned, and a child abandons its requests only when its
\* master has ended.
CutsAreExcused ==
    \A r \in Req : req[r].pc = "cut" =>
        /\ req[r].end # "drained"
        /\ req[r].end = "panic" => ~AppLog
        /\ req[r].end = "killed" => ~listening
        /\ req[r].end = "orphan" => Ended(Master)

\* ErrorHandler: whatever becomes of a request, its response tells success
\* from failure, by the status, by Access-Status or by the code of the body.
ClientCanTell ==
    \A r \in Req : req[r].pc = "answered" =>
        LET a == Answer(req[r].out)
        IN  (a.status = 200 /\ ~a.flag /\ a.code = 0)
                <=> (req[r].out.err = "nil" /\ req[r].out.status = 200)

\* zap.go:87-95, the access log swallows nothing up to LOG_LEVEL=error: every
\* answer sent has its line, but for those from 400 to 499 at "error".
AnswerIsLogged ==
    \A r \in Req :
        LET status == Answer(req[r].out).status
        IN  req[r].pc = "answered" /\ Enabled("error") =>
                (req[r].line = "none" <=> level = "error" /\ status \in 400..499)

\* main.go:41-46, a process that has taken a signal ends, although it goes on
\* taking requests until its listener is closed, and even if a handler of it
\* never returns.
DrainEnds == \A p \in Proc : proc[p] \in {"told", "stopping", "draining"} ~> Ended(p)

\* When the master is told to end, or ends in any other way, no process of
\* the service is left in the end, although nobody tells the children.
ServiceEnds ==
    proc[Master] \in {"told", "stopping", "draining", "left", "gone"}
        ~> [](\A p \in Proc : ~Alive(p))
=============================================================================
