---------------------------- MODULE ServingProofs ----------------------------
(***************************************************************************)
(* Proofs of the safety properties of Serving, for any number of children  *)
(* and requests.                                                           *)
(***************************************************************************)
EXTENDS ServingProps, TLAPS

-----------------------------------------------------------------------------
(* Lemmas about the operators *)

\* Every outcome has a response with one of five statuses.
LEMMA StatusOfAnswer ==
    ASSUME NEW out \in Outcome
    PROVE  Answer(out).status \in {200, 401, 404, 500, 502}
<1>1. CASE out.err = "nil"
  <2>1. out.status \in {200, 404, 502}
    BY DEF Outcome
  <2>2. QED BY <1>1, <2>1 DEF Answer
<1>2. CASE out.err # "nil"
  BY <1>2 DEF Answer, ErrorHandler
<1>3. QED BY <1>1, <1>2

\* ErrorHandler: only a success looks like one.
LEMMA AnswerTells ==
    ASSUME NEW out \in Outcome
    PROVE  LET a == Answer(out)
           IN  (a.status = 200 /\ ~a.flag /\ a.code = 0)
                   <=> (out.err = "nil" /\ out.status = 200)
<1>1. CASE out.err = "nil"
  BY <1>1 DEF Answer, Outcome
<1>2. CASE out.err = "expired"
  <2>1. Answer(out) = ErrorHandler("expired", out.xhr)
    BY <1>2 DEF Answer, PanicHandler
  <2>2. CASE out.xhr
    BY <1>2, <2>1, <2>2 DEF ErrorHandler
  <2>3. CASE ~out.xhr
    <3> DEFINE flag == "expired" = "expired" /\ ~out.xhr
    <3>1. Answer(out) = [status |-> IF "expired" = "expired" /\ out.xhr THEN 401
                           ELSE IF "expired" \in {"expired", "exception"} THEN 200
                           ELSE 500,
                         flag |-> flag,
                         code |-> IF "expired" = "expired" THEN 0 ELSE 1]
      BY <2>1, Zenon DEF ErrorHandler
    <3>2. flag
      BY <2>3
    <3> HIDE DEF flag
    <3>3. Answer(out).flag
      BY <3>1, <3>2
    <3>4. QED BY <1>2, <3>3
  <2>4. QED BY <2>2, <2>3
<1>3. CASE out.err \in {"exception", "other", "panic"}
  BY <1>3 DEF Answer, ErrorHandler, PanicHandler, Outcome
<1>4. QED BY <1>1, <1>2, <1>3 DEF Outcome

\* Line gives one of the levels of the access log.
LEMMA LineType ==
    ASSUME NEW status
    PROVE  Line(status) \in {"none", "info", "warn", "error"}
BY DEF Line, SuccessLevel, DefaultLevels

\* zap.go:87-95 and 157-177: what Check lets through.
LEMMA LineOfStatus ==
    ASSUME level \in LevelNames, Enabled("error"),
           NEW status \in {200, 401, 404, 500, 502}
    PROVE  Line(status) = "none" <=> level = "error" /\ status \in 400..499
<1>1. CASE status \in {500, 502}
  BY <1>1 DEF Line, DefaultLevels
<1>2. CASE status \in {401, 404}
  BY <1>2 DEF Line, DefaultLevels, Enabled, AppLog, LevelNames, Rank
<1>3. CASE status = 200
  BY <1>3 DEF Line, SuccessLevel, DefaultLevels, Enabled, AppLog, LevelNames, Rank
<1>4. QED BY <1>1, <1>2, <1>3

-----------------------------------------------------------------------------
(* The inductive invariant *)

\* Only a process that serves or drains has requests.
OpenNeedsServer ==
    \A r \in Req : req[r].pc \in {"run", "ready"} =>
        req[r].at \in Child /\ proc[req[r].at] \in Serves

\* A response prepared is that of an outcome, with its line.
ResponseMade ==
    \A r \in Req : req[r].pc \in {"ready", "answered"} =>
        req[r].out \in Outcome /\ req[r].line = Line(Answer(req[r].out).status)

\* Before the master listens nothing has been killed.
NothingBeforeListen ==
    proc[Master] = "boot" => ~listening /\ \A r \in Req : req[r].end # "killed"

ServingInv ==
    TypeOK /\ OpenNeedsServer /\ ResponseMade /\ NothingBeforeListen /\ CutsAreExcused

\* The end of processes keeps the invariant, if the cause excuses the cuts.
LEMMA EndIsSafe ==
    ASSUME ServingInv, NEW S \in SUBSET Proc,
           NEW cause \in {"drained", "late", "signal", "orphan", "killed", "panic", "fatal"},
           NEW st \in {"left", "gone"}, End(S, cause, st),
           UNCHANGED level, listening' \in BOOLEAN,
           listening' => listening,
           cause = "drained" => \A p \in S : Open(p) = {},
           cause = "panic" => ~AppLog \/ \A p \in S : Open(p) = {},
           cause = "killed" => ~listening' /\ proc[Master] # "boot",
           cause = "orphan" => Ended(Master) /\ Master \notin S
    PROVE  ServingInv'
<1> USE DEF ServingInv, TypeOK
<1>a. [NoRequest EXCEPT !.pc = "cut", !.end = cause] \in Request
  BY DEF NoRequest, Request
<1>b. \A r \in Req :
        \/ req'[r] = req[r] /\ ~\E p \in S : r \in Open(p)
        \/ /\ \E p \in S : r \in Open(p)
           /\ req'[r] = [NoRequest EXCEPT !.pc = "cut", !.end = cause]
  BY DEF End
<1>c. req' \in [Req -> Request]
  BY <1>a DEF End
<1>d. proc' \in [Proc -> {"none", "boot", "left", "gone"} \cup Serves]
  BY DEF End
<1>e. (\A p \in S : proc'[p] = st) /\ (\A p \in Proc \ S : proc'[p] = proc[p])
  BY DEF End
<1>1. OpenNeedsServer'
  <2> SUFFICES ASSUME NEW r \in Req, req'[r].pc \in {"run", "ready"}
               PROVE  req'[r].at \in Child /\ proc'[req'[r].at] \in Serves
    BY DEF OpenNeedsServer
  <2>1. req'[r] = req[r] /\ ~\E p \in S : r \in Open(p)
    BY <1>b DEF NoRequest
  <2>2. req[r].at \notin S
    BY <2>1 DEF Open
  <2>3. QED BY <1>e, <2>1, <2>2 DEF OpenNeedsServer, Proc
<1>2. TypeOK'
  BY <1>c, <1>d DEF End
<1>3. ResponseMade'
  <2> SUFFICES ASSUME NEW r \in Req, req'[r].pc \in {"ready", "answered"}
               PROVE  /\ req'[r].out \in Outcome
                      /\ req'[r].line = Line(Answer(req[r].out).status)'
    BY DEF ResponseMade
  <2>1. req'[r] = req[r]
    BY <1>b DEF NoRequest
  <2>2. Line(Answer(req[r].out).status)' = Line(Answer(req[r].out).status)
    BY <2>1 DEF Line, SuccessLevel, Enabled, AppLog
  <2>3. QED BY <2>1, <2>2 DEF ResponseMade
<1>4. Master \in Proc
  BY DEF Proc
<1>5. Ended(Master) => Ended(Master)'
  BY <1>e, <1>4 DEF Ended
<1>6. NothingBeforeListen'
  <2> SUFFICES ASSUME proc'[Master] = "boot"
               PROVE  ~listening' /\ \A r \in Req : req'[r].end # "killed"
    BY DEF NothingBeforeListen
  <2>1. proc[Master] = "boot"
    BY <1>e, <1>4
  <2>2. QED BY <1>b, <2>1 DEF NothingBeforeListen, NoRequest
<1>7. CutsAreExcused'
  <2> SUFFICES ASSUME NEW r \in Req, req'[r].pc = "cut"
               PROVE  /\ req'[r].end # "drained"
                      /\ req'[r].end = "panic" => ~AppLog'
                      /\ req'[r].end = "killed" => ~listening'
                      /\ req'[r].end = "orphan" => Ended(Master)'
    BY DEF CutsAreExcused
  <2>1. AppLog' <=> AppLog
    BY DEF AppLog
  <2>2. CASE req'[r] = req[r]
    BY <1>5, <2>1, <2>2 DEF CutsAreExcused
  <2>3. CASE /\ \E p \in S : r \in Open(p)
             /\ req'[r] = [NoRequest EXCEPT !.pc = "cut", !.end = cause]
    <3>1. req'[r].end = cause
      BY <2>3 DEF NoRequest
    <3>2. QED BY <1>5, <2>1, <2>3, <3>1
  <2>4. QED BY <1>b, <2>2, <2>3
<1>8. QED BY <1>1, <1>2, <1>3, <1>6, <1>7

\* A request left alone keeps its response and the level of its line.
LEMMA LineKeeps ==
    ASSUME UNCHANGED level, NEW r \in Req, req'[r] = req[r]
    PROVE  Line(Answer(req[r].out).status)' = Line(Answer(req[r].out).status)
BY DEF Line, SuccessLevel, Enabled, AppLog

LEMMA ServingInit == Init => ServingInv
<1> SUFFICES ASSUME Init PROVE ServingInv
  OBVIOUS
<1> USE ServingAssumption DEF Init
<1>1. NoRequest \in Request
  BY DEF NoRequest, Request
<1>2. TypeOK
  BY <1>1 DEF TypeOK, Proc
<1>3. OpenNeedsServer /\ ResponseMade /\ NothingBeforeListen /\ CutsAreExcused
  BY DEF OpenNeedsServer, ResponseMade, NothingBeforeListen, CutsAreExcused, NoRequest
<1>4. QED BY <1>2, <1>3 DEF ServingInv

-----------------------------------------------------------------------------
(* One lemma per action *)

\* A process that changes its state and ends nothing.
LEMMA BecomeIsSafe ==
    ASSUME ServingInv, NEW p \in Proc, NEW st \in {"boot"} \cup Serves,
           Become(p, st), UNCHANGED <<level, req>>, late' \subseteq Child,
           p = Master => ~Ended(p),
           st = "boot" => p \in Child /\ ~Alive(p),
           \/ listening' = listening
           \/ listening' = TRUE /\ p = Master /\ proc[p] = "boot" /\ st = "up"
    PROVE  ServingInv'
<1> USE DEF ServingInv, TypeOK
<1>1. /\ proc' \in [Proc -> {"none", "boot", "left", "gone"} \cup Serves]
      /\ proc'[p] = st
      /\ \A q \in Proc \ {p} : proc'[q] = proc[q]
  BY DEF Become
<1>2. TypeOK'
  BY <1>1
<1>3. Master \in Proc /\ Master \notin Child
  BY ServingAssumption DEF Proc
<1>4. OpenNeedsServer'
  BY <1>1 DEF OpenNeedsServer, Proc, Alive, Serves, Listens
<1>5. ResponseMade'
  BY DEF ResponseMade, Line, SuccessLevel, Enabled, AppLog
<1>6. NothingBeforeListen'
  BY <1>1, <1>3 DEF NothingBeforeListen, Serves, Listens
<1>7. CutsAreExcused'
  <2>1. Ended(Master) => Ended(Master)'
    BY <1>1, <1>3 DEF Ended
  <2>2. listening' => \A r \in Req : req[r].pc = "cut" => req[r].end # "killed"
    BY DEF NothingBeforeListen, CutsAreExcused
  <2>3. AppLog' <=> AppLog
    BY DEF AppLog
  <2>4. QED BY <2>1, <2>2, <2>3 DEF CutsAreExcused
<1>8. QED BY <1>2, <1>4, <1>5, <1>6, <1>7

\* A step of one request.
LEMMA RequestIsSafe ==
    ASSUME ServingInv, NEW r \in Req, NEW q \in Request,
           UNCHANGED <<level, proc, listening>>, late' \subseteq Child,
           req' = [req EXCEPT ![r] = q],
           q.pc # "cut", q.end = req[r].end,
           q.pc \in {"run", "ready"} =>
               q.at \in Child /\ proc[q.at] \in Serves,
           q.pc \in {"ready", "answered"} =>
               q.out \in Outcome /\ q.line = Line(Answer(q.out).status)
    PROVE  ServingInv'
<1> USE DEF ServingInv, TypeOK
<1>1. /\ req' \in [Req -> Request]
      /\ req'[r] = q
      /\ \A s \in Req \ {r} : req'[s] = req[s]
  OBVIOUS
<1>2. TypeOK'
  BY <1>1
<1>3. OpenNeedsServer'
  BY <1>1 DEF OpenNeedsServer
<1>4. ResponseMade'
  <2> SUFFICES ASSUME NEW s \in Req, req'[s].pc \in {"ready", "answered"}
               PROVE  /\ req'[s].out \in Outcome
                      /\ req'[s].line = Line(Answer(req[s].out).status)'
    BY DEF ResponseMade
  <2>1. CASE s = r
    <3>1. Line(Answer(req[s].out).status)' = Line(Answer(q.out).status)
      BY <1>1, <2>1 DEF Line, SuccessLevel, Enabled, AppLog
    <3>2. QED BY <1>1, <2>1, <3>1
  <2>2. CASE s # r
    <3>1. req'[s] = req[s]
      BY <1>1, <2>2
    <3>2. QED BY <3>1, LineKeeps DEF ResponseMade
  <2>3. QED BY <2>1, <2>2
<1>5. NothingBeforeListen'
  BY <1>1 DEF NothingBeforeListen
<1>6. CutsAreExcused'
  <2>1. (AppLog' <=> AppLog) /\ (Ended(Master)' <=> Ended(Master))
    BY DEF AppLog, Ended
  <2>2. QED BY <1>1, <2>1 DEF CutsAreExcused
<1>7. QED BY <1>2, <1>3, <1>4, <1>5, <1>6

\* Every step keeps the invariant.
LEMMA ServingStep == ServingInv /\ [Next]_vars => ServingInv'
<1> SUFFICES ASSUME ServingInv, [Next]_vars PROVE ServingInv'
  OBVIOUS
<1> USE DEF ServingInv, TypeOK
<1>0. Child \subseteq Proc /\ Master \in Proc /\ Master \notin Child
  BY ServingAssumption DEF Proc
<1>1. ASSUME NEW p \in Proc, Boot(p) PROVE ServingInv'
  <2>1. CASE /\ Become(p, "up")
             /\ listening' = (listening \/ p = Master)
             /\ UNCHANGED <<late, req>>
    <3>1. \/ listening' = listening
          \/ listening' = TRUE /\ p = Master /\ proc[p] = "boot"
      BY <1>1, <2>1 DEF Boot
    <3>2. ~Ended(p) /\ UNCHANGED <<level, req>> /\ late' \subseteq Child
      BY <1>1, <2>1 DEF Boot, Ended
    <3>3. QED BY <2>1, <3>1, <3>2, BecomeIsSafe DEF Serves, Listens
  <2>2. CASE End({p}, "panic", "gone") /\ UNCHANGED listening
    <3>1. Open(p) = {}
      BY <1>1 DEF Boot, Open, OpenNeedsServer, Serves, Listens
    <3>2. UNCHANGED level
      BY <1>1 DEF Boot
    <3>3. QED BY <2>2, <3>1, <3>2, EndIsSafe
  <2>3. QED BY <1>1, <2>1, <2>2 DEF Boot
<1>2. ASSUME NEW c \in Child, Fork(c) PROVE ServingInv'
  <2>1. Become(c, "boot") /\ ~Alive(c) /\ UNCHANGED <<level, listening, req>>
    BY <1>2 DEF Fork
  <2>2. late' \subseteq Child
    BY <1>2 DEF Fork
  <2>3. QED BY <1>0, <2>1, <2>2, BecomeIsSafe
<1>3. ASSUME NEW c \in Child, ListenReturns(c) PROVE ServingInv'
  <2> DEFINE S == {d \in Child : Alive(d)} \cup (IF proc[c] = "gone" THEN {Master} ELSE {})
  <2>1. S \in SUBSET Proc
    BY <1>0
  <2>2. End(S, "killed", "gone") /\ listening' = FALSE /\ UNCHANGED level
    BY <1>3 DEF ListenReturns
  <2>3. proc[Master] # "boot"
    BY <1>3 DEF ListenReturns, NothingBeforeListen
  <2> HIDE DEF S
  <2>4. QED BY <2>1, <2>2, <2>3, EndIsSafe
<1>4. ASSUME NEW c \in Child, Orphan(c) PROVE ServingInv'
  <2>1. End({c}, "orphan", "gone") /\ UNCHANGED <<level, listening>> /\ Ended(Master)
    BY <1>4 DEF Orphan
  <2>2. QED BY <1>0, <2>1, EndIsSafe
<1>5. ASSUME NEW p \in Proc, Interrupt(p) PROVE ServingInv'
  <2>0. UNCHANGED <<level, listening>>
    BY <1>5 DEF Interrupt
  <2>1. CASE proc[p] = "up" /\ Become(p, "told") /\ UNCHANGED <<late, req>>
    BY <2>0, <2>1, BecomeIsSafe DEF Ended, Serves, Listens
  <2>2. CASE End({p}, "signal", "gone")
    BY <2>0, <2>2, EndIsSafe
  <2>3. QED BY <1>5, <2>1, <2>2 DEF Interrupt
<1>6. ASSUME NEW p \in Proc, Stop(p) PROVE ServingInv'
  <2>0. proc[p] = "told" /\ UNCHANGED <<level, listening>>
    BY <1>6 DEF Stop
  <2>1. CASE Become(p, "stopping") /\ UNCHANGED <<late, req>>
    BY <2>0, <2>1, BecomeIsSafe DEF Ended, Serves, Listens
  <2>2. CASE ~AppLog /\ End({p}, "panic", "gone")
    BY <2>0, <2>2, EndIsSafe
  <2>3. QED BY <1>6, <2>1, <2>2 DEF Stop
<1>7. ASSUME NEW p \in Proc, Close(p) PROVE ServingInv'
  BY <1>7, BecomeIsSafe DEF Close, Ended, Serves, Listens
<1>8. ASSUME NEW c \in Child, Deadline(c) PROVE ServingInv'
  <2>1. UNCHANGED <<level, proc, listening, req>> /\ late' \subseteq Child
    BY <1>8 DEF Deadline
  <2>2. QED BY <2>1 DEF OpenNeedsServer, ResponseMade, NothingBeforeListen, CutsAreExcused,
                        Line, SuccessLevel, Enabled, AppLog, Ended
<1>9. ASSUME NEW p \in Proc, Exit(p) PROVE ServingInv'
  <2>1. End({p}, IF p \in late THEN "late" ELSE "drained", "left")
    BY <1>9 DEF Exit
  <2>2. p \notin late => Open(p) = {}
    BY <1>9 DEF Exit
  <2>3. UNCHANGED <<level, listening>>
    BY <1>9 DEF Exit
  <2>4. CASE p \in late
    BY <2>1, <2>3, <2>4, EndIsSafe
  <2>5. CASE p \notin late
    BY <2>1, <2>2, <2>3, <2>5, EndIsSafe
  <2>6. QED BY <2>4, <2>5
<1>10. ASSUME NEW r \in Req, NEW c \in Child, Accept(r, c) PROVE ServingInv'
  <2> DEFINE q == [req[r] EXCEPT !.pc = "run", !.at = c]
  <2>1. q \in Request /\ q.pc = "run" /\ q.at = c /\ q.end = req[r].end
    BY DEF Request
  <2>2. /\ req' = [req EXCEPT ![r] = q]
        /\ UNCHANGED <<level, proc, listening, late>>
        /\ proc[c] \in Listens
    BY <1>10 DEF Accept
  <2> HIDE DEF q
  <2>3. QED BY <2>1, <2>2, RequestIsSafe DEF Serves
<1>11. ASSUME NEW r \in Req, Handle(r) PROVE ServingInv'
  <2>2. UNCHANGED <<level, listening>> /\ req[r].pc = "run"
    BY <1>11 DEF Handle
  <2>3. req[r].at \in Child /\ proc[req[r].at] \in Serves
    BY <2>2 DEF OpenNeedsServer
  <2>4. CASE ~AppLog /\ End({req[r].at}, "panic", "gone")
    BY <1>0, <2>2, <2>3, <2>4, EndIsSafe
  <2>5. ASSUME NEW out \in Outcome,
               req' = [req EXCEPT ![r] =
                          [@ EXCEPT !.pc = "ready", !.out = out,
                                    !.line = Line(Answer(out).status)]],
               UNCHANGED <<proc, late>>
        PROVE  ServingInv'
    <3> DEFINE l == Line(Answer(out).status)
               q == [req[r] EXCEPT !.pc = "ready", !.out = out, !.line = l]
    <3>1. l \in {"none", "info", "warn", "error"}
      BY LineType
    <3>2. req' = [req EXCEPT ![r] = q]
      BY <2>5
    <3> HIDE DEF l
    <3>3. /\ q \in Request /\ q.pc = "ready" /\ q.at = req[r].at
          /\ q.end = req[r].end /\ q.out = out /\ q.line = l
      BY <3>1 DEF Request
    <3>4. q.line = Line(Answer(q.out).status)
      BY <3>3 DEF l
    <3> HIDE DEF q
    <3>5. QED BY <2>2, <2>3, <2>5, <3>2, <3>3, <3>4, RequestIsSafe
  <2>6. QED BY <1>11, <2>4, <2>5 DEF Handle
<1>12. ASSUME NEW r \in Req, Fatal(r) PROVE ServingInv'
  <2>1. End({req[r].at}, IF AppLog THEN "fatal" ELSE "panic", "gone")
    BY <1>12 DEF Fatal
  <2>2. UNCHANGED <<level, listening>> /\ req[r].at \in Child
    BY <1>12 DEF Fatal, OpenNeedsServer
  <2>3. CASE AppLog
    BY <1>0, <2>1, <2>2, <2>3, EndIsSafe
  <2>4. CASE ~AppLog
    BY <1>0, <2>1, <2>2, <2>4, EndIsSafe
  <2>5. QED BY <2>3, <2>4
<1>13. ASSUME NEW r \in Req, Deliver(r) PROVE ServingInv'
  <2> DEFINE q == [req[r] EXCEPT !.pc = "answered", !.at = None]
  <2>1. /\ q \in Request /\ q.pc = "answered" /\ q.end = req[r].end
        /\ q.out = req[r].out /\ q.line = req[r].line
    BY DEF Request
  <2>2. /\ req' = [req EXCEPT ![r] = q]
        /\ UNCHANGED <<level, proc, listening, late>>
        /\ req[r].pc = "ready"
    BY <1>13 DEF Deliver
  <2> HIDE DEF q
  <2>3. q.out \in Outcome /\ q.line = Line(Answer(q.out).status)
    BY <2>1, <2>2 DEF ResponseMade
  <2>4. QED BY <2>1, <2>2, <2>3, RequestIsSafe
<1>14. ASSUME UNCHANGED vars PROVE ServingInv'
  BY <1>14 DEF OpenNeedsServer, ResponseMade, NothingBeforeListen, CutsAreExcused,
               Line, SuccessLevel, Enabled, AppLog, Ended, vars
<1>15. QED
  BY <1>1, <1>2, <1>3, <1>4, <1>5, <1>6, <1>7, <1>8, <1>9, <1>10, <1>11, <1>12,
     <1>13, <1>14 DEF Next

-----------------------------------------------------------------------------
(* The theorems *)

LEMMA ServingInvariant == Spec => []ServingInv
BY ServingInit, ServingStep, PTL DEF Spec

\* The variables keep their types, for any number of children and requests.
THEOREM TypeCorrect == Spec => []TypeOK
<1>1. ServingInv => TypeOK
  BY DEF ServingInv
<1>2. QED BY <1>1, ServingInvariant, PTL

\* main.go:23-51, router.go:45: no request is cut off by a shutdown in time,
\* by a panic in a handler, or by a fate of processes other than those listed.
THEOREM CutsExcused == Spec => []CutsAreExcused
<1>1. ServingInv => CutsAreExcused
  BY DEF ServingInv
<1>2. QED BY <1>1, ServingInvariant, PTL

\* middleware/error.go: no response that looks like a success is sent for
\* anything but a success.
THEOREM ClientsCanTell == Spec => []ClientCanTell
<1>1. ServingInv => ClientCanTell
  BY AnswerTells DEF ServingInv, ResponseMade, ClientCanTell
<1>2. QED BY <1>1, ServingInvariant, PTL

\* zap.go:87-95: with LOG_LEVEL at most "error" the access log loses only what
\* AnswerIsLogged names.
THEOREM AnswersAreLogged == Spec => []AnswerIsLogged
<1>1. ServingInv => AnswerIsLogged
  <2> SUFFICES ASSUME ServingInv, NEW r \in Req, req[r].pc = "answered", Enabled("error")
               PROVE  req[r].line = "none" <=>
                        level = "error" /\ Answer(req[r].out).status \in 400..499
    BY DEF AnswerIsLogged
  <2>1. req[r].out \in Outcome /\ req[r].line = Line(Answer(req[r].out).status)
    BY DEF ServingInv, ResponseMade
  <2>2. Answer(req[r].out).status \in {200, 401, 404, 500, 502}
    BY <2>1, StatusOfAnswer
  <2>3. level \in LevelNames
    BY ServingAssumption DEF ServingInv, TypeOK
  <2>4. QED BY <2>1, <2>2, <2>3, LineOfStatus
<1>2. QED BY <1>1, ServingInvariant, PTL

=============================================================================
