# Formal specification of GH-Server

GH-Server is a Go web service (Fiber v3, prefork) with accounts in PostgreSQL
(GORM) and short-lived state in Redis (go-redis). This directory holds TLA+
models of the parts of it where requests meet, the TLC configurations that
check them, and TLAPS proofs of what matters most for every value of the
parameters.

    tlc -workers 2 -config MCSession.cfg MCSession
    tlapm SessionProofs.tla

## 1. The system

| Component | Source | State | Operations |
|---|---|---|---|
| Session core | `internal/database/UserService.go` (Login, Logout, UploadAvatar, GetUserDetails, CheckLogin), `internal/middleware/jwt.go`, `pkg/utils/jwt.go` | column `status`, row locks and pooled connections in PostgreSQL; keys `refresh:<uuid>`, set `blacklist:<app>` in Redis; tokens held by clients | login, logout, refresh, tick (lock an account), avatar, details; the JWT and role middleware |
| Registration | `UserService.go` (SendVerifyCode, Register), `pkg/utils/mail_sender.go`, `bcrypt.go` | rows of `users`; keys `VerifyCode:<email>`; mails | send a code, register |
| Health report | `internal/database/database.go` (Health and its helpers) | the two connection pools; the report being built | GET /health |
| Start-up, prefork, shutdown | `main.go`, `internal/server/server.go`, `database.New` | processes, the `done` channel | start, signal, shutdown |
| Response mapping | `internal/middleware/error.go`, `pkg/exceptions`, `pkg/response`, `recover.New` in `router.go` | none | error or panic to status, code and headers |
| Access and application log | `pkg/zaplog/zap.go`, `log.go` | their levels, the log file | log an answer, log a message, rotate |
| LoggerConfig | `pkg/zaplog/logger.go` | slices of core configurations, zap loggers | NewLogger, WithContext, SetOutput, SetLevel, Log, Logf, Logw |
| Proxy | `internal/proxy` | none (the framework's response cache) | imagery, geocoder, location, route |
| GeoServer client | `internal/geoserver` | remote workspace and datastore | start-up (called nowhere) |
| Validation | `pkg/utils/structValidator.go`, `pkg/request` | none | validate a body |

Every request runs in a goroutine of its own, in one of several processes. No
memory is shared between requests (`instance` is written once at start-up);
everything they share is in PostgreSQL and Redis, and their fate: a process
that ends takes its requests with it. So one remote call is one
atomic step, and between two calls anything may happen. A SQL transaction
covers the SQL statements only: Redis commands given inside it stand even when
it rolls back, and they run before the COMMIT. That is the source of most of
what is hard here:

* *Interleaving*: a rotation is GET, DEL, SETNX; a login is SELECT, SISMEMBER,
  EXISTS, UPDATE, SETNX, COMMIT; a registration SELECT, GET, DEL, INSERT, COMMIT.
* *Partial failure, crash, repetition*: any call can fail with or without
  effect, go-redis repeats a command whose answer was lost, a process may end
  between two calls (shutdown deadline, zap's Fatal).
* *Resources*: row locks and pooled connections are held while Redis is called.
* *Time*: tokens and keys expire, and two tokens of one second are equal.
* *Processes*: a master that serves nothing, children that each run all of
  `main`, signals to any of them, a shutdown that waits five seconds for
  handlers some of which have no timeout.
* *Sharing of configuration*: `LoggerConfigDefault` lends its slice to every
  configuration made without one.

What makes each component correct: the table and Redis agree about who is
logged in, a session is not lost to others' requests nor superseded
tokens put back, a locked account drains, nothing is leaked and every request is answered
(session); only mailed codes open accounts, addresses and names stay unique,
success means committed (registration); the report says what is the case, and
ends (health); a request is cut off only for a reason, its client can tell
success from failure and the access log has a line for it, and a shutdown ends
(processes); a logger does what it was told (loggers). `PROJECT.json` lists the hazards line by line.

## 2. The modules

| Module | Content |
|---|---|
| `Session` | the session core; one action per remote call |
| `SessionProps` | its properties, and the statements of the repository it does not keep |
| `MCSession` | instances for TLC |
| `SessionLife` | abstract specification: the stages an account goes through |
| `SessionProofs`, `SessionSafetyProofs`, `SessionLifeProofs`, `SessionAccessProofs` | proofs |
| `Accounts` | abstract specification: what registration promises |
| `Registration`, `RegistrationProps`, `MCRegistration`, `RegistrationProofs` | the same layout for registration |
| `Health`, `HealthProps`, `MCHealth`, `HealthProofs` | the same layout for the health report |
| `Serving`, `ServingProps`, `MCServing`, `ServingProofs` | the same for processes, shutdown, responses and the access log |
| `Loggers`, `LoggersProps`, `MCLoggers`, `LoggersProofs` | the same for `LoggerConfig` |

### Session

`pc[r]` names the remote call that request `r` makes next; an action is that
call with the local code up to the next one. `job[r]` holds the locals: the
operation, the account, the token presented with its lifetime, the token minted
and the two response headers set so far.

| Code | Actions, in order |
|---|---|
| JWT middleware, `JwtSuccessHandler` | `AuthStart`, `Gate` |
| `CheckRole`, `Tick` | `Role`, `SAdd` |
| `Login` | `LoginStart`, `Begin`, `LoginSelect`, `Check`, `Update`, `Create`, `Commit`, `Reply` |
| `Logout` | `AuthStart`, `Gate`, `Check`, `Begin`, `Update`, `Del`, `Commit`, `Reply` |
| `UploadAvatar` | `AuthStart`, `Gate`, `Check`, `Begin`, `Update`, `Commit`, `Reply` |
| `GetUserDetails` | `AuthStart`, `Gate`, `Check`, `Begin`, `DetailsSelect`, `Commit`, `Reply` |
| `RefreshTokenHandler` | `RefreshStart`, `RefreshLocked`, `RefreshGet`, `Del`, `Create`, `Reply` |
| errors of either store | `RedisError`, `DbError`, `WaitFails`, `DelFails`, `CreateFails`, `CommitFails` |
| go-redis `MaxRetries` | `Resend` |
| end of a process, time | `Crash`, `Elapse` |

Decisions of the abstraction:

* A token is a deterministic function of account, role, lifetime and second, so
  it is represented by its issue time; this keeps the equality of two tokens of
  one second. Roles do not change in the code, so the role claim is
  `Me(r) \in Admin`.
* The JWT middleware asks for a token of the secret and no more (router.go:58-63),
  so a refresh token is a bearer too, for its whole life (`Bearer`).
* `CheckLogin` is two Redis calls, SISMEMBER and EXISTS, but the outcome of the
  first is overwritten before anything looks at it. It is one action, `Check`.
  bcrypt's answer is nondeterministic.
* PostgreSQL at READ COMMITTED: `status` is the committed column, `lock` the
  row locks. GORM's optimistic lock adds `version = version + 1` and no
  condition, because the value passed to `Updates` has no version, so the
  version is left out.
* A failing write has an effect or not; a failing COMMIT likewise. An error
  response still carries the headers set before it (`ErrorHandler` does not
  clear them), which is why `Reply` hands them over in both cases.
* `hurt`, `solo` and `crossed` are auxiliary: nothing in the program's steps
  reads them. They say which accounts met a fault, which requests were alone
  with their account from start to end, and which accounts have a token made by
  a refresh that overlapped another request.

`SessionLife` is what remains of this for an account nothing disturbs, that is,
none of whose requests meets a fault and none of whose rotations is past its
GET together with another request: it is offline, opening (its key is stored),
online, closing (its key is deleted, the logout not committed), or rotating (its
key is deleted by the one request it has). `StageOf` in `SessionProps` computes
the stage from the row, the key and the requests.

### Registration and Accounts

The same style. `Insert` waits while another open transaction holds an equal
address or name and fails on a committed one, which is what the unique indexes
of `model.User` do; the uuid is a function of the name. `Select` goes on after
an error of PostgreSQL, as line 59 of the code does, in a transaction
PostgreSQL has aborted (`broken`). `VerifyMailSend` returns success on one
malformed SMTP answer (mail_sender.go:54); `SendMail` counts it, as the code
does, as a mail accepted, so `StoredWasMailed` rests on that reading of it.

`Accounts` has two variables and two actions: mail a code, and open an account
for an address a code was mailed to, if no account has its address or name.
`Registration` implements it under `accounts <- rows`, `mailed <- mailed`.

### Health

`Health` runs beside handlers that hold connections of the two pools. The
pools are libraries and appear as far as their users see them. The report is
read in four steps, two per `PoolStats` (`total`, `idle`, `total2`, `idle2`);
`Active` is the uint32 subtraction of line 208, with `Word` for 2^32. `alarms`
are the conditions `evaluateRedisStats` finds; `Message` picks the last one, as
the assignments to one map key do. Once `alive` is false nothing moves: zap's
Fatal ends the process. `dialled`, `closed` and `still` are auxiliary. The
second that Health allows is over, in the model, when a store is unreachable or
its pool exhausted; a network that is merely slow would fail the same calls.

### Serving

One process is the master; the others are slots for prefork children, which
fiber starts anew when they end. A process is `boot` until its goroutines for
Listen and for signals run, then `up`. A signal makes it `told`; line 42 is
logged and `stop()` called (`stopping`); ShutdownWithContext closes the listener
(`draining`), and `main` returns. It ends `left` (exit status 0) or `gone`.

| Code | Actions |
|---|---|
| `main`, `New`, `RegisterRoutes`, Listen | `Boot` (it may panic) |
| prefork of fiber, as `main.go:27-31` uses it | `Fork`, `ListenReturns`, `Orphan` |
| `gracefulShutdown` | `Interrupt`, `Stop`, `Close`, `Deadline`, `Exit` |
| the middleware of `zap.go`, `recover.New`, `ErrorHandler` | `Handle`, with `Answer` and `Line` |
| `Health` and zap's Fatal | `Fatal` |
| a connection accepted, a response written | `Accept`, `Deliver` |

Decisions of the abstraction:

* A handler is one step with one of a few outcomes: success, a status of an
  outside service passed on by the proxy, the exception for an expired token,
  any other exception, another error, a panic. It may also never end.
* The code of a response body is 0 for a success and 1 for every exception.
* `AppLog` is false when LOG_LEVEL cannot be parsed: `CustomLogger` then
  returns nil, and any use of `zaplog.Zap` is a panic, also inside
  `PanicHandler`, where nothing recovers it. The access log falls back to info.
* A process takes requests until its listener is closed, so also when it has
  been told to end. A second signal is swallowed before `stop()` and fatal after.
* The timer of line 44 runs in the master too, where nothing waits for it;
  `late` has the children only.
* `end` records why a request was cut off.

The master returns from `ShutdownWithContext` at once, since it has no
connection: it ends while its children serve, whom nobody has told anything.
They notice within half a second and end without a shutdown of their own
(`Orphan`). When a signal is sent to the whole process group, as Ctrl+C does,
every process has its own `Interrupt`.

### Loggers

`first[s]` is element 0 of a slice of `CoreConfigs`, the only one that ever
changes; `config[l]` says how a LoggerConfig was made, which slice it has, and
the core its zap logger was built from. The setters write to the slice and
rebuild the zap logger of the config they are called on, and of no other.
`call` is the message just logged and its effect. `told` is auxiliary: the
settings a config was made with and given since.

A caller expects of a config made with NewLogger what LoggerConfigDefault
documents. If its slice is shared with another config, either may change the
other's settings, which is why the properties speak of configs that are
`Alone`; a config derived by `WithContext` keeps the core its origin had then.

## 3. What is checked

Types apart, the properties are stated for what several requests can do to each
other. *What each run shows* (sizes are distinct states):

| Run | Instance | Properties |
|---|---|---|
| `MCSession` | 1 account, 2 requests, login, logout, refresh, tick, clock 0..2, every fault; 2 470 000 | `TypeOK`, `TxDiscipline`, `KeyLifetime`, `OnlineIsReachable`, `OfflineHasNoKey`, `SoloOutcome`, `TokensDoNotReturn`, `LockedStayOut`, `LivesInStages` (refinement) |
| `MCSessionLive` | 1 account, 3 requests, 2 connections, all operations but refresh; 136 000 | `SomeoneRuns`, `EveryRequestEnds`, `LockedAccountDrains` |
| `MCRegistration` | 2 addresses, 2 names, 2 codes, 2 requests, every fault; 1 570 000 | `TypeOK`, `StoredWasMailed`, `SuccessIsCommitted`, `OneWinner`, `HoldersOnly`, `Promises` (refinement) |
| `MCRegistrationLive` | 1 address, 1 name, 3 requests, 2 connections; 23 000 | `EveryRequestEnds` |
| `MCHealth` | 3 handlers, 2 + 2 connections, outages; 620 000 | `TypeOK`, `ReportAgrees`, `ActiveIsRight`, `HealthEnds` |
| `MCServing` | a master and 2 children, 2 requests, 3 values of LOG_LEVEL; 540 000 | `TypeOK`, `CutsAreExcused`, `ClientCanTell`, `AnswerIsLogged`, `DrainEnds`, `ServiceEnds` |
| `MCLoggers` | 2 loggers, 2 slices, 2 writers, all 7 levels and one that is none; 350 000 | `TypeOK`, `AloneKeepsSettings`, `NothingLost` |

*Bounds.* Sessions of different accounts share only the connections of the
pool, and one transaction holds at most one row lock, so one account shows
every race on a session; the proofs cover any number. Two requests are the
smallest number that interleave, and the safety properties are proved for any
number. `MCSessionLive` has three requests on two connections: two of them inside
a transaction, one waiting for the row of the other, while the third waits for
the pool. A refresh waits for neither and is left out there. A clock of three values with lifetimes of two lets a token be issued at
two different moments, be renewed, be close to its end and expire; in the
liveness runs time stands still and nothing breaks, since expiry and errors only
shorten requests. `Word` =
16 exceeds every pool size as 2^32 does. `Ops` and `Faults` select what
clients ask for and what may break in an instance; the model is the same.
Two children are enough for one to end with the other's requests still running,
and two requests for one to be answered while the other is cut off. The values
of LOG_LEVEL lie below the levels of the access log and at the highest of them,
and one cannot be parsed; the theorems cover the others. Two loggers are enough for one to share a slice with the
other, to be derived from it and to be reconfigured after it.
Deadlock is checked in every run except those of `Health`, `Serving` and
`Loggers`, where the processes may end.

*Symmetry* is used in the runs without liveness: request slots (and addresses,
names and codes) are only compared for equality.

*Fairness.* In `Session` there is one strong fairness condition per request. A
request is at one point at a time: at a point where it waits for nobody its step
stays enabled and is taken, because a goroutine that is not blocked runs; at
`Begin` or `Update` it is served if the connection or the row is released again
and again, because database/sql serves its waiters in order and PostgreSQL queues
them per row. `Registration`
has the same as three conditions, weak for the steps that wait for nobody and
strong for `Begin` and `Insert`. Faults, crashes and the clock are not fair, and neither is
anything the handlers do in `Health`: there a health request must end by
itself, which it does because PingContext has a deadline. In `Serving` start-up,
the steps of the shutdown and its timer, the end of `main` and the watch a child keeps on its
master are weakly fair. Handlers are not: the client of `proxy.go:27` has no
timeout, so a shutdown has to end although a handler never does. Nor are signals
and what fiber does about a child that ended.

### Statements of the repository that do not hold

One run each; TLC's shortest counterexample is the explanation.

| Run | Statement | What happens |
|---|---|---|
| `MCLockedLogin` | `CheckLogin` sets ErrAccountLocked (UserService.go:271) | the next call assigns `err` again; a locked account passes and logs in |
| `MCStatusOutlives` | status is 1 when logged in, else 0 (user.go:31) | the tokens expire, refresh token included, which would do as a bearer; the status does not, Login refuses the account and Logout needs a token, so it stays out for good |
| `MCLogoutUndone` | Logout deletes the login from Redis (UserService.go:170) | a refresh past its GET stores a new token after the DEL |
| `MCCodeLost` | one transaction keeps the data consistent (UserService.go:50) | the code is deleted in Redis, then bcrypt refuses a password over 72 bytes (a failing INSERT would do) and only PostgreSQL rolls back |
| `MCHealthWrap` | math.Max prevents an underflow (database.go:205-207) | uint32 has wrapped before math.Max sees a float; a connection dialled between the two reads is enough |

More that the models show, without a run of their own:

* The version column (user.go:41, "optimistic lock") stops neither of two logins
  that both read status 0: `Updates` is given a model without a version and
  RowsAffected is dropped (UserService.go:139). Both commit.
* The result of SETNX is ignored (pkg/utils/jwt.go:67), so the loser of two
  concurrent rotations is answered 200 with a refresh token that was never
  stored, although jwt.go:98 announces a new one.
* Of two concurrent requests for a code the later SET (UserService.go:109)
  replaces the code that the earlier mail (mail.html:13) declares good for five
  minutes.
* "db down" (database.go:117) and "redis down" (163) are also logged, and the
  process ended with every request it has, when busy handlers hold every
  connection of a pool for a second and both stores are up.
* "Graceful shutdown complete." (main.go:35) is logged by the master while its
  children still have requests, which are then cut off.
* At LOG_LEVEL=error the access log writes every success, which zap.go:88-95
  raises to the level, and no answer from 400 to 499.
* SetOutput and SetLevel on a LoggerConfig made without CoreConfigs change
  LoggerConfigDefault (logger.go:89 and 137) and with it every config made later.
* "Remove duplicated extraKeys" (logger.go:100) removes none: each key is found
  in the list it is taken from.

## 4. What is proved

All proofs hold for arbitrary constants under the named assumptions
`SessionAssumption`, `RegistrationAssumption`, `HealthAssumption`,
`ServingAssumption` and `LoggersAssumption`, which state that the parameters
have their types (a non-empty pool, `None` outside the sets it completes, a
master that is no child, `Word` above the pool size, finitely many handlers).
TLC evaluates them in every run.

| Module | Theorem | States |
|---|---|---|
| `SessionProofs` | `TypeCorrect` | `Spec => []TypeOK` |
| | `TransactionsAreDisciplined` | `Spec => []TxDiscipline` |
| `SessionSafetyProofs` | `OnlineReachable` | `Spec => []OnlineIsReachable` |
| | `OfflineIsClean` | `Spec => []OfflineHasNoKey` |
| | `SoloRequestsSucceed` | `Spec => []SoloOutcome` |
| `SessionLifeProofs` | `SessionImplementsLife` | `Spec => LivesInStages` |
| | `RowChangesOverKey` | `Spec => RowFollowsKey`, a corollary |
| `SessionAccessProofs` | `NoDeadlock` | `Spec => []SomeoneRuns` |
| | `HandlersAreFinite` | `Spec => RequestsAdvance`, and at most eight calls |
| | `KeysLiveAsTokens` | `Spec => []KeyLifetime` |
| | `OnlineWorksUntilExpiry` | `Spec => []OnlineUntilExpiry`, a corollary |
| | `OldTokensStayOut` | `Spec => TokensDoNotReturn` |
| | `LockedStaysOut`, `AdminsLock` | `Spec => LockedStayOut`, `Spec => OnlyAdminsLock` |
| `RegistrationProofs` | `TypeCorrect` | `Spec => []TypeOK` |
| | `StoredCodesWereMailed` | `Spec => []StoredWasMailed` |
| | `SuccessCommitted` | `Spec => []SuccessIsCommitted` |
| | `RacesHaveOneWinner` | `Spec => []OneWinner` |
| | `OnlyHoldersRegister` | `Spec => []HoldersOnly` |
| | `HandlersAreFinite` | `Spec => RequestsAdvance`, and at most eight calls |
| | `RegistrationImplementsAccounts` | `Spec => Promises` |
| | `AccountsAreOwned` | `Spec => []Owned /\ [][rows \subseteq rows']_rows`, a corollary |
| `HealthProofs` | `TypeCorrect`, `ReportedActive` | `Spec => []TypeOK`, `Spec => ActiveIsRight` |
| | `FigureAndMessageAgree` | `Spec => []ReportAgrees` |
| `ServingProofs` | `TypeCorrect`, `CutsExcused` | `Spec => []TypeOK`, `Spec => []CutsAreExcused` |
| | `ClientsCanTell`, `AnswersAreLogged` | `Spec => []ClientCanTell`, `Spec => []AnswerIsLogged` |
| `LoggersProofs` | `TypeCorrect` | `Spec => []TypeOK` |
| | `SettingsKept`, `MessagesKept` | `Spec => []AloneKeepsSettings`, `Spec => []NothingLost` |

*The session arguments.* `TypeInv` adds `Busy` to the types: a request in
flight has an account, which a fault then adds to `hurt`. `TxInv` adds `Flow`
to `TxDiscipline`: each operation stays on its route through the calls, so that
the points inside `gdb.Transaction` are entered and left where the model says.

`OnlineIsReachable` is not inductive, because it says nothing while requests
are in flight. `ReachInv` does: for an account without faults, `HasKey` says
that one that is online, or has a login about to commit, has a key unless a
logout is about to commit or a rotation is between its DEL and its SETNX; and
`KeyIsKnown` says that the stored token is in a client's hands or in the
response headers of a request about to commit or to reply. When no request is
left, both come down to the property.

`OfflineHasNoKey` rests on `OffInv`: the key of an account recorded offline
belongs to a login about to commit, a logout about to commit has left no key,
and a rotation that is alone with its account (`Alone`) found the key of an
account that is online (`RotatesOnline`). A rotation that is not alone puts the
account into `crossed`, which is exactly the case `MCLogoutUndone` exhibits.

`SoloOutcome` follows from `SoloInv`, which says what a request that is alone
knows on its way (`Outcome`): a login found no live key, so its SETNX stores; a
rotation has deleted the key, so its SETNX stores; other requests belong to
other accounts and touch neither row nor key, and the clock brings no key back
(`StaysDead`).

*The refinement of SessionLife* needs all of these invariants (`KeyInv`). A step
changes the stage of the account it works for only (`OtherStage`), an account
once disturbed stays so (`DisturbedStays`), and for the others `KeyGone` says
what a missing key means: a logout about to commit, or one rotation, which is
alone. `OwnStage` then maps each step to a move or a stutter. `RowFollowsKey` is
read off `SessionLife` and carried over: a row goes online over a stored key and
offline over a deleted one.

*Waiting and ending.* `SomeoneRuns` is the absence of deadlock as a state
predicate. It needs `TxInv`: a connection or a row that is taken has a holder in
flight, who waits for nobody past its UPDATE and for a row at most before it, so
behind every queue somebody runs. `Left` bounds the calls a request has before
it, and `RequestsAdvance` says that every step lowers it, resent commands apart.
Together they are the safety half of `EveryRequestEnds`; what they leave to the
fairness is that goroutines run on and queues are served in turn.

*The life of a key.* `LifeInv` adds to `KeyLifetime` that a token about to be
stored does not come from the future (`MintStep`). A token minted before a long
wait is older than its key, never the other way round. With `OnlineIsReachable`
this gives `OnlineUntilExpiry`, the part of "1 when logged in" (user.go:31) that
is true: until the stored token is too old somebody can go on with the session.
`MCStatusOutlives` shows what happens then.

*Old tokens.* That SETNX writes over no live key excludes no takeover, as a
rotation deletes the key first. `TokensDoNotReturn` says what does hold: a token
that is stored is no older than any the account was handed, unless rotations
cross. `OrderInv` carries it: what is `Known` of an account, held or in the
headers of a response to come, is not from the future, and a login or a lone
rotation about to store has minted something no older (`Youngest`). A login
keeps it since it has held the row from before it minted (`TxDiscipline`), which
no other login has then; a lone rotation, since nobody is beside it (`Alone`);
and a rotation that is not alone puts the account into `crossed` when it stores.
Resent commands are covered: they store what their request has minted.

*The blacklist.* A locked account passes neither `Gate` nor `RefreshLocked`, and
the requests past them can only leave (`LockedWorks`). `RoleInv`: who is about
to SADD has passed CheckRole as an administrator. `RequestsAdvance`,
`OnlineUntilExpiry`, `OnlyAdminsLock` and `RowFollowsKey` are stated by theorems
and by no run; an instance of `OnlyAdminsLock` that says anything needs a second
account, which makes a run of ten million states.

*The registration arguments.* `Flow` ties each point to its handler. `MailInv`
follows a code: it is mailed before it is stored, and a registration past its
GET presented one that was mailed to its address (`HoldersOnly`), whatever
happens to the key meanwhile. `RowInv` says that a row inserted
and not committed clashes neither with a committed row nor with another such
row, and that the rows answered with success are committed and do not clash.
Every step then maps to `Mail`, `Open` or a stutter; the step that opens an
account is `Commit`, or a `CommitFails` that took effect. `AccountsAreOwned` is
proved of `Accounts` alone and carried over by the refinement: unique addresses
and names, each address mailed to, no account ever changed.

*The health argument.* `PoolInv` bounds the pool and ties the total that was
read to the connections still open and those closed since, as long as none was
opened; then the subtraction cannot wrap. `StillInv` says that the two readings
of one report agree while no connection moves between them; `LastConditionWins`,
that the utilization message, which is written last, is the one that stays.

*The argument for the processes.* `ServingInv` adds to the types that an
unfinished request is at a process with a server (`OpenNeedsServer`), that an
outcome and its line in the log are made together (`ResponseMade`), and that
nothing is killed before Listen is called (`NothingBeforeListen`). Then every
cause a request can be cut by is one `CutsAreExcused` allows, with one lemma per
kind of step: one that ends processes (`EndIsSafe`), one that moves a process on
(`BecomeIsSafe`) and one of a request (`RequestIsSafe`).

*The argument for the loggers.* `LoggersInv` says that exactly the configs made
with cores have a slice (`SliceOfKind`), that a slice nobody has is as it was
made (`UnusedIsFresh`), and that a config which is alone has in its slice what
its zap logger was built from (`AloneIsCurrent`): so a setter, which rebuilds
from the slice, loses nothing the other setter did.

*Model-checked only.* All liveness properties (`EveryRequestEnds`, twice,
`LockedAccountDrains`, `HealthEnds`, `DrainEnds`, `ServiceEnds`): TLAPS does not
deal with liveness under fairness, nor with ENABLED. Every safety invariant and action property
that a run passes is proved. TLAPS also cannot prove by induction what a
recursive definition computes, and loses its SMT backend with RECURSIVE
operators; the modules have none.

## 5. What is not modelled

* Bodies that fail validation and unknown routes: they end before the first
  remote call and change nothing; in `Serving` they are handlers that end with
  an error. A path such as `/user/details/login...` is taken for public by
  router.go:64-69 and its handler panics on the missing token; the models have
  no texts of paths.
* Clients that make tokens up: a signature is taken to be what it is.
* The columns no decision depends on (avatar, times, role changes by hand), and
  soft deletion, which nothing performs.
* Four messages of `Health` about database/sql counters; the heavy-load one
  needs more than 40 connections and `.env` allows 25.
* AutoMigrate, which every process runs at start-up and whose failure is only
  logged (database.go:94): `Registration` starts with the unique indexes in
  place, and its promises are worth nothing without them.
* The rotation of the log file. Two writers per process and every process of
  the prefork rotate and compress the same file, each behind a mutex of its own;
  what then happens is decided inside lumberjack.
* The fields of a line in the access log, and the options of its Config: `New`
  is called without one.
* The response cache in front of the proxy handlers, which is fiber's.
* The GeoServer client: nothing calls `New`. It creates its workspace and its
  datastore without asking whether they exist, and panics when the second fails
  (client.go:46-59), which a second start would have to deal with.

## 6. Plan

Done: `Session` with `SessionLife`, `Registration` with `Accounts`, `Health`,
`Serving`, `Loggers`, with their proofs. What could follow:

1. A model of lumberjack's rotation as far as the two writers and the prefork
   processes need it, for the question which lines are lost.
2. `Registration` with the indexes as part of the state and AutoMigrate run by
   every process, under start-ups that fail half-way.
3. `Serving` composed with `Session`: its `Crash` as the end of the process that
   has the request, so that several requests are cut off at once.
