---------------------------- MODULE SessionProps ----------------------------
(***************************************************************************)
(* What the session core must guarantee (first part), and what the code    *)
(* and its comments say of it that does not hold (second part).            *)
(***************************************************************************)
EXTENDS Session

\* The types of the variables.
TypeOK ==
    /\ status \in [User -> {0, 1}]
    /\ lock \in [User -> Req \cup {None}]
    /\ conns \subseteq Req
    /\ store \in [User -> Token]
    /\ expire \in [User -> Nat]
    /\ blacklist \subseteq User
    /\ pc \in [Req -> PCs]
    /\ job \in [Req -> Job]
    /\ heldA \in [User -> SUBSET Time]
    /\ heldR \in [User -> SUBSET Time]
    /\ now \in Time
    /\ hurt \subseteq User
    /\ solo \subseteq Req
    /\ crossed \subseteq User

\* No request of account u is in flight.
Quiet(u) == \A r \in Req : Me(r) # u

InTransaction(r) ==
    \/ pc[r] \in {"select", "update", "commit"}
    \/ Op(r) = "login" /\ pc[r] \in {"check", "setnx"}
    \/ Op(r) = "logout" /\ pc[r] = "del"

HasRow(r) ==
    \/ Op(r) = "login" /\ pc[r] = "setnx"
    \/ Op(r) = "logout" /\ pc[r] = "del"
    \/ Op(r) # "details" /\ pc[r] = "commit"

\* A pooled connection is held by exactly the requests inside gdb.Transaction
\* and the lock of a row by the one request between its UPDATE and the end of
\* its transaction: no early return of Login, Logout, UploadAvatar or
\* GetUserDetails leaks either.
TxDiscipline ==
    /\ conns = {r \in Req : InTransaction(r)}
    /\ \A u \in User, r \in Req : lock[u] = r <=> HasRow(r) /\ Me(r) = u

\* What a request may have to wait for: a connection of the pool, or the
\* transaction that holds its row.
Waits(r) ==
    \/ pc[r] = "begin" /\ Cardinality(conns) >= MaxConns
    \/ pc[r] = "update" /\ lock[Me(r)] # None

\* However many requests queue for the pool and for rows, some request in
\* flight waits for neither: who waits for a row holds a connection others
\* wait for, but who holds a row waits for nobody, so the waits never close
\* into a cycle.
SomeoneRuns ==
    (\E r \in Req : pc[r] # "idle") => \E r \in Req : pc[r] # "idle" /\ ~Waits(r)

\* A refresh token and the key it is stored under are given their lifetime at
\* two moments, with the wait for other requests and resent commands between
\* them, and by two clocks.  The key outlives the token, so a stored token
\* that is still valid is found; and it is gone RefreshTTL from now at the
\* latest, so no key keeps an account out for longer.  (A key made with
\* RefreshTTL = 0 never expires, and nothing reads its expire.)
KeyLifetime ==
    \A u \in User : store[u] # NoTok =>
        store[u] + RefreshTTL <= expire[u] /\ expire[u] <= now + RefreshTTL

\* The users table and Redis agree for an account recorded online: as long
\* as none of its requests met a fault, and once they are all answered, the
\* token under "refresh:<uuid>" is one that reached a client, so somebody can
\* go on with the session.  Login, Logout and RefreshTokenHandler interleave
\* freely, including a login that lost its SETNX and two rotations at once.
OnlineIsReachable ==
    \A u \in User \ hurt :
        status[u] = 1 /\ Quiet(u) => store[u] \in heldR[u]

\* And for an account recorded offline: no refresh key is left (it would make
\* CheckLogin refuse the next login), unless a refresh overlapped another
\* request of the account.
OfflineHasNoKey ==
    \A u \in User \ (hurt \cup crossed) :
        status[u] = 0 /\ lock[u] = None => store[u] = NoTok

\* What a handler that is alone with its account has done when it answers
\* success: Login and RefreshTokenHandler return the very token that is
\* stored, Login leaves the account online, Logout leaves it offline and
\* without a token, whatever crashes and races went before.
SoloOutcome ==
    \A r \in solo : pc[r] = "reply" =>
        /\ Op(r) = "login" => status[Me(r)] = 1 /\ store[Me(r)] = job[r].ref
        /\ Op(r) = "logout" => status[Me(r)] = 0 /\ store[Me(r)] = NoTok
        /\ Op(r) = "refresh" => store[Me(r)] = job[r].ref

\* A rotation past its GET that is not alone with the account, now or before.
Crossing(u) ==
    \/ u \in crossed
    \/ \E r \in Req \ solo :
          Me(r) = u /\ Op(r) = "refresh" /\ pc[r] \in {"del", "setnx"}

\* Tokens do not come back: what is stored for an account is at least as young
\* as every refresh token that was ever handed out for it, so a token that a
\* login or a rotation has superseded is accepted again only if the new one
\* was made in the same second and is the same string.  Minting and SETNX are
\* two moments, and SETNX may be sent again: logins are kept in order by the
\* row lock they hold over both moments, rotations only by being alone.
TokensDoNotReturn ==
    [][\A u \in User :
          ~Crossing(u) /\ store'[u] \notin {store[u], NoTok} =>
              \A t \in heldR[u] : t <= store'[u]]_vars

\* From here on SessionLife promises nothing.
Disturbed(u) == u \in hurt \/ Crossing(u)

LogoutCommits(u) == \E r \in Req : Me(r) = u /\ Op(r) = "logout" /\ pc[r] = "commit"

StageOf(u) ==
    IF Disturbed(u) THEN "disturbed"
    ELSE IF status[u] = 0 THEN IF store[u] = NoTok THEN "offline" ELSE "opening"
    ELSE IF store[u] # NoTok THEN "online"
    ELSE IF LogoutCommits(u) THEN "closing" ELSE "rotating"

Life == INSTANCE SessionLife WITH life <- [u \in User |-> StageOf(u)]

\* The table and Redis move together: Login, Logout and RefreshTokenHandler
\* implement SessionLife, in whatever way they overlap, logins with each other
\* and with logouts included.
LivesInStages == Life!Spec

\* Every request is answered: waiting for a connection while holding none,
\* and for one row lock at most, cannot end in a deadlock or in starvation.
EveryRequestEnds == \A r \in Req : pc[r] # "idle" ~> pc[r] = "idle"

\* Beyond the blacklist check of its handler.
Admitted(r) ==
    /\ Op(r) \notin {"login", "none"}
    /\ pc[r] \notin {"gate", "sismember", "reply", "error"}

\* Tick: after an account is blacklisted its tokens stop working, the
\* requests admitted before drain and no other is admitted, ever.
LockedAccountDrains ==
    \A u \in User :
        u \in blacklist ~> [](\A r \in Req : Me(r) = u => ~Admitted(r))

\* The safety half of it, for every step: an account once locked stays so,
\* and no step admits a request of it, neither past the middleware nor past
\* the blacklist check of RefreshTokenHandler.
LockedStayOut ==
    [][/\ blacklist \subseteq blacklist'
       /\ \A r \in Req :
             Me(r) \in blacklist /\ ~Admitted(r) => ~Admitted(r)']_vars

-----------------------------------------------------------------------------
(* Statements of the repository that the code does not keep *)

\* internal/model/user.go:31, status is 1 while logged in and 0 otherwise: an
\* account recorded online has a token left that some handler accepts.
OnlineHasSession ==
    \A u \in User : status[u] = 1 /\ Quiet(u) =>
        \/ \E t \in heldA[u] : now < t + AccessTTL
        \/ \E t \in heldR[u] : now < t + RefreshTTL

\* internal/database/UserService.go:170, Logout records the account offline
\* and deletes its login from Redis: an offline account has no refresh key,
\* except between the SETNX and the COMMIT of a Login.
LogoutEndsSession ==
    \A u \in User : status[u] = 0 /\ lock[u] = None => store[u] = NoTok

\* internal/database/UserService.go:270-271, CheckLogin sets ErrAccountLocked
\* for a blacklisted account: its login goes no further.
LockedLoginRefused ==
    [][\A r \in Req :
          Op(r) = "login" /\ pc[r] = "check" /\ Me(r) \in blacklist
              => pc'[r] # "update"]_vars
=============================================================================
