-------------------------- MODULE SessionLifeProofs --------------------------
(***************************************************************************)
(* The session core implements SessionLife: every step leaves the stage of *)
(* every account as it is, but for one account, which makes one of the     *)
(* moves of SessionLife or is disturbed.                                   *)
(***************************************************************************)
EXTENDS SessionSafetyProofs

\* What is known of the states the step starts from and leads to.
KeyInv == TypeInv /\ TxInv /\ ReachInv /\ OffInv

LEMMA InitKey == Init => KeyInv
BY InitType, InitTx, InitReach, InitOff DEF KeyInv

LEMMA KeyNext == KeyInv /\ [Next]_vars => KeyInv'
BY TypeStep, TxNext, ReachNext, OffNext DEF KeyInv

LEMMA CommitsIsAt == \A u : LogoutCommits(u) <=> At(u, "logout", "commit")
BY DEF LogoutCommits, At

\* The rotations that disturb an account.
Crosses(q) == q \notin solo /\ Op(q) = "refresh" /\ pc[q] \in {"del", "setnx"}

LEMMA DisturbedIs ==
  \A u : Disturbed(u) <=>
           u \in hurt \cup crossed \/ \E q \in Req : Me(q) = u /\ Crosses(q)
BY DEF Disturbed, Crossing, Crosses

LEMMA SoloShrinks ==
  ASSUME KeyInv, NEW r \in Req, Works(r)
  PROVE  solo' = solo \/ solo' = solo \ {r}
BY DEF Works, Step, Gate, Role, LoginSelect, DetailsSelect, Check, RefreshLocked,
   RefreshGet, WaitFails, SAdd, Begin, Update, Commit, CommitFails, Del, DelFails,
   Create, CreateFails, Reply, Resend, Crash, Finish, aux

-----------------------------------------------------------------------------
(* The accounts a step does not work for *)

LEMMA OtherStage ==
  ASSUME KeyInv, NEW r \in Req, Works(r), NEW u \in User, u # Me(r)
  PROVE  StageOf(u)' = StageOf(u)
<1>1. /\ status'[u] = status[u] /\ store'[u] = store[u]
      /\ u \in hurt' <=> u \in hurt
      /\ u \in crossed' <=> u \in crossed
      /\ \A q \in Req : /\ Me(q)' = u <=> Me(q) = u
                        /\ Me(q) = u => pc'[q] = pc[q] /\ job'[q] = job[q]
  BY OtherAccount DEF KeyInv
<1>2. \A q \in Req : Me(q) = u => (Crosses(q)' <=> Crosses(q))
  BY <1>1, SoloShrinks DEF Crosses, Op
<1>3. Disturbed(u)' <=> Disturbed(u)
  BY <1>1, <1>2 DEF Disturbed, Crossing, Crosses
<1>4. LogoutCommits(u)' <=> LogoutCommits(u)
  BY <1>1 DEF LogoutCommits, Op
<1> QED
  BY <1>1, <1>3, <1>4 DEF StageOf

LEMMA ArriveStage ==
  ASSUME KeyInv, NEW r \in Req, Arrive(r)
  PROVE  \E v \in User :
            /\ \A u \in User \ {v} : StageOf(u)' = StageOf(u)
            /\ StageOf(v)' \in {StageOf(v), "disturbed"}
<1>1. PICK o \in OpNames, v \in User, t \in Token, n \in Nat, l \in PCs \ {"idle"} :
          /\ Start(r, o, v, t, n, l)
          /\ CASE o = "login" -> l = "begin"
               [] o = "refresh" -> l \in {"sismember", "error"}
               [] OTHER -> l \in {"gate", "error"}
  BY ArriveFrame DEF KeyInv
<1>2. \A q \in Req \ {r} : pc'[q] = pc[q] /\ job'[q] = job[q]
  BY <1>1 DEF KeyInv, TypeInv, TypeOK, Start, Goto
<1>3. /\ pc[r] = "idle" /\ pc'[r] = l
      /\ l \notin {"setnx", "commit", "del"}
  BY <1>1 DEF KeyInv, TypeInv, TypeOK, Start, Goto
<1>4. UNCHANGED <<status, store, hurt, crossed>>
  BY <1>1 DEF Start, db, redis
<1>5. \A q \in Req \ {r} : /\ q \in solo' => q \in solo
                           /\ Me(q) # v => (q \in solo' <=> q \in solo)
  BY <1>1 DEF Start
<1>6. \A u : LogoutCommits(u)' <=> LogoutCommits(u)
  BY <1>2, <1>3 DEF LogoutCommits, Op, Me
<1>7. \A u : Disturbed(u) => Disturbed(u)'
  BY <1>2, <1>3, <1>4, <1>5 DEF Disturbed, Crossing, Op, Me
<1>8. \A u : u # v => (Disturbed(u)' => Disturbed(u))
  BY <1>2, <1>3, <1>4, <1>5 DEF Disturbed, Crossing, Op, Me
<1>9. \A u \in User \ {v} : StageOf(u)' = StageOf(u)
  BY <1>4, <1>6, <1>7, <1>8 DEF StageOf
<1>10. StageOf(v)' \in {StageOf(v), "disturbed"}
  BY <1>4, <1>6, <1>7 DEF StageOf
<1> QED
  BY <1>9, <1>10

-----------------------------------------------------------------------------
(* The account it works for *)

\* Who is disturbed stays so: a rotation that crosses another request ends in
\* a SETNX, which counts it, or in a fault.
LEMMA DisturbedStays ==
  ASSUME KeyInv, NEW r \in Req, Works(r), NEW u \in User, Disturbed(u)
  PROVE  Disturbed(u)'
<1>1. hurt \subseteq hurt' /\ crossed \subseteq crossed'
  BY ScopeShrinks DEF KeyInv
<1>2. CASE u \in hurt \cup crossed
  BY <1>1, <1>2 DEF Disturbed, Crossing
<1>3. ASSUME NEW q \in Req, Me(q) = u, Crosses(q) PROVE Disturbed(u)'
  <2>1. CASE q # r
    <3>1. pc'[q] = pc[q] /\ job'[q] = job[q]
      BY <2>1, Frame DEF KeyInv
    <3> QED
      BY <1>3, <2>1, <3>1, SoloShrinks DEF Disturbed, Crossing, Crosses, Op, Me
  <2>2. CASE q = r
    <3>1. CASE Del(r)
      <4>1. pc'[r] = "setnx" /\ r \notin solo'
        BY <1>3, <2>2, <3>1, SoloShrinks
        DEF Del, Crosses, Goto, KeyInv, TypeInv, TypeOK
      <4>2. Op(r)' = Op(r) /\ Me(r)' = Me(r)
        BY <4>1, Frame DEF KeyInv, Op, Me
      <4> QED
        BY <1>3, <2>2, <4>1, <4>2 DEF Disturbed, Crossing, Crosses
    <3>2. CASE Create(r)
      BY <1>3, <2>2, <3>2 DEF Create, Crosses, Disturbed, Crossing
    <3>3. CASE DelFails(r) \/ CreateFails(r) \/ Resend(r) \/ Crash(r)
      BY <1>3, <2>2, <3>3, FaultHurts DEF Disturbed, Crossing, KeyInv
    <3>4. ~(Reads(r) \/ SAdd(r) \/ Begin(r) \/ Update(r) \/ Commit(r) \/ CommitFails(r)
            \/ Reply(r))
      BY <1>3, <2>2
      DEF Crosses, Reads, Gate, Role, LoginSelect, DetailsSelect, Check, RefreshLocked,
          RefreshGet, WaitFails, SAdd, Begin, Update, Commit, CommitFails, Reply
    <3> QED
      BY <3>1, <3>2, <3>3, <3>4 DEF Works, Step, Reads
  <2> QED
    BY <2>1, <2>2
<1> QED
  BY <1>2, <1>3, DisturbedIs

\* An undisturbed account without a key is offline, about to be, or in the
\* hands of one rotation, which is alone.
LEMMA KeyGone ==
  ASSUME KeyInv, NEW u \in User, ~Disturbed(u)
  PROVE  /\ status[u] = 0 /\ store[u] # NoTok => At(u, "login", "commit")
         /\ At(u, "logout", "commit") => store[u] = NoTok
         /\ status[u] = 1 /\ store[u] = NoTok /\ ~LogoutCommits(u)
               => \E q \in solo : Me(q) = u /\ Op(q) = "refresh" /\ pc[q] = "setnx"
         /\ At(u, "login", "commit") => store[u] # NoTok
<1>1. u \notin hurt \cup crossed /\ NoKey(u) /\ HasKey(u)
  BY DEF KeyInv, OffInv, ReachInv, Disturbed, Crossing
<1>2. At(u, "refresh", "setnx")
        => \E q \in solo : Me(q) = u /\ Op(q) = "refresh" /\ pc[q] = "setnx"
  BY DEF At, Disturbed, Crossing
<1>3. At(u, "login", "commit") => ~At(u, "refresh", "setnx")
  <2>1. SUFFICES ASSUME NEW q \in solo, Me(q) = u, Op(q) = "refresh",
                        NEW p \in Req, Me(p) = u, Op(p) = "login"
                 PROVE  FALSE
    BY <1>2 DEF At
  <2> QED
    BY <2>1 DEF KeyInv, OffInv, Alone
<1> QED
  BY <1>1, <1>2, <1>3, CommitsIsAt DEF NoKey, HasKey

\* The stage of v may stay, be disturbed or make a move.
Turns(v) ==
    \/ StageOf(v)' \in {StageOf(v), "disturbed"}
    \/ <<StageOf(v), StageOf(v)'>> \in Life!Moves

LEMMA OwnStage ==
  ASSUME KeyInv, KeyInv', NEW r \in Req, Works(r), NEW u \in User, u = Me(r)
  PROVE  Turns(u)
<1>1. SUFFICES ASSUME ~Disturbed(u)' PROVE Turns(u)
  BY DEF Turns, StageOf
<1>2. ~Disturbed(u) /\ u \notin hurt' \cup crossed'
  BY <1>1, DisturbedStays DEF Disturbed, Crossing
<1>3. /\ TypeInv /\ TxInv /\ OffInv /\ status[u] \in {0, 1} /\ status'[u] \in {0, 1}
      /\ pc \in [Req -> PCs] /\ status \in [User -> {0, 1}] /\ store \in [User -> Token]
  BY DEF KeyInv, TypeInv, TypeOK
<1>4. "login" \in OpNames /\ "logout" \in OpNames /\ "refresh" \in OpNames
  BY DEF OpNames
<1>5. ASSUME UNCHANGED <<status, store>>, pc[r] # "commit",
             Op(r) = "logout" => pc'[r] # "commit"
      PROVE  Turns(u)
  <2>1. LogoutCommits(u)' <=> LogoutCommits(u)
    BY <1>3, <1>4, <1>5, AtMoves, CommitsIsAt DEF LogoutCommits, At
  <2> QED
    BY <1>1, <1>2, <1>5, <2>1 DEF Turns, StageOf
<1>6. CASE Passes(r)
  BY <1>3, <1>5, <1>6, PassMoves DEF TxInv
<1>7. CASE Reply(r)
  BY <1>3, <1>5, <1>7 DEF Reply, Finish, Goto, db, redis
<1>8. CASE Commit(r)
  <2>1. /\ pc[r] = "commit" /\ UNCHANGED store
        /\ Op(r) = "login" => At(u, "login", "commit") /\ status'[u] = 1
        /\ Op(r) = "logout" => At(u, "logout", "commit") /\ status'[u] = 0
        /\ Op(r) \notin {"login", "logout"} => status'[u] = status[u]
    BY <1>3, <1>8 DEF Commit, At, Written, redis
  <2>2. CASE Op(r) = "login"
    <3>1. store[u] # NoTok /\ store'[u] # NoTok
      BY <1>2, <2>1, <2>2, KeyGone
    <3> QED
      BY <1>1, <1>2, <1>3, <2>1, <2>2, <3>1 DEF Turns, StageOf, Life!Moves
  <2>3. CASE Op(r) = "logout"
    <3>1. store[u] = NoTok /\ store'[u] = NoTok /\ LogoutCommits(u)
      BY <1>2, <2>1, <2>3, KeyGone, CommitsIsAt
    <3> QED
      BY <1>1, <1>2, <1>3, <2>1, <2>3, <3>1 DEF Turns, StageOf, Life!Moves
  <2>4. CASE Op(r) \notin {"login", "logout"}
    <3>1. pc'[r] = "reply"
      BY <1>3, <1>8 DEF Commit, Goto
    <3>2. LogoutCommits(u)' <=> LogoutCommits(u)
      BY <1>4, <2>4, <3>1, <1>3, AtMoves, CommitsIsAt DEF LogoutCommits, At
    <3> QED
      BY <1>1, <1>2, <2>1, <2>4, <3>2 DEF Turns, StageOf
  <2> QED
    BY <2>2, <2>3, <2>4
<1>9. CASE Del(r)
  <2>1. /\ pc[r] = "del" /\ UNCHANGED status /\ store'[u] = NoTok
        /\ pc'[r] = IF Op(r) = "refresh" THEN "setnx" ELSE "commit"
    BY <1>3, <1>9 DEF Del, DelKey, Goto, db
  <2>2. CASE Op(r) = "refresh"
    <3>1. r \in solo /\ status[u] = 1
      BY <1>2, <1>3, <2>1, <2>2 DEF Disturbed, Crossing, OffInv, RotatesOnline
    <3>2. ~LogoutCommits(u) /\ store[u] # NoTok
      BY <1>2, <2>1, <2>2, <3>1, <1>3, KeyGone DEF LogoutCommits, OffInv, Alone
    <3>3. ~LogoutCommits(u)'
      BY <1>3, <1>4, <2>2, <3>2, AtMoves, CommitsIsAt DEF LogoutCommits, At
    <3> QED
      BY <1>1, <1>2, <2>1, <3>1, <3>2, <3>3 DEF Turns, StageOf, Life!Moves
  <2>3. CASE Op(r) # "refresh"
    <3>1. Op(r) = "logout"
      BY <1>3, <2>1, <2>3 DEF TxInv, Flow, Route
    <3>2. LogoutCommits(u)'
      BY <1>3, <1>4, <2>1, <2>3, <3>1, AtMoves, CommitsIsAt DEF LogoutCommits, At
    <3>3. ~At(u, "login", "commit") /\ ~LogoutCommits(u)
      BY <1>3, <2>1, <3>1 DEF At, LogoutCommits, HasRow, TxInv, TxDiscipline
    <3>4. status[u] = 1 => store[u] # NoTok
      BY <1>2, <1>3, <2>1, <3>1, <3>3, KeyGone DEF OffInv, Alone
    <3>5. status[u] = 0 => store[u] = NoTok
      BY <1>2, <3>3, KeyGone
    <3> QED
      BY <1>1, <1>2, <1>3, <2>1, <3>2, <3>4, <3>5 DEF Turns, StageOf, Life!Moves
  <2> QED
    BY <2>2, <2>3
<1>10. CASE Create(r)
  <2>1. /\ pc[r] = "setnx" /\ UNCHANGED status /\ store'[u] # NoTok
        /\ Op(r) = "refresh" => r \in solo
    BY <1>2, <1>3, <1>10
    DEF Create, SetNX, Live, db, KeyInv, ReachInv, Minted
  <2>2. Op(r) \in {"login", "refresh"}
    BY <1>3, <2>1 DEF TxInv, Flow, Route
  <2>3. CASE Op(r) = "refresh"
    <3>1. status[u] = 1 /\ ~LogoutCommits(u)
      BY <1>2, <1>3, <2>1, <2>3 DEF Disturbed, Crossing, OffInv, RotatesOnline, LogoutCommits, Alone
    <3> QED
      BY <1>1, <1>2, <2>1, <3>1 DEF Turns, StageOf, Life!Moves
  <2>4. CASE Op(r) = "login"
    <3>1. ~LogoutCommits(u)
      BY <1>3, <2>1, <2>4 DEF LogoutCommits, HasRow, TxInv, TxDiscipline
    <3>2. status[u] = 1 => store[u] # NoTok
      BY <1>2, <1>3, <2>1, <2>4, <3>1, KeyGone DEF OffInv, Alone
    <3> QED
      BY <1>1, <1>2, <1>3, <2>1, <3>2 DEF Turns, StageOf, Life!Moves
  <2> QED
    BY <2>2, <2>3, <2>4
<1>11. CASE CommitFails(r) \/ DelFails(r) \/ CreateFails(r) \/ Resend(r) \/ Crash(r)
  BY <1>2, <1>3, <1>11, FaultHurts
<1> QED
  BY <1>6, <1>7, <1>8, <1>9, <1>10, <1>11 DEF Works, Step, Reads, Passes

-----------------------------------------------------------------------------

Stages == [u \in User |-> StageOf(u)]

LEMMA OneTurns ==
  ASSUME NEW v \in User, Turns(v), \A u \in User \ {v} : StageOf(u)' = StageOf(u)
  PROVE  [Life!Next]_Stages
<1>1. Stages' = [Stages EXCEPT ![v] = StageOf(v)']
  BY DEF Stages
<1>2. CASE StageOf(v)' = StageOf(v)
  BY <1>1, <1>2 DEF Stages
<1>3. CASE StageOf(v)' = "disturbed"
  BY <1>1, <1>3 DEF Life!Next, Life!Disturb, Stages
<1>4. CASE <<StageOf(v), StageOf(v)'>> \in Life!Moves
  <2>1. Life!Move(v)
    BY <1>1, <1>4 DEF Life!Move, Stages
  <2> QED
    BY <2>1 DEF Life!Next
<1> QED
  BY <1>2, <1>3, <1>4 DEF Turns

LEMMA LifeStep == KeyInv /\ KeyInv' /\ [Next]_vars => [Life!Next]_Stages
<1> SUFFICES ASSUME KeyInv, KeyInv', [Next]_vars PROVE [Life!Next]_Stages
  OBVIOUS
<1>1. ASSUME NEW r \in Req, Arrive(r) PROVE [Life!Next]_Stages
  <2>1. PICK v \in User : /\ \A u \in User \ {v} : StageOf(u)' = StageOf(u)
                          /\ StageOf(v)' \in {StageOf(v), "disturbed"}
    BY <1>1, ArriveStage
  <2> QED
    BY <2>1, OneTurns DEF Turns
<1>2. ASSUME NEW r \in Req, Works(r) PROVE [Life!Next]_Stages
  <2>1. Me(r) \in User
    BY <1>2, Frame DEF KeyInv, TypeInv, Busy
  <2>2. PICK v \in User : v = Me(r)
    BY <2>1
  <2>3. \A u \in User \ {v} : StageOf(u)' = StageOf(u)
    BY <1>2, <2>2, OtherStage
  <2>4. Turns(v)
    BY <1>2, <2>2, OwnStage
  <2> QED
    BY <2>3, <2>4, OneTurns
<1>3. CASE Elapse \/ UNCHANGED vars
  <2>1. UNCHANGED <<status, store, pc, job, hurt, solo, crossed>>
    BY <1>3 DEF Elapse, vars, db, redis, aux
  <2>2. \A u : StageOf(u)' = StageOf(u)
    BY <2>1 DEF StageOf, Disturbed, Crossing, LogoutCommits, Op, Me
  <2> QED
    BY <2>2 DEF Stages
<1> QED
  BY <1>1, <1>2, <1>3 DEF Next, Works

LEMMA InitLife == Init => Stages = [u \in User |-> "offline"]
<1> SUFFICES ASSUME Init, NEW u \in User PROVE StageOf(u) = "offline"
  BY DEF Stages
<1>1. ~Disturbed(u)
  BY DEF Init, Disturbed, Crossing
<1> QED
  BY <1>1 DEF Init, StageOf

\* Login, Logout and RefreshTokenHandler implement SessionLife: while no fault
\* and no overlapping rotation disturbs an account, its row and its key in
\* Redis change only in the order of the stages, for any number of accounts
\* and requests.
THEOREM SessionImplementsLife == Spec => LivesInStages
<1>1. Init => Life!Init
  BY InitLife DEF Life!Init, Stages
<1>2. KeyInv /\ KeyInv' /\ [Next]_vars => [Life!Next]_Stages
  BY LifeStep
<1> QED
  BY <1>1, <1>2, InitKey, KeyNext, PTL DEF Spec, LivesInStages, Life!Spec, Stages

-----------------------------------------------------------------------------
(* What follows from SessionLife, and so for the session core *)

\* The row goes online over a key that is there and offline over one that is
\* gone, and a key disappears under an account that is online.
RowFollowsKey ==
    [][\A u \in User : ~Disturbed(u) /\ ~Disturbed(u)' =>
          /\ status[u] = 0 /\ status'[u] = 1 => store[u] # NoTok
          /\ status[u] = 1 /\ status'[u] = 0 => store[u] = NoTok
          /\ store[u] # NoTok /\ store'[u] = NoTok => status[u] = 1]_vars

\* A step as SessionLife sees it, account by account.
LEMMA MoveOf ==
  ASSUME [Life!Next]_Stages, NEW u \in User
  PROVE  \/ StageOf(u)' \in {StageOf(u), "disturbed"}
         \/ <<StageOf(u), StageOf(u)'>> \in Life!Moves
<1>1. Stages[u] = StageOf(u) /\ Stages'[u] = StageOf(u)'
  BY DEF Stages
<1>2. ASSUME NEW v \in User, Life!Disturb(v)
      PROVE  StageOf(u)' \in {StageOf(u), "disturbed"}
  BY <1>1, <1>2 DEF Life!Disturb, Stages
<1>3. ASSUME NEW v \in User, Life!Move(v)
      PROVE  \/ StageOf(u)' = StageOf(u)
             \/ <<StageOf(u), StageOf(u)'>> \in Life!Moves
  <2>1. PICK m \in Life!Moves : Stages[v] = m[1] /\ Stages' = [Stages EXCEPT ![v] = m[2]]
    BY <1>3 DEF Life!Move, Stages
  <2>2. CASE u # v
    BY <1>1, <2>1, <2>2 DEF Stages
  <2>3. CASE u = v
    <3>1. StageOf(u) = m[1] /\ StageOf(u)' = m[2]
      BY <1>1, <2>1, <2>3 DEF Stages
    <3> QED
      BY <3>1 DEF Life!Moves
  <2> QED
    BY <2>2, <2>3
<1> QED
  BY <1>1, <1>2, <1>3 DEF Life!Next

\* In the terms of the program: for an account in no fault and no crossing
\* rotation, COMMIT of a login finds its key stored, COMMIT of a logout finds
\* it gone, and only an online account loses its key.
THEOREM RowChangesOverKey == Spec => RowFollowsKey
<1>1. ASSUME TypeOK, [Life!Next]_Stages, NEW u \in User, ~Disturbed(u), ~Disturbed(u)'
      PROVE  /\ status[u] = 0 /\ status'[u] = 1 => store[u] # NoTok
             /\ status[u] = 1 /\ status'[u] = 0 => store[u] = NoTok
             /\ store[u] # NoTok /\ store'[u] = NoTok => status[u] = 1
  <2>1. \/ StageOf(u)' = StageOf(u)
        \/ <<StageOf(u), StageOf(u)'>> \in Life!Moves
    BY <1>1, MoveOf DEF StageOf
  <2>2. StageOf(u) = IF status[u] = 0
                     THEN IF store[u] = NoTok THEN "offline" ELSE "opening"
                     ELSE IF store[u] # NoTok THEN "online"
                     ELSE IF LogoutCommits(u) THEN "closing" ELSE "rotating"
    BY <1>1 DEF StageOf
  <2>3. StageOf(u)' = IF status'[u] = 0
                      THEN IF store'[u] = NoTok THEN "offline" ELSE "opening"
                      ELSE IF store'[u] # NoTok THEN "online"
                      ELSE IF LogoutCommits(u)' THEN "closing" ELSE "rotating"
    BY <1>1 DEF StageOf
  <2> QED
    BY <1>1, <2>1, <2>2, <2>3 DEF Life!Moves, TypeOK
<1>2. TypeOK /\ [Life!Next]_Stages
      => [\A u \in User : ~Disturbed(u) /\ ~Disturbed(u)' =>
             /\ status[u] = 0 /\ status'[u] = 1 => store[u] # NoTok
             /\ status[u] = 1 /\ status'[u] = 0 => store[u] = NoTok
             /\ store[u] # NoTok /\ store'[u] = NoTok => status[u] = 1]_vars
  BY <1>1
<1> QED
  BY <1>2, TypeCorrect, SessionImplementsLife, PTL
  DEF LivesInStages, Life!Spec, Stages, RowFollowsKey
=============================================================================
