----------------------------- MODULE HealthProofs -----------------------------
(***************************************************************************)
(* Proofs about the health report, for any number of handlers and any pool *)
(* sizes.                                                                  *)
(***************************************************************************)
EXTENDS HealthProps, FiniteSetTheorems, TLAPS

\* The connections the pool has open never exceed its size, and the total
\* that was read is off by those closed since, as long as none was opened.
PoolInv ==
    /\ Open <= PoolSize
    /\ ~dialled => total = Open + closed

Inv == TypeOK /\ PoolInv

\* How the number of held connections follows the set.
LEMMA UsedNat ==
  ASSUME TypeOK
  PROVE  Used \in Nat /\ (\A h \in Handler : h \in inRedis => Used >= 1)
<1>1. IsFiniteSet(inRedis)
  BY HealthAssumption, FS_Subset DEF TypeOK
<1>2. Used \in Nat
  BY <1>1, FS_CardinalityType DEF Used
<1>3. \A h \in Handler : h \in inRedis => Used # 0
  BY <1>1, FS_EmptySet DEF Used
<1> QED
  BY <1>2, <1>3

LEMMA UsedTake ==
  ASSUME TypeOK, NEW h \in Handler, h \notin inRedis, inRedis' = inRedis \cup {h}
  PROVE  Used' = Used + 1
<1>1. IsFiniteSet(inRedis)
  BY HealthAssumption, FS_Subset DEF TypeOK
<1> QED
  BY <1>1, FS_AddElement DEF Used

LEMMA UsedPut ==
  ASSUME TypeOK, NEW h \in Handler, h \in inRedis, inRedis' = inRedis \ {h}
  PROVE  Used' = Used - 1
<1>1. IsFiniteSet(inRedis)
  BY HealthAssumption, FS_Subset DEF TypeOK
<1> QED
  BY <1>1, FS_RemoveElement DEF Used

\* The uint32 subtraction is exact when it does not wrap, and always fits.
LEMMA ActiveFits ==
  ASSUME NEW t \in 0..PoolSize, NEW i \in 0..PoolSize
  PROVE  /\ Active(t, i) \in 0..(Word - 1)
         /\ i <= t => Active(t, i) = t - i
  BY HealthAssumption DEF Active

LEMMA InitInv == Init => Inv
<1> SUFFICES ASSUME Init PROVE Inv
  OBVIOUS
<1>1. Used = 0
  BY FS_EmptySet DEF Init, Used
<1>2. 0 \in 0..PoolSize /\ PoolSize \in Nat
  BY HealthAssumption
<1>3. TypeOK
  BY <1>2 DEF Init, TypeOK, PCs
<1>4. PoolInv
  BY <1>1, <1>2 DEF Init, PoolInv, Open
<1> QED
  BY <1>3, <1>4 DEF Inv

\* A step that leaves the pool alone leaves its size alone.
LEMMA SamePool ==
  ASSUME PoolInv, inRedis' = inRedis, idle' = idle, UNCHANGED <<total, dialled, closed>>
  PROVE  PoolInv'
  BY DEF PoolInv, Open, Used

LEMMA InvStep == Inv /\ [Next]_vars => Inv'
<1> SUFFICES ASSUME Inv, [Next]_vars PROVE Inv'
  OBVIOUS
<1>0. /\ PoolSize \in Nat
      /\ Used \in Nat
      /\ idle \in Nat /\ closed \in Nat /\ total \in Nat
      /\ total <= PoolSize
      /\ idle + Used <= PoolSize
      /\ ~dialled => total = idle + Used + closed
      /\ TypeOK /\ PoolInv
  BY HealthAssumption, UsedNat DEF Inv, TypeOK, PoolInv, Open
<1>1. ASSUME NEW h \in Handler, BeginTx(h) PROVE Inv'
  <2>1. PoolInv'
    BY <1>0, <1>1, SamePool DEF BeginTx, report, aux
  <2>2. TypeOK'
    BY <1>0, <1>1 DEF BeginTx, TypeOK, process, report, aux
  <2> QED
    BY <2>1, <2>2 DEF Inv
<1>2. ASSUME NEW h \in Handler, EndTx(h) PROVE Inv'
  <2>1. PoolInv'
    BY <1>0, <1>2, SamePool DEF EndTx, report, aux
  <2>2. TypeOK'
    BY <1>0, <1>2 DEF EndTx, TypeOK, process, report, aux
  <2> QED
    BY <2>1, <2>2 DEF Inv
<1>3. ASSUME NEW h \in Handler, Take(h) PROVE Inv'
  <2>1. Used' = Used + 1
    BY <1>0, <1>3, UsedTake DEF Take
  <2>2. idle' \in Nat /\ idle' <= PoolSize /\ idle' + Used' <= PoolSize
    BY <1>0, <1>3, <2>1 DEF Take
  <2>3. ~dialled' => ~dialled /\ idle' + Used' = idle + Used
    BY <1>0, <1>3, <2>1 DEF Take
  <2>4. total' = total /\ closed' = closed
    BY <1>3 DEF Take, report
  <2>5. PoolInv'
    BY <1>0, <2>1, <2>2, <2>3, <2>4 DEF PoolInv, Open
  <2>6. idle' \in 0..PoolSize
    BY <1>0, <2>2
  <2>7. dialled' \in BOOLEAN
    BY <1>0, <1>3 DEF Take, TypeOK
  <2>8. TypeOK'
    BY <1>0, <1>3, <2>6, <2>7 DEF Take, TypeOK, process, report
  <2> QED
    BY <2>5, <2>8 DEF Inv
<1>4. ASSUME NEW h \in Handler, Put(h) PROVE Inv'
  <2>1. Used' = Used - 1 /\ Used >= 1
    BY <1>0, <1>4, UsedNat, UsedPut DEF Put
  <2>2. \/ idle' = idle + 1 /\ closed' = closed
        \/ idle' = idle /\ closed' = IF dialled THEN closed ELSE closed + 1
    BY <1>4 DEF Put
  <2>3. total' = total /\ dialled' = dialled
    BY <1>4 DEF Put, report
  <2>4. PoolInv'
    BY <1>0, <2>1, <2>2, <2>3 DEF PoolInv, Open
  <2>5. idle' \in 0..PoolSize /\ closed' \in 0..PoolSize
    <3>1. closed \in 0..PoolSize
      BY <1>0 DEF TypeOK
    <3> QED
      BY <1>0, <2>1, <2>2, <3>1
  <2>6. TypeOK'
    BY <1>0, <1>4, <2>3, <2>5 DEF Put, TypeOK, process, report
  <2> QED
    BY <2>4, <2>6 DEF Inv
<1>5. CASE Start
  <2>1. PoolInv'
    BY <1>0, <1>5, SamePool DEF Start, pool, report, aux
  <2>2. TypeOK'
    BY <1>0, <1>5 DEF Start, TypeOK, process, pool, report, aux, PCs
  <2> QED
    BY <2>1, <2>2 DEF Inv
<1>6. CASE PingDb
  <2>1. PoolInv'
    BY <1>0, <1>6, SamePool DEF PingDb, pool, report, aux
  <2>2. TypeOK'
    BY <1>0, <1>6 DEF PingDb, TypeOK, process, pool, report, aux, PCs
  <2> QED
    BY <2>1, <2>2 DEF Inv
<1>7. CASE Fatal
  <2>1. PoolInv'
    BY <1>0, <1>7, SamePool DEF Fatal, pool, report, aux
  <2>2. TypeOK'
    BY <1>0, <1>7 DEF Fatal, TypeOK, pool, report, aux
  <2> QED
    BY <2>1, <2>2 DEF Inv
<1>8. ASSUME Command, UNCHANGED total
      PROVE  PoolInv' /\ idle' \in 0..PoolSize /\ dialled' \in BOOLEAN
  <2>1. Used' = Used /\ Used < PoolSize /\ closed' = closed /\ total' = total
    BY <1>8 DEF Command, Used
  <2>2. CASE idle > 0 /\ UNCHANGED <<idle, dialled>>
    BY <1>0, <1>8, <2>1, <2>2, SamePool DEF Command, TypeOK
  <2>3. CASE idle = 0 /\ idle' = 1 /\ dialled' = TRUE
    <3>1. idle' + Used' <= PoolSize /\ idle' \in 0..PoolSize
      BY <1>0, <2>1, <2>3
    <3> QED
      BY <2>3, <3>1 DEF PoolInv, Open
  <2> QED
    BY <1>8, <2>2, <2>3 DEF Command
<1>9. CASE PingRedis /\ Command /\ pc' = "info" /\ UNCHANGED <<process, report>>
  <2>1. PoolInv' /\ idle' \in 0..PoolSize /\ dialled' \in BOOLEAN
    BY <1>8, <1>9 DEF report
  <2>2. TypeOK'
    BY <1>0, <1>9, <2>1 DEF Command, TypeOK, process, report, PCs
  <2> QED
    BY <2>1, <2>2 DEF Inv
<1>10. CASE Info
  <2>1. CASE Command /\ pc' = "total" /\ alarms' \in SUBSET InfoAlarms
    <3>1. PoolInv' /\ idle' \in 0..PoolSize /\ dialled' \in BOOLEAN
      BY <1>8, <1>10, <2>1 DEF Info
    <3>2. TypeOK'
      BY <1>0, <1>10, <2>1, <3>1
      DEF Info, Command, TypeOK, process, PCs, Alarms
    <3> QED
      BY <3>1, <3>2 DEF Inv
  <2>2. CASE pc' = "reply" /\ UNCHANGED <<pool, alarms>>
    <3>1. PoolInv'
      BY <1>0, <1>10, <2>2, SamePool DEF Info, pool, aux
    <3>2. TypeOK'
      BY <1>0, <1>10, <2>2 DEF Info, TypeOK, process, pool, aux, PCs
    <3> QED
      BY <3>1, <3>2 DEF Inv
  <2> QED
    BY <1>10, <2>1, <2>2 DEF Info
<1>11. CASE ReadTotal
  <2>1. Used' = Used /\ total' = idle + Used /\ closed' = 0 /\ idle' = idle
    BY <1>11 DEF ReadTotal, pool, Open, Used
  <2>2. PoolInv'
    BY <1>0, <2>1 DEF PoolInv, Open
  <2>3. total' \in 0..PoolSize /\ closed' \in 0..PoolSize
    BY <1>0, <2>1
  <2>4. TypeOK'
    BY <1>0, <1>11, <2>3 DEF ReadTotal, TypeOK, process, pool, PCs
  <2> QED
    BY <2>2, <2>4 DEF Inv
<1>12. CASE ReadIdle
  <2>1. Active(total, idle) \in 0..(Word - 1)
    BY <1>0, ActiveFits DEF TypeOK
  <2>2. PoolInv'
    BY <1>0, <1>12, SamePool DEF ReadIdle, pool, aux
  <2>3. TypeOK'
    BY <1>0, <1>12, <2>1 DEF ReadIdle, TypeOK, process, pool, aux, PCs
  <2> QED
    BY <2>2, <2>3 DEF Inv
<1>13. CASE Evaluate
  <2>1. alarms' \subseteq Alarms
    BY <1>0, <1>13 DEF Evaluate, TypeOK, Alarms
  <2>2. PoolInv'
    BY <1>0, <1>13, SamePool DEF Evaluate, pool, aux
  <2>3. TypeOK'
    BY <1>0, <1>13, <2>1 DEF Evaluate, TypeOK, process, pool, aux, PCs
  <2> QED
    BY <2>2, <2>3 DEF Inv
<1>14. CASE Reply
  <2>1. PoolInv'
    BY <1>0, <1>14 DEF Reply, pool, PoolInv, Open, Used
  <2>2. 0 \in 0..PoolSize
    BY <1>0
  <2>3. TypeOK'
    BY <1>0, <1>14, <2>2 DEF Reply, TypeOK, process, pool, PCs
  <2> QED
    BY <2>1, <2>3 DEF Inv
<1>15. CASE Fails
  <2>1. PoolInv'
    BY <1>0, <1>15, SamePool DEF Fails, pool, report, aux
  <2>2. TypeOK'
    BY <1>0, <1>15 DEF Fails, TypeOK, pool, report, aux
  <2> QED
    BY <2>1, <2>2 DEF Inv
<1>16. CASE UNCHANGED vars
  <2>1. PoolInv'
    BY <1>0, <1>16, SamePool DEF vars, pool, report, aux
  <2>2. TypeOK'
    BY <1>0, <1>16 DEF vars, TypeOK, process, pool, report, aux
  <2> QED
    BY <2>1, <2>2 DEF Inv
<1>17. CASE PingRedis
  BY <1>7, <1>9, <1>17 DEF PingRedis
<1> QED
  BY <1>1, <1>2, <1>3, <1>4, <1>5, <1>6, <1>7, <1>10, <1>11, <1>12, <1>13, <1>14,
     <1>15, <1>16, <1>17 DEF Next, HealthStep, PingDbFails

\* The types hold, and with them: the pool is never larger than PoolSize, and
\* every reported figure fits the word.
THEOREM TypeCorrect == Spec => []TypeOK
<1>1. Inv => TypeOK
  BY DEF Inv
<1> QED
  BY <1>1, InitInv, InvStep, PTL DEF Spec

\* However handlers take, return and lose connections between the two reads of
\* PoolStats, redis_active_connections is the number in use plus those closed,
\* unless a connection is opened in between.
THEOREM ReportedActive == Spec => ActiveIsRight
<1>1. Inv /\ [Next]_vars
      => [pc = "idle" /\ pc' = "total2" /\ ~dialled => active' = Used + closed]_vars
  <2> SUFFICES ASSUME Inv, Next, pc = "idle", pc' = "total2", ~dialled
               PROVE  active' = Used + closed
    BY DEF Inv
  <2>1. ReadIdle
    BY DEF Next, HealthStep, BeginTx, EndTx, Take, Put, Start, PingDb, PingDbFails,
           PingRedis, Info, ReadTotal, ReadIdle, Evaluate, Reply, Fails, Fatal
  <2>2. /\ total \in 0..PoolSize /\ idle \in 0..PoolSize /\ closed \in Nat /\ Used \in Nat
        /\ total = idle + Used + closed
    BY UsedNat DEF Inv, TypeOK, PoolInv, Open
  <2>3. idle <= total
    BY <2>2
  <2>4. Active(total, idle) = total - idle
    BY <2>2, <2>3, ActiveFits
  <2> QED
    BY <2>1, <2>2, <2>4 DEF ReadIdle
<1> QED
  BY <1>1, InitInv, InvStep, PTL DEF Spec, ActiveIsRight

-----------------------------------------------------------------------------
(* ReportAgrees *)

\* Of the conditions found, the last one has the message, and the last of all
\* is the utilization.
LEMMA LastConditionWins ==
  ASSUME NEW S \in SUBSET Alarms
  PROVE  Message(S) = "utilization" <=> "utilization" \in S
<1>1. S \subseteq {"clients", "memory", "restarted", "stale", "idle", "utilization"}
  BY DEF Alarms, InfoAlarms
<1> DEFINE Last(a) == a \in S /\ \A b \in S : Order[b] <= Order[a]
           last == CHOOSE a \in S : \A b \in S : Order[b] <= Order[a]
<1>2. CASE S = {}
  BY <1>2 DEF Message
<1>3. CASE S # {}
  <2>1. \E a \in S : Last(a)
    <3>1. CASE "utilization" \in S
      BY <1>1, <3>1 DEF Order
    <3>2. CASE "utilization" \notin S /\ "idle" \in S
      BY <1>1, <3>2 DEF Order
    <3>3. CASE S \subseteq {"clients", "memory", "restarted", "stale"} /\ "restarted" \in S
      BY <3>3 DEF Order
    <3>4. CASE S \subseteq {"clients", "memory", "stale"} /\ "memory" \in S
      BY <3>4 DEF Order
    <3>5. CASE S \subseteq {"clients", "stale"} /\ "stale" \in S
      BY <3>5 DEF Order
    <3>6. CASE S \subseteq {"clients"}
      <4>1. "clients" \in S /\ \A b \in S : b = "clients"
        BY <1>3, <3>6
      <4>2. Order["clients"] = 1
        BY DEF Order
      <4> QED
        BY <4>1, <4>2
    <3> QED
      BY <1>1, <3>1, <3>2, <3>3, <3>4, <3>5, <3>6
  <2>2. Last(last)
    BY <2>1
  <2>3. Message(S) = last
    BY <1>3 DEF Message
  <2> HIDE DEF last
  <2>4. "utilization" \in S => last = "utilization"
    BY <1>1, <2>2 DEF Order
  <2> QED
    BY <2>2, <2>3, <2>4
<1> QED
  BY <1>2, <1>3

\* As long as no connection moves, the two PoolStats of a report agree.
StillInv ==
    /\ still => pc \in {"idle", "total2", "idle2", "reply"}
    /\ still /\ pc \in {"idle", "idle2"} => total = Open
    /\ still /\ pc \in {"total2", "idle2"} => active = Active(Open, idle)
    /\ pc # "reply" => "utilization" \notin alarms
    /\ still /\ pc = "reply" => ("utilization" \in alarms <=> 10 * active > 9 * PoolSize)

LEMMA InitStill == Init => StillInv
BY DEF Init, StillInv

LEMMA StillStep == Inv /\ StillInv /\ [Next]_vars => StillInv'
<1> SUFFICES ASSUME Inv, StillInv, [Next]_vars PROVE StillInv'
  OBVIOUS
<1>1. ASSUME NEW h \in Handler, BeginTx(h) \/ EndTx(h) \/ Take(h) \/ Put(h)
      PROVE  StillInv'
  BY <1>1 DEF BeginTx, EndTx, Take, Put, StillInv, Open, Used, report, aux
<1>2. CASE Start \/ PingDb \/ PingDbFails \/ Fatal
  BY <1>2 DEF Start, PingDb, PingDbFails, Fatal, StillInv, Open, Used, pool, report, aux
<1>3. CASE PingRedis
  BY <1>2, <1>3 DEF PingRedis, Command, StillInv, report
<1>4. CASE Info
  BY <1>4 DEF Info, Command, StillInv, InfoAlarms, aux
<1>5. CASE ReadTotal
  BY <1>5 DEF ReadTotal, StillInv, Open, Used, pool
<1>6. CASE ReadIdle
  BY <1>6 DEF ReadIdle, StillInv, Open, Used, pool, aux
<1>7. CASE Evaluate
  <2>1. "utilization" \in alarms' <=> Utilized(total, idle)
    BY <1>7 DEF Evaluate, StillInv
  <2>2. still => active = Active(total, idle)
    BY <1>7 DEF Evaluate, StillInv
  <2>3. pc' = "reply" /\ active' = active /\ still' = still
    BY <1>7 DEF Evaluate, aux
  <2> QED
    BY <2>1, <2>2, <2>3 DEF StillInv, Utilized
<1>8. CASE Reply
  BY <1>8 DEF Reply, StillInv
<1>9. CASE Fails \/ UNCHANGED vars
  BY <1>9 DEF Fails, vars, process, pool, report, aux, StillInv, Open, Used
<1> QED
  BY <1>1, <1>2, <1>3, <1>4, <1>5, <1>6, <1>7, <1>8, <1>9 DEF Next, HealthStep

\* While no connection moves, the message of a report says high utilization
\* exactly if its figure does, whatever other conditions it found before.
THEOREM FigureAndMessageAgree == Spec => []ReportAgrees
<1>1. Inv /\ StillInv => ReportAgrees
  BY LastConditionWins DEF Inv, TypeOK, StillInv, ReportAgrees
<1> QED
  BY <1>1, InitInv, InvStep, InitStill, StillStep, PTL DEF Spec
=============================================================================
