---------------------------- MODULE LoggersProofs ----------------------------
(***************************************************************************)
(* Proofs of the properties of Loggers, for any number of loggers, slices  *)
(* and writers.                                                            *)
(***************************************************************************)
EXTENDS LoggersProps, TLAPS

-----------------------------------------------------------------------------
(* Lemmas about the levels *)

\* SetLevel: every level of fiber has a level of zap.
LEMMA LevelType ==
    ASSUME NEW lv \in DOMAIN Order
    PROVE  SetLevelTo(lv) \in ZapRank
<1>1. lv \in {"trace", "debug", "info", "warn", "error", "panic", "fatal", "other"}
  BY DEF Order
<1>2. SetLevelTo(lv) \in {-1, 0, 1, 2, 4, 5}
  BY <1>1 DEF SetLevelTo
<1>3. QED BY <1>2 DEF ZapRank

\* The switch of SetLevel keeps the order of the levels.
LEMMA LevelsInOrder ==
    ASSUME NEW a \in DOMAIN Order, NEW b \in DOMAIN Order, Order[a] >= Order[b]
    PROVE  SetLevelTo(a) >= SetLevelTo(b)
<1>1. /\ a \in {"trace", "debug", "info", "warn", "error", "panic", "fatal", "other"}
      /\ b \in {"trace", "debug", "info", "warn", "error", "panic", "fatal", "other"}
  BY DEF Order
<1>2. QED BY <1>1 DEF Order, SetLevelTo

\* Log, Logf and Logw: a message that is not demoted is logged at the level
\* SetLevel knows it by.
LEMMA SeverityIsLevel ==
    ASSUME NEW family \in Family, NEW lv \in DOMAIN Order, NEW paired \in BOOLEAN,
           ~(family # "log" /\ lv = "panic"), ~(family = "logw" /\ ~paired)
    PROVE  Severity(family, lv, paired) = SetLevelTo(lv)
BY DEF Severity, Family

\* What the call does to its caller at each severity.
LEMMA EffectOfLevel ==
    ASSUME NEW lv \in DOMAIN Order
    PROVE  /\ SetLevelTo(lv) = 4 <=> lv = "panic"
           /\ SetLevelTo(lv) = 5 <=> lv = "fatal"
<1>1. lv \in {"trace", "debug", "info", "warn", "error", "panic", "fatal", "other"}
  BY DEF Order
<1>2. QED BY <1>1 DEF SetLevelTo

-----------------------------------------------------------------------------
(* The inductive invariant *)

\* NewLogger, SetLogger and WithContext: who has a slice.
SliceOfKind ==
    \A l \in Logger : config[l].kind = "cores" <=> config[l].slice # None

\* Setters write to the slice of a logger only.
UnusedIsFresh ==
    \A s \in Slice : (\A l \in Logger : config[l].slice # s) => first[s] = Fresh

\* The zap logger of a logger that shares nothing is built from its slice.
AloneIsCurrent ==
    \A l \in Logger : config[l].kind = "cores" /\ Alone(l) =>
        config[l].core = first[config[l].slice]

LoggersInv ==
    /\ TypeOK /\ SliceOfKind /\ UnusedIsFresh /\ AloneIsCurrent
    /\ AloneKeepsSettings /\ NothingLost

LEMMA FreshType == Fresh \in Core /\ SetLevelTo("info") = 0
BY LoggersAssumption DEF Fresh, Core, ZapRank, SetLevelTo

LEMMA LoggersInit == Init => LoggersInv
<1> SUFFICES ASSUME Init PROVE LoggersInv
  OBVIOUS
<1> USE LoggersAssumption DEF Init
<1>1. Documented \in Settings /\ Unmade \in Config
  BY FreshType DEF Documented, Settings, Order, Unmade, Config
<1>2. TypeOK
  BY <1>1, FreshType DEF TypeOK, NoCall, Family, Order
<1>3. SliceOfKind /\ UnusedIsFresh /\ AloneIsCurrent /\ AloneKeepsSettings /\ NothingLost
  BY DEF SliceOfKind, UnusedIsFresh, AloneIsCurrent, AloneKeepsSettings, NothingLost,
         Unmade, NoCall
<1>4. QED BY <1>2, <1>3 DEF LoggersInv

-----------------------------------------------------------------------------
(* Every step keeps it *)

\* A new logger, with a slice as it is or without one.
LEMMA MakeIsSafe ==
    ASSUME LoggersInv, NEW l \in Logger, NEW kind \in {"cores", "wrapped", "derived"},
           NEW s \in Slice \cup {None}, NEW core \in Core, NEW wish \in Settings,
           Make(l, kind, s, core, wish), call' = NoCall,
           kind = "cores" <=> s # None,
           kind = "cores" => core = first[s] /\ wish = Documented,
           kind = "wrapped" => core = [out |-> wish.out, min |-> SetLevelTo(wish.level)]
    PROVE  LoggersInv'
<1> USE DEF LoggersInv, TypeOK
<1>1. /\ config' \in [Logger -> Config] /\ told' \in [Logger -> Settings]
      /\ config'[l] = [kind |-> kind, slice |-> s, core |-> core] /\ told'[l] = wish
      /\ \A m \in Logger \ {l} : config'[m] = config[m] /\ told'[m] = told[m]
      /\ config[l].slice = None
      /\ first' = first
  BY DEF Make, Config, SliceOfKind
<1>2. TypeOK'
  BY <1>1, LoggersAssumption DEF NoCall, Family, Order
<1>3. SliceOfKind'
  BY <1>1 DEF SliceOfKind
<1>4. UnusedIsFresh'
  <2>1. \A t \in Slice : (\A m \in Logger : config'[m].slice # t)
                            => \A m \in Logger : config[m].slice # t
    BY <1>1, LoggersAssumption
  <2>2. QED BY <1>1, <2>1 DEF UnusedIsFresh
<1>5. \A m \in Logger \ {l} : Alone(m)' => Alone(m)
  BY <1>1, LoggersAssumption DEF Alone
<1>6. kind = "cores" /\ Alone(l)' => core = Fresh
  <2>1. SUFFICES ASSUME kind = "cores", Alone(l)' PROVE core = Fresh
    OBVIOUS
  <2>2. s \in Slice
    BY <2>1
  <2>3. \A m \in Logger : config[m].slice # s
    BY <1>1, <2>1, <2>2, LoggersAssumption DEF Alone
  <2>4. QED BY <2>1, <2>2, <2>3 DEF UnusedIsFresh
<1>7. AloneIsCurrent'
  BY <1>1, <1>5 DEF AloneIsCurrent
<1>8. AloneKeepsSettings'
  <2> SUFFICES ASSUME NEW m \in Logger, config'[m].kind \in {"cores", "wrapped"}, Alone(m)'
               PROVE  config'[m].core = [out |-> told'[m].out,
                                         min |-> SetLevelTo(told'[m].level)]
    BY DEF AloneKeepsSettings, SetLevelTo
  <2>1. CASE m # l
    BY <1>1, <1>5, <2>1 DEF AloneKeepsSettings
  <2>2. CASE m = l /\ kind = "cores"
    BY <1>1, <1>6, <2>2, FreshType DEF Fresh, Documented
  <2>3. CASE m = l /\ kind # "cores"
    BY <1>1, <2>3
  <2>4. QED BY <2>1, <2>2, <2>3
<1>9. NothingLost'
  BY DEF NothingLost, NoCall
<1>10. QED BY <1>2, <1>3, <1>4, <1>7, <1>8, <1>9

\* A setter of a logger with a slice.
LEMMA ApplyIsSafe ==
    ASSUME LoggersInv, NEW l \in Logger, config[l].kind = "cores",
           NEW core \in Core, NEW wish \in Settings,
           Apply(l, core), told' = [told EXCEPT ![l] = wish], call' = NoCall,
           Alone(l) => core = [out |-> wish.out, min |-> SetLevelTo(wish.level)]
    PROVE  LoggersInv'
<1> USE DEF LoggersInv, TypeOK
<1>1. config[l].slice \in Slice
  BY DEF SliceOfKind, Config
<1>2. /\ config' \in [Logger -> Config] /\ told' \in [Logger -> Settings]
      /\ config'[l].core = core /\ told'[l] = wish
      /\ \A m \in Logger : config'[m].kind = config[m].kind
                           /\ config'[m].slice = config[m].slice
      /\ \A m \in Logger \ {l} : config'[m] = config[m] /\ told'[m] = told[m]
  BY DEF Apply, Config
<1>3. /\ first' \in [Slice -> Core] /\ first'[config[l].slice] = core
      /\ \A t \in Slice \ {config[l].slice} : first'[t] = first[t]
  BY <1>1 DEF Apply
<1>4. TypeOK'
  BY <1>2, <1>3, LoggersAssumption DEF NoCall, Family, Order
<1>5. SliceOfKind'
  BY <1>2 DEF SliceOfKind
<1>6. UnusedIsFresh'
  BY <1>2, <1>3 DEF UnusedIsFresh
<1>7. \A m \in Logger : Alone(m)' <=> Alone(m)
  BY <1>2 DEF Alone
<1>8. AloneIsCurrent'
  <2> SUFFICES ASSUME NEW m \in Logger, config[m].kind = "cores", Alone(m)
               PROVE  config'[m].core = first'[config[m].slice]
    BY <1>2, <1>7 DEF AloneIsCurrent
  <2>1. CASE m = l
    BY <1>2, <1>3, <2>1
  <2>2. CASE m # l
    <3>1. config[m].slice \in Slice
      BY DEF SliceOfKind, Config
    <3>2. config[l].slice # config[m].slice
      BY <2>2, <3>1, LoggersAssumption DEF Alone
    <3>3. QED BY <1>2, <1>3, <2>2, <3>1, <3>2 DEF AloneIsCurrent
  <2>3. QED BY <2>1, <2>2
<1>9. AloneKeepsSettings'
  <2> SUFFICES ASSUME NEW m \in Logger, config[m].kind \in {"cores", "wrapped"}, Alone(m)
               PROVE  config'[m].core = [out |-> told'[m].out,
                                         min |-> SetLevelTo(told'[m].level)]
    BY <1>2, <1>7 DEF AloneKeepsSettings, SetLevelTo
  <2>1. CASE m = l
    BY <1>2, <2>1
  <2>2. CASE m # l
    BY <1>2, <2>2 DEF AloneKeepsSettings
  <2>3. QED BY <2>1, <2>2
<1>10. NothingLost'
  BY DEF NothingLost, NoCall
<1>11. QED BY <1>4, <1>5, <1>6, <1>8, <1>9, <1>10

LEMMA ConfigureIsSafe ==
    ASSUME LoggersInv, NEW l \in Logger, Configure(l)
    PROVE  LoggersInv'
<1> USE DEF LoggersInv, TypeOK
<1>0. call' = NoCall
  BY DEF Configure
<1>1. Levels \subseteq DOMAIN Order /\ None \notin Slice
  BY LoggersAssumption
<1>2. CASE NewLogger(l)
  <2>1. ASSUME NEW s \in Slice, Make(l, "cores", s, first[s], Documented)
        PROVE  LoggersInv'
    <3>1. Documented \in Settings
      BY LoggersAssumption DEF Documented, Settings, Order
    <3>2. QED BY <1>0, <1>1, <2>1, <3>1, MakeIsSafe
  <2>2. ASSUME NEW w \in Writer, NEW lv \in Levels,
               Make(l, "wrapped", None, [out |-> w, min |-> SetLevelTo(lv)],
                    [out |-> w, level |-> lv])
        PROVE  LoggersInv'
    <3> DEFINE core == [out |-> w, min |-> SetLevelTo(lv)]
               wish == [out |-> w, level |-> lv]
    <3>1. core \in Core
      BY <1>1, LevelType DEF Core
    <3>2. wish \in Settings /\ core = [out |-> wish.out, min |-> SetLevelTo(wish.level)]
      BY <1>1 DEF Settings
    <3>3. Make(l, "wrapped", None, core, wish)
      BY <2>2
    <3> HIDE DEF core, wish
    <3>4. QED BY <1>0, <3>1, <3>2, <3>3, MakeIsSafe
  <2>3. QED BY <1>2, <2>1, <2>2 DEF NewLogger
<1>3. ASSUME NEW m \in Logger, WithContext(l, m) PROVE LoggersInv'
  <2>1. config[l].core \in Core /\ told[l] \in Settings
    BY DEF Config
  <2>2. Make(m, "derived", None, config[l].core, told[l])
    BY <1>3 DEF WithContext
  <2>3. QED BY <1>0, <2>1, <2>2, MakeIsSafe
<1>4. CASE UNCHANGED <<first, config, told>>
  BY <1>0, <1>4, LoggersAssumption DEF SliceOfKind, UnusedIsFresh, AloneIsCurrent,
     AloneKeepsSettings, NothingLost, Alone, NoCall, Family, Order, SetLevelTo
<1>6. config[l].kind = "cores" =>
        /\ first[config[l].slice] \in Core
        /\ Alone(l) => first[config[l].slice] =
                         [out |-> told[l].out, min |-> SetLevelTo(told[l].level)]
  BY DEF SliceOfKind, Config, AloneIsCurrent, AloneKeepsSettings
<1>7. ASSUME NEW w \in Writer, SetOutput(l, w) PROVE LoggersInv'
  <2>1. CASE config[l].kind = "cores"
    <3> DEFINE core == [first[config[l].slice] EXCEPT !.out = w]
               wish == [told[l] EXCEPT !.out = w]
    <3>1. core \in Core /\ wish \in Settings
      BY <1>6, <2>1 DEF Core, Settings
    <3>2. Apply(l, core) /\ told' = [told EXCEPT ![l] = wish]
      BY <1>7, <2>1 DEF SetOutput
    <3>3. Alone(l) => core = [out |-> wish.out, min |-> SetLevelTo(wish.level)]
      BY <1>6, <2>1 DEF Settings
    <3> HIDE DEF core, wish
    <3>4. QED BY <1>0, <2>1, <3>1, <3>2, <3>3, ApplyIsSafe
  <2>2. QED BY <1>4, <1>7, <2>1 DEF SetOutput
<1>8. ASSUME NEW lv \in Levels, SetLevel(l, lv) PROVE LoggersInv'
  <2>1. CASE config[l].kind = "cores"
    <3> DEFINE core == [first[config[l].slice] EXCEPT !.min = SetLevelTo(lv)]
               wish == [told[l] EXCEPT !.level = lv]
    <3>1. core \in Core /\ wish \in Settings
      BY <1>1, <1>6, <2>1, LevelType DEF Core, Settings
    <3>2. Apply(l, core) /\ told' = [told EXCEPT ![l] = wish]
      BY <1>8, <2>1 DEF SetLevel
    <3>3. Alone(l) => core = [out |-> wish.out, min |-> SetLevelTo(wish.level)]
      BY <1>6, <2>1 DEF Settings
    <3> HIDE DEF core, wish
    <3>4. QED BY <1>0, <2>1, <3>1, <3>2, <3>3, ApplyIsSafe
  <2>2. QED BY <1>4, <1>8, <2>1 DEF SetLevel
<1>9. QED BY <1>2, <1>3, <1>7, <1>8 DEF Configure

LEMMA LogIsSafe ==
    ASSUME LoggersInv, NEW l \in Logger, NEW family \in Family, NEW lv \in Levels,
           NEW paired \in BOOLEAN, Log(l, family, lv, paired)
    PROVE  LoggersInv'
<1> USE DEF LoggersInv, TypeOK
<1> DEFINE sev == Severity(family, lv, paired)
           out == IF sev >= config[l].core.min THEN config[l].core.out ELSE None
           effect == CASE sev = 4 -> "panic" [] sev = 5 -> "exit" [] OTHER -> "return"
<1>1. lv \in DOMAIN Order
  BY LoggersAssumption
<1>2. UNCHANGED <<first, config, told>>
  BY DEF Log
<1>3. call' = [by |-> l, family |-> family, asked |-> lv, paired |-> paired,
               out |-> out, effect |-> effect]
  BY Zenon DEF Log
<1>4. out \in Writer \cup {None} /\ effect \in {"return", "panic", "exit"}
  BY DEF Config, Core
<1>5. SetLevelTo(lv) \in ZapRank
  BY <1>1, LevelType
<1> HIDE DEF out, effect
<1>6. TypeOK'
  BY <1>1, <1>2, <1>3, <1>4
<1>7. SliceOfKind' /\ UnusedIsFresh' /\ AloneIsCurrent' /\ AloneKeepsSettings'
  BY <1>2 DEF SliceOfKind, UnusedIsFresh, AloneIsCurrent, AloneKeepsSettings, Alone, SetLevelTo
<1>8. NothingLost'
  <2> SUFFICES ASSUME config[l].kind \in {"cores", "wrapped"}, Alone(l),
                      Order[lv] >= Order[told[l].level],
                      ~(family # "log" /\ lv = "panic"), ~(family = "logw" /\ ~paired)
               PROVE  /\ out = told[l].out
                      /\ effect = (CASE lv = "panic" -> "panic" [] lv = "fatal" -> "exit"
                                     [] OTHER -> "return")
    BY <1>2, <1>3 DEF NothingLost, Alone
  <2>1. sev = SetLevelTo(lv)
    BY <1>1, SeverityIsLevel
  <2>2. config[l].core = [out |-> told[l].out, min |-> SetLevelTo(told[l].level)]
    BY DEF AloneKeepsSettings
  <2>3. told[l].level \in DOMAIN Order
    BY DEF Settings
  <2>4. SetLevelTo(lv) >= SetLevelTo(told[l].level)
    BY <1>1, <2>3, LevelsInOrder
  <2>5. out = told[l].out
    BY <2>1, <2>2, <2>4 DEF out
  <2>6. (sev = 4 <=> lv = "panic") /\ (sev = 5 <=> lv = "fatal")
    BY <1>1, <2>1, EffectOfLevel
  <2>7. QED BY <2>5, <2>6 DEF effect
<1>9. QED BY <1>6, <1>7, <1>8

LEMMA LoggersStep == LoggersInv /\ [Next]_vars => LoggersInv'
<1> SUFFICES ASSUME LoggersInv, [Next]_vars PROVE LoggersInv'
  OBVIOUS
<1>1. CASE Next
  BY <1>1, ConfigureIsSafe, LogIsSafe DEF Next
<1>2. CASE UNCHANGED vars
  BY <1>2 DEF vars, LoggersInv, TypeOK, SliceOfKind, UnusedIsFresh, AloneIsCurrent,
     AloneKeepsSettings, NothingLost, Alone, SetLevelTo
<1>3. QED BY <1>1, <1>2

-----------------------------------------------------------------------------
(* The theorems *)

LEMMA LoggersInvariant == Spec => []LoggersInv
BY LoggersInit, LoggersStep, PTL DEF Spec

\* The variables keep their types, for any number of loggers.
THEOREM TypeCorrect == Spec => []TypeOK
<1>1. LoggersInv => TypeOK
  BY DEF LoggersInv
<1>2. QED BY <1>1, LoggersInvariant, PTL

\* logger.go:131-180: the settings of a logger that shares its slice with no
\* other are its own, whatever is made of and done to the others.
THEOREM SettingsKept == Spec => []AloneKeepsSettings
<1>1. LoggersInv => AloneKeepsSettings
  BY DEF LoggersInv
<1>2. QED BY <1>1, LoggersInvariant, PTL

\* logger.go:182-328: such a logger loses and softens nothing but Panicf,
\* Panicw and a Logw without pairs.
THEOREM MessagesKept == Spec => []NothingLost
<1>1. LoggersInv => NothingLost
  BY DEF LoggersInv
<1>2. QED BY <1>1, LoggersInvariant, PTL
=============================================================================
