------------------------------ MODULE Loggers ------------------------------
(***************************************************************************)
(* LoggerConfig, the adapter that makes a zap logger a logger of fiber.    *)
(* A LoggerConfig holds a slice of CoreConfigs, which it may share with    *)
(* LoggerConfigDefault and with others, and a zap logger built from the    *)
(* slice, which does not follow later changes of it.  Of the cores of a    *)
(* slice only the first ever changes, so it stands for all.                *)
(***************************************************************************)
EXTENDS Integers, FiniteSets

CONSTANTS
    Logger,         \* the LoggerConfigs a program makes
    Slice,          \* backing arrays, that of LoggerConfigDefault among them
    Writer,         \* output destinations
    Stdout,         \* the one every slice starts with
    None,           \* no slice, no logger, no writer
    Levels          \* the levels asked for

\* The levels of fiber, with zap's panic below fatal, and any other number,
\* which the code takes for a warning; zap's are -1 to 5.
Order == [trace |-> 0, debug |-> 1, info |-> 2, warn |-> 3, other |-> 3,
              error |-> 4, panic |-> 5, fatal |-> 6]
ZapRank == -1..5

ASSUME LoggersAssumption ==
    /\ Stdout \in Writer
    /\ None \notin Slice /\ None \notin Logger /\ None \notin Writer
    /\ Levels \subseteq DOMAIN Order

Core == [out : Writer, min : ZapRank]
Fresh == [out |-> Stdout, min |-> 0]

\* Log, Logf and Logw; Info, Infof, Infow and the like only call them.
Family == {"log", "logf", "logw"}

Settings == [out : Writer, level : DOMAIN Order]
Documented == [out |-> Stdout, level |-> "info"]

Config == [kind : {"none", "cores", "wrapped", "derived"}, slice : Slice \cup {None},
           core : Core]
Unmade == [kind |-> "none", slice |-> None, core |-> Fresh]
NoCall == [by |-> None, family |-> "log", asked |-> "info", paired |-> TRUE,
           out |-> None, effect |-> "return"]

VARIABLES
    first,      \* first[s]: CoreConfigs[0] of slice s
    config,     \* config[l]: how l was made, its slice, and the core its zap
                \* logger was built from
    told,       \* auxiliary: told[l], the settings l was made with and given
    call        \* the message just logged: by whom, how, where it is written
                \* (None: nowhere), and what the call does to its caller

vars == <<first, config, told, call>>

Init ==
    /\ first = [s \in Slice |-> Fresh]
    /\ config = [l \in Logger |-> Unmade]
    /\ told = [l \in Logger |-> Documented]
    /\ call = NoCall

-----------------------------------------------------------------------------

Make(l, kind, s, core, wish) ==
    /\ config[l].kind = "none"
    /\ config' = [config EXCEPT ![l] = [kind |-> kind, slice |-> s, core |-> core]]
    /\ told' = [told EXCEPT ![l] = wish]
    /\ UNCHANGED first

\* Mutant: zap's InvalidLevel for a level the switch does not list.
SetLevelToInvalid(lv) ==
    CASE lv \in {"trace", "debug"} -> -1 [] lv = "info" -> 0 [] lv = "warn" -> 1
      [] lv = "error" -> 2 [] lv = "panic" -> 4 [] lv = "fatal" -> 5 [] OTHER -> 6

\* Mutant: Trace is not a case of the switch.
SetLevelToTraceless(lv) ==
    CASE lv = "debug" -> -1 [] lv = "info" -> 0 [] lv = "warn" -> 1
      [] lv = "error" -> 2 [] lv = "panic" -> 4 [] lv = "fatal" -> 5 [] OTHER -> 1

\* The zap level for a level of fiber, and for what is none.
SetLevelTo(lv) ==
    CASE lv \in {"trace", "debug"} -> -1 [] lv = "info" -> 0 [] lv = "warn" -> 1
      [] lv = "error" -> 2 [] lv = "panic" -> 4 [] lv = "fatal" -> 5 [] OTHER -> 1

\* NewLogger, with a slice of its own, with one another config has too, or
\* with that of LoggerConfigDefault: the caller expects what it starts with.
\* Or with SetLogger, a finished zap logger.
NewLogger(l) ==
    \/ \E s \in Slice : Make(l, "cores", s, first[s], Documented)
    \/ \E w \in Writer, lv \in Levels :
          Make(l, "wrapped", None, [out |-> w, min |-> SetLevelTo(lv)],
               [out |-> w, level |-> lv])

\* The new logger has the zap logger and nothing else; fiber sees it as a
\* CommonLogger, which has no setters.
WithContext(l, m) ==
    /\ config[l].kind # "none"
    /\ Make(m, "derived", None, config[l].core, told[l])

\* Mutant: the setters build the logger and leave the slice as it was.
ApplyUnsaved(l, core) ==
    /\ config' = [config EXCEPT ![l].core = core]
    /\ UNCHANGED first

\* A setter writes to the slice and builds the zap logger anew from all of it.
Apply(l, core) ==
    /\ first' = [first EXCEPT ![config[l].slice] = core]
    /\ config' = [config EXCEPT ![l].core = core]

SetOutput(l, w) ==
    \/ /\ config[l].kind = "cores"
       /\ Apply(l, [first[config[l].slice] EXCEPT !.out = w])
       /\ told' = [told EXCEPT ![l].out = w]
    \/ config[l].kind = "wrapped" /\ UNCHANGED <<first, config, told>>

SetLevel(l, lv) ==
    \/ /\ config[l].kind = "cores"
       /\ Apply(l, [first[config[l].slice] EXCEPT !.min = SetLevelTo(lv)])
       /\ told' = [told EXCEPT ![l].level = lv]
    \/ config[l].kind = "wrapped" /\ UNCHANGED <<first, config, told>>

\* What Log, Logf and Logw call in zap.  Only Log knows LevelPanic, and Logw
\* warns instead when keys and values do not come in pairs.
Severity(family, lv, paired) ==
    CASE family = "logw" /\ ~paired -> 1
      [] family \in {"logf", "logw"} /\ lv = "panic" -> 1
      [] OTHER -> SetLevelTo(lv)

\* zap writes what the core enables; its Panic and Fatal take effect whether
\* or not anything is written.
Log(l, family, lv, paired) ==
    /\ config[l].kind # "none"
    /\ LET sev == Severity(family, lv, paired)
       IN  call' = [by |-> l, family |-> family, asked |-> lv, paired |-> paired,
                    out |-> IF sev >= config[l].core.min THEN config[l].core.out ELSE None,
                    effect |-> CASE sev = 4 -> "panic" [] sev = 5 -> "exit"
                                 [] OTHER -> "return"]
    /\ UNCHANGED <<first, config, told>>

Configure(l) ==
    /\ \/ NewLogger(l)
       \/ \E m \in Logger : WithContext(l, m)
       \/ \E w \in Writer : SetOutput(l, w)
       \/ \E lv \in Levels : SetLevel(l, lv)
    /\ call' = NoCall

\* After "exit" the process is gone.
Next ==
    /\ call.effect # "exit"
    /\ \E l \in Logger :
          \/ Configure(l)
          \/ \E family \in Family, lv \in Levels, paired \in BOOLEAN :
                Log(l, family, lv, paired)

Spec == Init /\ [][Next]_vars
=============================================================================
