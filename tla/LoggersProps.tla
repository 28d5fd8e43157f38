---------------------------- MODULE LoggersProps ----------------------------
(***************************************************************************)
(* What a logger owes to the program that configured it.                   *)
(***************************************************************************)
EXTENDS Loggers

\* The types of the variables.
TypeOK ==
    /\ first \in [Slice -> Core]
    /\ config \in [Logger -> Config]
    /\ told \in [Logger -> Settings]
    /\ call \in [by : Logger \cup {None}, family : Family, asked : DOMAIN Order,
                 paired : BOOLEAN, out : Writer \cup {None},
                 effect : {"return", "panic", "exit"}]

\* No other logger was made from the slice of l.
Alone(l) ==
    \/ config[l].slice = None
    \/ \A m \in Logger : m # l => config[m].slice # config[l].slice

\* logger.go:31 and 131, a logger that shares its slice with no other has the
\* output its own SetOutput and the level its own SetLevel gave it, in
\* whatever order and number they were called, and whatever was done to other
\* loggers; one made with SetLogger ignores both.
AloneKeepsSettings ==
    \A l \in Logger :
        config[l].kind \in {"cores", "wrapped"} /\ Alone(l) =>
            config[l].core = [out |-> told[l].out, min |-> SetLevelTo(told[l].level)]

\* A message at the level such a logger was set to, or above it, is written
\* to its output and takes effect as Panic or Fatal; only Panicf, Panicw and
\* a Logw without pairs are demoted to warnings and may get lost.
NothingLost ==
    LET l == call.by
        demoted == \/ call.family # "log" /\ call.asked = "panic"
                   \/ call.family = "logw" /\ ~call.paired
    IN  l # None =>
          (/\ config[l].kind \in {"cores", "wrapped"} /\ Alone(l)
           /\ Order[call.asked] >= Order[told[l].level]
           /\ ~demoted
           => /\ call.out = told[l].out
              /\ call.effect = (CASE call.asked = "panic" -> "panic"
                                  [] call.asked = "fatal" -> "exit"
                                  [] OTHER -> "return"))
=============================================================================
