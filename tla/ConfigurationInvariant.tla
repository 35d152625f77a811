------------------------- MODULE ConfigurationInvariant -------------------------
(***************************************************************************)
(* The strengthening that makes the safety of the configuration inductive, *)
(* in named parts.  TLC checks it; ConfigurationProofs.tla proves it.      *)
(***************************************************************************)
EXTENDS Configuration

(* While options are read: what the arguments before `at' say.             *)
Given(r) == {i \in 1 .. at - 1 : argv[i].role = r}

Reading ==
  lpc = "options" =>
    /\ \A i \in 1 .. at - 1 : argv[i].role \in Roles
    /\ \A r \in Roles :
         \/ Given(r) = {} /\ config[r] = Empty
         \/ \E i \in Given(r) : config[r] = argv[i].name /\ \A j \in Given(r) : j <= i

(* Where the listener stands tells whether it has a context.               *)
ListenerFiles ==
  /\ lpc # "options" => Complete(config)
  /\ context = IF lpc \in {"options", "context", "failed"} THEN None ELSE config
  /\ sslError => lpc = "failed"
  /\ lpc = "aborted" => TextLength(config) >= TextBuffer
  /\ lpc \in {"options", "context", "failed"} <=> dpc = "none" /\ lpc # "up"

(* What a dispatcher has of the names are the lines it has parsed, and     *)
(* these are the listener's.                                               *)
LineOf(r) == CASE r = "a" -> 2 [] r = "c" -> 3 [] r = "k" -> 4

DispatcherFiles ==
  /\ \A r \in Roles : dconfig[r] = IF LineOf(r) <= parsed THEN config[r] ELSE Empty
  /\ dpc # "none" => lines \in {0, WholeLines(config, TextBuffer)}
  /\ dpc \in {"none", "wait"} => lines = 0
  /\ dpc = "serving" => dcontext = dconfig /\ Complete(dconfig)
  /\ dpc \notin {"serving", "ended"} => dcontext = None
  /\ dsslError => dpc = "ended" /\ dcontext = None
  /\ dpc = "overrun" => \E i \in 1 .. 4 : Overruns(LineLength(config, i))

IInv == TypeOK /\ Reading /\ AllOrDefaults /\ ListenerFiles /\ DispatcherFiles
===============================================================================
