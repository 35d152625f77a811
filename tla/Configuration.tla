----------------------------- MODULE Configuration -----------------------------
(***************************************************************************)
(* The names of the certificate files, from the command line of the        *)
(* listener to the SSL contexts of the listener and of its dispatchers     *)
(* (src/ApplicationConfig.cpp, src/InitSsl.cpp, main of src/mylsnr.cpp,    *)
(* processDispatcherConnection and processConfig).  A dispatcher that has  *)
(* no context ends; another one is forked and configured in its place.     *)
(*                                                                         *)
(* Of a name only its length matters, and that the empty one names no      *)
(* file; no name holds a line feed.  Any other file may be missing or      *)
(* wrong at any time: a load succeeds or fails.                            *)
(***************************************************************************)
EXTENDS Naturals, Sequences

CONSTANTS Names,       \* names of files
          Typed,       \* those a user may type
          Empty,       \* the empty string, which may be typed too
          NameLength,  \* characters in each
          Default,     \* the listener's own name for each file
          PidLength,   \* digits of the listener's process id
          MaxArgs,     \* bound: options on the command line
          MaxForks     \* bound: dispatchers configured one after the other

Roles == {"a", "c", "k"}   \* CA, certificate chain, key
AnyName == Names \union {Empty}
None == [r \in Roles |-> Empty]

ASSUME ConfigurationAssumption ==
  /\ Empty \notin Names
  /\ Typed \subseteq Names
  /\ NameLength \in [AnyName -> Nat]
  /\ NameLength[Empty] = 0
  /\ Default \in [Roles -> Names]
  /\ PidLength \in 1 .. 10
  /\ MaxArgs \in Nat
  /\ MaxForks \in Nat \ {0}

(* An option with its value, or one getopt() does not know.                *)
Argument == [role : Roles, name : Typed \union {Empty}] \union {[role |-> "?", name |-> Empty]}

VARIABLES
  argv,     \* the command line
  at,       \* the next argument getopt() returns
  config,   \* appCfg of the listener
  lpc,      \* the listener: reading options, about to make its context,
            \* about to write the label, the text, done with both, ended
  context,  \* the files of the listener's SSL context, None without one
  sslError, \* the listener's sslError is set
  forks,    \* dispatchers forked
  dpc,      \* the dispatcher: waiting, parsing, serving, ended, or
            \* anywhere after a line ran over its buffer
  lines,    \* whole lines it has received
  parsed,   \* lines read of these
  dconfig,  \* appCfg of the dispatcher
  dcontext, \* the files of its SSL context
  dsslError

listenerVars == <<argv, at, config, lpc, context, sslError>>
dispatcherVars == <<dpc, lines, parsed, dconfig, dcontext, dsslError>>
vars == <<listenerVars, forks, dispatcherVars>>

TypeOK ==
  /\ argv \in Seq(Argument)
  /\ at \in 1 .. Len(argv) + 1
  /\ config \in [Roles -> AnyName]
  /\ lpc \in {"options", "context", "label", "text", "up", "failed", "aborted", "sigpipe"}
  /\ context \in [Roles -> AnyName]
  /\ sslError \in BOOLEAN
  /\ forks \in 0 .. MaxForks
  /\ dpc \in {"none", "wait", "parse", "serving", "ended", "overrun"}
  /\ lines \in 0 .. 4
  /\ parsed \in 0 .. lines
  /\ dconfig \in [Roles -> AnyName]
  /\ dcontext \in [Roles -> AnyName]
  /\ dsslError \in BOOLEAN

Init ==
  /\ argv \in UNION {[1 .. n -> Argument] : n \in 0 .. MaxArgs}
  /\ at = 1
  /\ config = None
  /\ lpc = "options"
  /\ context = None
  /\ sslError = FALSE
  /\ forks = 0
  /\ dpc = "none"
  /\ lines = 0
  /\ parsed = 0
  /\ dconfig = None
  /\ dcontext = None
  /\ dsslError = FALSE

-------------------------------------------------------------------------------
(* The listener's command line.                                            *)

(* The value of one option; a later value replaces an earlier one.         *)
ReadOption ==
  /\ lpc = "options" /\ at <= Len(argv)
  /\ argv[at].role \in Roles
  /\ config' = [config EXCEPT ![argv[at].role] = argv[at].name]
  /\ at' = at + 1
  /\ UNCHANGED <<argv, lpc, context, sslError, forks, dispatcherVars>>

Complete(names) == \A r \in Roles : names[r] # Empty

(* Mutant: only what was not given is replaced by the default.             *)
MissingFromDefault(names) ==
  [r \in Roles |-> IF names[r] = Empty THEN Default[r] ELSE names[r]]

OrDefault(names) == IF Complete(names) THEN names ELSE Default

(* The end of the command line, or an option that is not known: what has   *)
(* been read counts when it is complete, and is replaced otherwise.        *)
EndOfOptions ==
  /\ lpc = "options"
  /\ at <= Len(argv) => argv[at].role \notin Roles
  /\ config' = OrDefault(config)
  /\ lpc' = "context"
  /\ UNCHANGED <<argv, at, context, sslError, forks, dispatcherVars>>

-------------------------------------------------------------------------------
(* createContext().                                                        *)

(* Mutant: a failure leaves the context it had begun.                      *)
createContextKept(names, ctx, error) ==
  IF ctx # None
  THEN {[made |-> ctx, error |-> error, ok |-> TRUE]}
  ELSE {[made |-> names, error |-> TRUE, ok |-> FALSE]}
       \union (IF Complete(names)
               THEN {[made |-> names, error |-> error, ok |-> ~error]} ELSE {})

(* What a call can leave behind and return: the context there was, a new   *)
(* one from the three files, or none.  sslError is set by a failure, never *)
(* cleared, and is what a call that makes a context returns.               *)
createContext(names, ctx, error) ==
  IF ctx # None
  THEN {[made |-> ctx, error |-> error, ok |-> TRUE]}
  ELSE {[made |-> None, error |-> TRUE, ok |-> FALSE]}
       \union (IF Complete(names)
               THEN {[made |-> names, error |-> error, ok |-> ~error]} ELSE {})

ListenerContext ==
  /\ lpc = "context"
  /\ \E result \in createContext(config, context, sslError) :
       /\ context' = result.made
       /\ sslError' = result.error
       /\ lpc' = IF result.ok THEN "up" ELSE "failed"
  /\ UNCHANGED <<argv, at, config, forks, dispatcherVars>>

-------------------------------------------------------------------------------
(* The text of the options and the buffers it passes through.              *)

LabelLength == 6     \* CONFIG
TextBuffer == 4096   \* configBuffer, on both sides

(* Mutant: a line of 255 characters and its zero do not fit.               *)
LineBufferShort == 255

LineBuffer == 256    \* lineBuffer of processConfig

(* PPID=, CAFILE=, CERTFILE=, KEYFILE=; the label has become a part of the *)
(* first line; a line feed ends each.                                      *)
LineRole == <<"pid", "a", "c", "k">>

LineLength(names, i) ==
  CASE i = 1 -> LabelLength + 5 + PidLength
    [] i = 2 -> 7 + NameLength[names["a"]]
    [] i = 3 -> 9 + NameLength[names["c"]]
    [] i = 4 -> 8 + NameLength[names["k"]]

End1(names) == LineLength(names, 1) + 1
End2(names) == End1(names) + LineLength(names, 2) + 1
End3(names) == End2(names) + LineLength(names, 3) + 1
End4(names) == End3(names) + LineLength(names, 4) + 1

TextLength(names) == End4(names) - LabelLength

(* The lines whose end lies within the first n bytes.                      *)
WholeLines(names, n) ==
  CASE n >= End4(names) -> 4
    [] n < End4(names) /\ n >= End3(names) -> 3
    [] n < End3(names) /\ n >= End2(names) -> 2
    [] n < End2(names) /\ n >= End1(names) -> 1
    [] OTHER -> 0

(* A dispatcher is forked, at the start or in place of one that has ended, *)
(* connects and is accepted.                                               *)
Fork ==
  /\ lpc = "up" /\ dpc \in {"none", "ended"} /\ forks < MaxForks
  /\ forks' = forks + 1
  /\ lpc' = "label"
  /\ dpc' = "wait"
  /\ lines' = 0 /\ parsed' = 0
  /\ dconfig' = None /\ dcontext' = None /\ dsslError' = FALSE
  /\ UNCHANGED <<argv, at, config, context, sslError>>

WriteLabel ==
  /\ lpc = "label"
  /\ lpc' = "text"
  /\ UNCHANGED <<argv, at, config, context, sslError, forks, dispatcherVars>>

(* assert() ends the listener when the text does not fit; a dispatcher     *)
(* that has ended does (Listener.tla).                                     *)
WriteText ==
  /\ lpc = "text"
  /\ lpc' = CASE TextLength(config) >= TextBuffer -> "aborted"
              [] TextLength(config) < TextBuffer /\ dpc = "ended" -> "sigpipe"
              [] OTHER -> "up"
  /\ UNCHANGED <<argv, at, config, context, sslError, forks, dispatcherVars>>

-------------------------------------------------------------------------------
(* The dispatcher.                                                         *)

(* recv(): the label alone, or the label and as much of the text as the    *)
(* buffer holds.                                                           *)
Receive ==
  /\ dpc = "wait" /\ lpc # "label"
  /\ lines' = IF lpc = "up" THEN WholeLines(config, TextBuffer) ELSE 0
  /\ dpc' = "parse"
  /\ UNCHANGED <<parsed, dconfig, dcontext, dsslError, listenerVars, forks>>

(* The parent is gone: the dispatcher sees the hang-up.                    *)
HangUp ==
  /\ dpc = "wait" /\ lpc = "aborted"
  /\ dpc' = "ended"
  /\ UNCHANGED <<lines, parsed, dconfig, dcontext, dsslError, listenerVars, forks>>

(* A line and its terminating zero do not fit.                             *)
Overruns(length) == length >= LineBuffer

(* Mutant: the last line is read twice.                                    *)
ParseLineTwice ==
  /\ dpc = "parse" /\ parsed <= lines /\ lines > 0
  /\ parsed' = parsed + 1
  /\ UNCHANGED <<dpc, dconfig, lines, dcontext, dsslError, listenerVars, forks>>

(* memcpy() into lineBuffer, then retrieveConfigOption().  Nothing is      *)
(* known of the process after a line that does not fit.                    *)
ParseLine ==
  /\ dpc = "parse" /\ parsed < lines
  /\ IF Overruns(LineLength(config, parsed + 1))
     THEN dpc' = "overrun" /\ UNCHANGED <<parsed, dconfig>>
     ELSE /\ parsed' = parsed + 1
          /\ dconfig' = IF LineRole[parsed + 1] \in Roles
                        THEN [dconfig EXCEPT ![LineRole[parsed + 1]] = config[LineRole[parsed + 1]]]
                        ELSE dconfig
          /\ UNCHANGED dpc
  /\ UNCHANGED <<lines, dcontext, dsslError, listenerVars, forks>>

(* Mutant: a name that has not come is replaced by the default.            *)
DispatcherContextDefault ==
  /\ dpc = "parse" /\ parsed = lines
  /\ \E result \in createContext(MissingFromDefault(dconfig), dcontext, dsslError) :
       /\ dcontext' = result.made
       /\ dsslError' = result.error
       /\ dpc' = IF result.ok THEN "serving" ELSE "ended"
  /\ UNCHANGED <<lines, parsed, dconfig, listenerVars, forks>>

DispatcherContext ==
  /\ dpc = "parse" /\ parsed = lines
  /\ \E result \in createContext(dconfig, dcontext, dsslError) :
       /\ dcontext' = result.made
       /\ dsslError' = result.error
       /\ dpc' = IF result.ok THEN "serving" ELSE "ended"
  /\ UNCHANGED <<lines, parsed, dconfig, listenerVars, forks>>

(* A dispatcher that serves, or one in an unknown state, may end.          *)
DispatcherEnds ==
  /\ dpc \in {"serving", "overrun"}
  /\ dpc' = "ended"
  /\ UNCHANGED <<lines, parsed, dconfig, dcontext, dsslError, listenerVars, forks>>

-------------------------------------------------------------------------------
Terminated ==
  /\ \/ lpc \in {"failed", "aborted", "sigpipe"} /\ dpc \in {"none", "ended"}
     \/ lpc = "up" /\ forks = MaxForks /\ dpc = "ended"
  /\ UNCHANGED vars

Next ==
  \/ ReadOption \/ EndOfOptions \/ ListenerContext
  \/ Fork \/ WriteLabel \/ WriteText
  \/ Receive \/ HangUp \/ ParseLine \/ DispatcherContext \/ DispatcherEnds
  \/ Terminated

Spec == Init /\ [][Next]_vars
-------------------------------------------------------------------------------
(* What the command line says, in one sentence: of each option the last    *)
(* value before the first unknown option.                                  *)
Unknown(args) == {i \in 1 .. Len(args) : args[i].role \notin Roles}
Heard(args, r) == {i \in 1 .. Len(args) : args[i].role = r /\ \A j \in Unknown(args) : i < j}
Last(args, r) == CHOOSE i \in Heard(args, r) : \A j \in Heard(args, r) : j <= i
Asked(args) ==
  [r \in Roles |-> IF Heard(args, r) = {} THEN Empty ELSE args[Last(args, r)].name]

(* The files are those of the command line, or the listener's own: never   *)
(* some of these and some of those, whichever options were repeated, left  *)
(* out, empty or cut off by one that is not known                          *)
(* (ApplicationConfig.cpp:92-137, mylsnr.cpp:158-163).                     *)
AllOrDefaults ==
  lpc # "options" => config = IF Complete(Asked(argv)) THEN Asked(argv) ELSE Default

(* A dispatcher that serves does it with the listener's files, however     *)
(* much of the text it was given in its one recv(), and however often it   *)
(* was replaced (mydisp.cpp:60-83, 130-139).                               *)
SameFiles == dpc = "serving" => context # None /\ dcontext = context

(* A set sslError is never what a call that made a context returns: the    *)
(* process in which a call failed makes no other, and has no context       *)
(* (InitSsl.cpp:80-115, mylsnr.cpp:165-168, mydisp.cpp:77-80).             *)
ErrorEndsProcess ==
  /\ sslError => lpc = "failed" /\ context = None
  /\ dsslError => dpc = "ended" /\ dcontext = None

(* Names of up to 246 characters pass all three buffers: the text is       *)
(* written whole, read whole or not at all, and no line is longer than its *)
(* buffer (mylsnr.cpp:99-112, mydisp.cpp:62-71, 131-132).                  *)
Fit == \A r \in Roles : NameLength[config[r]] <= 246

BuffersSuffice ==
  Fit => lpc # "aborted" /\ dpc # "overrun" /\ (dpc = "parse" => lines \in {0, 4})

(* Of the configuration nothing stays in the stream of a dispatcher that   *)
(* serves: Dispatcher.tla reads it in one step (mydisp.cpp:131-139).       *)
NothingLeft == dpc = "serving" => End4(config) <= TextBuffer
===============================================================================
