-------------------------- MODULE ConfigurationProofs --------------------------
(***************************************************************************)
(* Proofs about Configuration.tla, for any names, lengths and defaults.    *)
(* IInv is inductive; what the runs check follows from it.                 *)
(***************************************************************************)
EXTENDS ConfigurationInvariant, Integers, SequenceTheorems, TLAPS

-------------------------------------------------------------------------------
(* The buffers.                                                            *)

(* The ends of the lines are numbers, in order.                            *)
LEMMA Ends ==
  ASSUME NEW names \in [Roles -> AnyName]
  PROVE  /\ \A i \in 1 .. 4 : LineLength(names, i) \in Nat
         /\ End1(names) \in Nat /\ End2(names) \in Nat /\ End3(names) \in Nat /\ End4(names) \in Nat
         /\ TextLength(names) \in Int
         /\ WholeLines(names, TextBuffer) \in 0 .. 4
<1>1. /\ NameLength[names["a"]] \in Nat
      /\ NameLength[names["c"]] \in Nat
      /\ NameLength[names["k"]] \in Nat
  BY ConfigurationAssumption DEF Roles
<1>2. PidLength \in Nat
  BY ConfigurationAssumption
<1>3. \A i \in 1 .. 4 : LineLength(names, i) \in Nat
  BY <1>1, <1>2 DEF LineLength, LabelLength
<1>4. /\ End1(names) \in Nat /\ End2(names) \in Nat /\ End3(names) \in Nat /\ End4(names) \in Nat
  BY <1>3 DEF End1, End2, End3, End4
<1>5. TextLength(names) \in Int
  BY <1>4 DEF TextLength, LabelLength
<1>6. WholeLines(names, TextBuffer) \in 0 .. 4
  BY DEF WholeLines
<1>. QED
  BY <1>3, <1>4, <1>5, <1>6

(* Names of up to 246 characters: every line fits its buffer, the text its *)
(* own, and label and text the one they are received in                    *)
(* (mylsnr.cpp:99-112, mydisp.cpp:62-71, 131-132).                         *)
THEOREM FittingNames ==
  ASSUME NEW names \in [Roles -> AnyName],
         \A r \in Roles : NameLength[names[r]] <= 246
  PROVE  /\ \A i \in 1 .. 4 : ~Overruns(LineLength(names, i))
         /\ TextLength(names) < TextBuffer
         /\ WholeLines(names, TextBuffer) = 4
<1>1. /\ NameLength[names["a"]] \in 0 .. 246
      /\ NameLength[names["c"]] \in 0 .. 246
      /\ NameLength[names["k"]] \in 0 .. 246
  BY ConfigurationAssumption DEF Roles
<1>2. PidLength \in 1 .. 10
  BY ConfigurationAssumption
<1>3. /\ LineLength(names, 1) \in 0 .. 255 /\ LineLength(names, 2) \in 0 .. 255
      /\ LineLength(names, 3) \in 0 .. 255 /\ LineLength(names, 4) \in 0 .. 255
  <2>1. LineLength(names, 1) \in 0 .. 255
    BY <1>1, <1>2 DEF LineLength, LabelLength
  <2>2. LineLength(names, 2) \in 0 .. 255
    BY <1>1, <1>2 DEF LineLength, LabelLength
  <2>3. LineLength(names, 3) \in 0 .. 255
    BY <1>1, <1>2 DEF LineLength, LabelLength
  <2>4. LineLength(names, 4) \in 0 .. 255
    BY <1>1, <1>2 DEF LineLength, LabelLength
  <2>. QED
    BY <2>1, <2>2, <2>3, <2>4
<1>4. \A i \in 1 .. 4 : ~Overruns(LineLength(names, i))
  <2>. TAKE i \in 1 .. 4
  <2>1. i = 1 \/ i = 2 \/ i = 3 \/ i = 4
    OBVIOUS
  <2>. QED
    BY <1>3, <2>1 DEF Overruns, LineBuffer
<1>5. /\ End1(names) \in Nat /\ End2(names) \in Nat /\ End3(names) \in Nat /\ End4(names) \in Nat
      /\ End1(names) <= End2(names) /\ End2(names) <= End3(names) /\ End3(names) <= End4(names)
      /\ End4(names) <= 1024
  <2>1. End1(names) \in Nat /\ End1(names) <= 256
    BY <1>3 DEF End1
  <2>2. End2(names) \in Nat /\ End2(names) <= 512
    BY <1>3, <2>1 DEF End2
  <2>3. End3(names) \in Nat /\ End3(names) <= 768
    BY <1>3, <2>2 DEF End3
  <2>4. End4(names) \in Nat /\ End4(names) <= 1024
    BY <1>3, <2>3 DEF End4
  <2>. QED
    BY <1>3, <2>1, <2>2, <2>3, <2>4 DEF End2, End3, End4
<1>6. TextLength(names) < TextBuffer
  BY <1>5 DEF TextLength, TextBuffer, LabelLength
<1>7. TextBuffer >= End4(names)
  BY <1>5 DEF TextBuffer
<1>8. WholeLines(names, TextBuffer) = 4
  BY <1>5, <1>7 DEF WholeLines, TextBuffer
<1>. QED
  BY <1>4, <1>6, <1>8

-------------------------------------------------------------------------------
(* Types.                                                                  *)

LEMMA ContextType ==
  ASSUME NEW names \in [Roles -> AnyName], NEW ctx \in [Roles -> AnyName], NEW error \in BOOLEAN,
         NEW result \in createContext(names, ctx, error)
  PROVE  /\ result.made \in [Roles -> AnyName]
         /\ result.error \in BOOLEAN
         /\ result.ok \in BOOLEAN
         /\ ctx = None => \/ result.made = None /\ result.error /\ ~result.ok
                          \/ /\ Complete(names) /\ result.made = names
                             /\ result.error = error /\ result.ok = ~error
<1>1. None \in [Roles -> AnyName]
  BY DEF None, AnyName
<1>2. CASE ctx # None
  <2>1. result = [made |-> ctx, error |-> error, ok |-> TRUE]
    BY <1>2 DEF createContext
  <2>. QED
    BY <1>2, <2>1
<1>3. CASE ctx = None
  <2>1. \/ result = [made |-> None, error |-> TRUE, ok |-> FALSE]
        \/ Complete(names) /\ result = [made |-> names, error |-> error, ok |-> ~error]
    BY <1>3 DEF createContext
  <2>2. CASE result = [made |-> None, error |-> TRUE, ok |-> FALSE]
    BY <1>1, <2>2
  <2>3. CASE Complete(names) /\ result = [made |-> names, error |-> error, ok |-> ~error]
    BY <2>3
  <2>. QED
    BY <2>1, <2>2, <2>3
<1>. QED
  BY <1>2, <1>3

LEMMA TypeStep ==
  ASSUME TypeOK, DispatcherFiles, [Next]_vars
  PROVE  TypeOK'
<1>. USE DEF TypeOK
<1>1. Empty \in AnyName /\ None \in [Roles -> AnyName] /\ Default \in [Roles -> AnyName]
  BY ConfigurationAssumption DEF AnyName, None
<1>2. CASE ReadOption
  <2>1. argv[at] \in Argument /\ argv[at].name \in AnyName
    BY <1>2, ConfigurationAssumption DEF ReadOption, Argument, AnyName
  <2>. QED
    BY <1>2, <2>1 DEF ReadOption, dispatcherVars
<1>3. CASE EndOfOptions
  BY <1>1, <1>3 DEF EndOfOptions, OrDefault, dispatcherVars
<1>4. CASE ListenerContext
  <2>1. PICK result \in createContext(config, context, sslError) :
          context' = result.made /\ sslError' = result.error
          /\ lpc' = IF result.ok THEN "up" ELSE "failed"
    BY <1>4 DEF ListenerContext
  <2>2. result.made \in [Roles -> AnyName] /\ result.error \in BOOLEAN
    BY <2>1, ContextType
  <2>. QED
    BY <1>4, <2>1, <2>2 DEF ListenerContext, dispatcherVars
<1>5. CASE Fork
  <2>1. forks' \in 0 .. MaxForks
    BY <1>5, ConfigurationAssumption DEF Fork
  <2>2. lines' \in 0 .. 4 /\ parsed' \in 0 .. lines'
    BY <1>5 DEF Fork
  <2>3. dconfig' \in [Roles -> AnyName] /\ dcontext' \in [Roles -> AnyName]
    BY <1>1, <1>5 DEF Fork
  <2>. QED
    BY <1>5, <2>1, <2>2, <2>3 DEF Fork
<1>6. CASE WriteLabel \/ WriteText
  BY <1>6 DEF WriteLabel, WriteText, dispatcherVars
<1>7. CASE Receive
  <2>1. WholeLines(config, TextBuffer) \in 0 .. 4
    BY Ends
  <2>2. lines' \in 0 .. 4
    BY <1>7, <2>1 DEF Receive
  <2>3. parsed = 0
    BY <1>7 DEF Receive, DispatcherFiles
  <2>4. parsed' \in 0 .. lines'
    BY <1>7, <2>2, <2>3 DEF Receive
  <2>. QED
    BY <1>7, <2>2, <2>4 DEF Receive, listenerVars
<1>8. CASE HangUp \/ DispatcherEnds
  BY <1>8 DEF HangUp, DispatcherEnds, listenerVars
<1>9. CASE ParseLine
  <2>1. parsed + 1 \in 1 .. 4
    BY <1>9 DEF ParseLine
  <2>2. dconfig' \in [Roles -> AnyName]
    BY <1>9, <2>1 DEF ParseLine
  <2>. QED
    BY <1>9, <2>1, <2>2 DEF ParseLine, listenerVars
<1>10. CASE DispatcherContext
  <2>1. PICK result \in createContext(dconfig, dcontext, dsslError) :
          dcontext' = result.made /\ dsslError' = result.error
          /\ dpc' = IF result.ok THEN "serving" ELSE "ended"
    BY <1>10 DEF DispatcherContext
  <2>2. result.made \in [Roles -> AnyName] /\ result.error \in BOOLEAN
    BY <2>1, ContextType
  <2>. QED
    BY <1>10, <2>1, <2>2 DEF DispatcherContext, listenerVars
<1>11. CASE UNCHANGED vars
  BY <1>11 DEF vars, listenerVars, dispatcherVars
<1>. QED
  BY <1>2, <1>3, <1>4, <1>5, <1>6, <1>7, <1>8, <1>9, <1>10, <1>11 DEF Next, Terminated

-------------------------------------------------------------------------------
(* The command line.                                                       *)

(* Steps after the options leave them, and the choice made, alone.         *)
LEMMA AfterOptions ==
  ASSUME TypeOK, [Next]_vars, ~ReadOption, ~EndOfOptions
  PROVE  UNCHANGED <<argv, at, config>> /\ (lpc' = "options" <=> lpc = "options")
<1>1. CASE ListenerContext
  BY <1>1 DEF ListenerContext
<1>2. CASE Fork \/ WriteLabel \/ WriteText
  BY <1>2 DEF Fork, WriteLabel, WriteText
<1>3. CASE Receive \/ HangUp \/ ParseLine \/ DispatcherContext \/ DispatcherEnds
  BY <1>3 DEF Receive, HangUp, ParseLine, DispatcherContext, DispatcherEnds, listenerVars
<1>4. CASE UNCHANGED vars
  BY <1>4 DEF vars, listenerVars
<1>. QED
  BY <1>1, <1>2, <1>3, <1>4 DEF Next, Terminated

LEMMA ReadingStep ==
  ASSUME TypeOK, Reading, [Next]_vars
  PROVE  Reading'
<1>1. CASE ReadOption
  <2>. DEFINE o == argv[at].role
  <2>1. /\ at \in 1 .. Len(argv) /\ at' = at + 1 /\ argv' = argv /\ o \in Roles
        /\ config' = [config EXCEPT ![o] = argv[at].name] /\ lpc = "options"
    BY <1>1 DEF ReadOption, TypeOK
  <2>2. \A i \in 1 .. at' - 1 : argv'[i].role \in Roles
    BY <2>1 DEF Reading
  <2>3. ASSUME NEW r \in Roles
        PROVE  \/ Given(r)' = {} /\ config'[r] = Empty
               \/ \E i \in Given(r)' : config'[r] = argv'[i].name /\ \A j \in Given(r)' : j <= i
    <3>1. CASE r = o
      <4>1. at \in Given(r)' /\ \A j \in Given(r)' : j <= at
        BY <2>1, <3>1 DEF Given
      <4>2. config'[r] = argv'[at].name
        BY <2>1, <3>1 DEF TypeOK
      <4>. QED
        BY <4>1, <4>2
    <3>2. CASE r # o
      <4>1. Given(r)' = Given(r) /\ config'[r] = config[r]
        BY <2>1, <3>2 DEF Given, TypeOK
      <4>. QED
        BY <2>1, <4>1 DEF Reading
    <3>. QED
      BY <3>1, <3>2
  <2>. QED
    BY <2>2, <2>3 DEF Reading
<1>2. CASE EndOfOptions
  BY <1>2 DEF EndOfOptions, Reading
<1>3. CASE ~ReadOption /\ ~EndOfOptions
  <2>1. UNCHANGED <<argv, at, config>> /\ (lpc' = "options" <=> lpc = "options")
    BY <1>3, AfterOptions
  <2>2. \A r : Given(r)' = Given(r)
    BY <2>1 DEF Given
  <2>. QED
    BY <2>1, <2>2 DEF Reading
<1>. QED
  BY <1>1, <1>2, <1>3

(* At the end of the options the program has of each what the definition   *)
(* of Asked says.                                                          *)
LEMMA AskedRead ==
  ASSUME TypeOK, Reading, EndOfOptions
  PROVE  Asked(argv) = config
<1>1. at <= Len(argv) => at \in Unknown(argv)
  BY DEF EndOfOptions, Unknown, TypeOK
<1>2. \A j \in Unknown(argv) : at <= j
  BY DEF EndOfOptions, Unknown, TypeOK, Reading
<1>3. ASSUME NEW r \in Roles PROVE Heard(argv, r) = Given(r)
  <2>1. \A i \in Given(r) : i \in Heard(argv, r)
    BY <1>2 DEF Given, Heard, TypeOK, Unknown
  <2>2. \A i \in Heard(argv, r) : i \in Given(r)
    BY <1>1 DEF Given, Heard, TypeOK
  <2>. QED
    BY <2>1, <2>2 DEF Given, Heard
<1>4. ASSUME NEW r \in Roles PROVE Asked(argv)[r] = config[r]
  <2>1. CASE Given(r) = {} /\ config[r] = Empty
    BY <1>3, <2>1 DEF Asked
  <2>2. ASSUME NEW i \in Given(r), config[r] = argv[i].name, \A j \in Given(r) : j <= i
        PROVE  Asked(argv)[r] = config[r]
    <3>1. i \in Heard(argv, r) /\ \A j \in Heard(argv, r) : j <= i
      BY <1>3, <2>2
    <3>2. /\ Last(argv, r) \in Heard(argv, r)
          /\ \A j \in Heard(argv, r) : j <= Last(argv, r)
      BY <3>1 DEF Last
    <3>3. Last(argv, r) \in Nat /\ i \in Nat
      BY <3>1, <3>2 DEF Heard
    <3>4. Last(argv, r) = i
      BY <3>1, <3>2, <3>3
    <3>. QED
      BY <2>2, <3>1, <3>4 DEF Asked
  <2>. QED
    BY <2>1, <2>2 DEF Reading, EndOfOptions
<1>. QED
  BY <1>4 DEF Asked, TypeOK

LEMMA ChosenStep ==
  ASSUME TypeOK, Reading, AllOrDefaults, [Next]_vars
  PROVE  AllOrDefaults'
<1>1. CASE ReadOption
  BY <1>1 DEF ReadOption, AllOrDefaults
<1>2. CASE EndOfOptions
  <2>1. Asked(argv) = config /\ argv' = argv
    BY <1>2, AskedRead DEF EndOfOptions
  <2>2. config' = OrDefault(Asked(argv))
    BY <1>2, <2>1 DEF EndOfOptions
  <2>. QED
    BY <2>1, <2>2 DEF AllOrDefaults, OrDefault
<1>3. CASE ~ReadOption /\ ~EndOfOptions
  BY <1>3, AfterOptions DEF AllOrDefaults
<1>. QED
  BY <1>1, <1>2, <1>3

-------------------------------------------------------------------------------
(* The contexts.                                                           *)

LEMMA ListenerStep ==
  ASSUME TypeOK, ListenerFiles, AllOrDefaults, [Next]_vars
  PROVE  ListenerFiles'
<1>1. CASE ReadOption
  BY <1>1 DEF ReadOption, ListenerFiles, dispatcherVars
<1>2. CASE EndOfOptions
  <2>1. Complete(Default)
    BY ConfigurationAssumption DEF Complete
  <2>2. Complete(config)'
    BY <1>2, <2>1 DEF EndOfOptions, OrDefault, Complete
  <2>. QED
    BY <1>2, <2>2 DEF EndOfOptions, ListenerFiles, dispatcherVars
<1>3. CASE ListenerContext
  <2>1. PICK result \in createContext(config, context, sslError) :
          context' = result.made /\ sslError' = result.error
          /\ lpc' = IF result.ok THEN "up" ELSE "failed"
    BY <1>3 DEF ListenerContext
  <2>2. context = None /\ sslError = FALSE
    BY <1>3 DEF ListenerContext, ListenerFiles, TypeOK
  <2>3. \/ result.made = None /\ result.error /\ ~result.ok
        \/ result.made = config /\ ~result.error /\ result.ok
    BY <2>1, <2>2, ContextType DEF TypeOK
  <2>. QED
    BY <1>3, <2>1, <2>3 DEF ListenerContext, ListenerFiles, dispatcherVars, Complete
<1>4. CASE Fork
  BY <1>4 DEF Fork, ListenerFiles, Complete
<1>5. CASE WriteLabel
  BY <1>5 DEF WriteLabel, ListenerFiles, dispatcherVars, Complete
<1>6. CASE WriteText
  <2>1. /\ lpc' \in {"aborted", "sigpipe", "up"}
        /\ lpc' = "aborted" => TextLength(config) >= TextBuffer
    BY <1>6 DEF WriteText
  <2>2. TextLength(config)' = TextLength(config)
    BY <1>6 DEF WriteText, TextLength, End1, End2, End3, End4, LineLength
  <2>. QED
    BY <1>6, <2>1, <2>2 DEF WriteText, ListenerFiles, dispatcherVars, Complete
<1>7. CASE Receive \/ HangUp \/ ParseLine \/ DispatcherContext \/ DispatcherEnds
  <2>1. UNCHANGED listenerVars /\ dpc # "none" /\ dpc' # "none"
    BY <1>7 DEF Receive, HangUp, ParseLine, DispatcherContext, DispatcherEnds
  <2>. QED
    BY <2>1 DEF ListenerFiles, listenerVars, Complete, TextLength, End1, End2, End3, End4, LineLength
<1>8. CASE UNCHANGED vars
  BY <1>8 DEF vars, listenerVars, dispatcherVars, ListenerFiles, Complete,
     TextLength, End1, End2, End3, End4, LineLength
<1>. QED
  BY <1>1, <1>2, <1>3, <1>4, <1>5, <1>6, <1>7, <1>8 DEF Next, Terminated

LEMMA WholeSame ==
  ASSUME config' = config
  PROVE  /\ \A i : LineLength(config, i)' = LineLength(config, i)
         /\ WholeLines(config, TextBuffer)' = WholeLines(config, TextBuffer)
BY DEF WholeLines, TextBuffer, End1, End2, End3, End4, LineLength, LabelLength

LEMMA DispatcherStep ==
  ASSUME TypeOK, ListenerFiles, DispatcherFiles, [Next]_vars
  PROVE  DispatcherFiles'
<1>1. CASE ReadOption \/ EndOfOptions
  <2>1. UNCHANGED dispatcherVars /\ dpc = "none"
    BY <1>1 DEF ReadOption, EndOfOptions, ListenerFiles
  <2>2. lines = 0 /\ parsed = 0
    BY <2>1 DEF DispatcherFiles, TypeOK
  <2>. QED
    BY <2>1, <2>2 DEF DispatcherFiles, dispatcherVars, LineOf, Roles
<1>2. CASE ListenerContext \/ WriteLabel \/ WriteText \/ UNCHANGED vars
  <2>1. UNCHANGED dispatcherVars /\ config' = config
    BY <1>2 DEF ListenerContext, WriteLabel, WriteText, vars, listenerVars
  <2>. QED
    BY <2>1, WholeSame DEF DispatcherFiles, dispatcherVars
<1>3. CASE Fork
  BY <1>3 DEF Fork, DispatcherFiles, None, LineOf, Roles
<1>4. CASE Receive
  <2>1. lines' \in {0, WholeLines(config, TextBuffer)} /\ config' = config /\ UNCHANGED <<parsed, dconfig, dcontext, dsslError>>
    BY <1>4 DEF Receive, listenerVars
  <2>. QED
    BY <1>4, <2>1, WholeSame DEF Receive, DispatcherFiles
<1>5. CASE HangUp \/ DispatcherEnds
  <2>1. config' = config /\ dpc' = "ended" /\ dpc \in {"wait", "serving", "overrun"} /\ UNCHANGED <<lines, parsed, dconfig, dcontext, dsslError>>
    BY <1>5 DEF HangUp, DispatcherEnds, listenerVars
  <2>. QED
    BY <2>1, WholeSame DEF DispatcherFiles
<1>6. CASE ParseLine
  <2>1. config' = config /\ UNCHANGED <<lines, dcontext, dsslError>> /\ dpc = "parse" /\ parsed < lines
        /\ parsed \in Nat /\ parsed + 1 \in 1 .. 4
    BY <1>6 DEF ParseLine, listenerVars, TypeOK
  <2>2. CASE Overruns(LineLength(config, parsed + 1))
    <3>1. dpc' = "overrun" /\ UNCHANGED <<parsed, dconfig>>
      BY <1>6, <2>2 DEF ParseLine
    <3>2. \E i \in 1 .. 4 : Overruns(LineLength(config, i)')
      BY <2>1, <2>2, WholeSame
    <3>. QED
      BY <2>1, <3>1, <3>2, WholeSame DEF DispatcherFiles
  <2>3. CASE ~Overruns(LineLength(config, parsed + 1))
    <3>1. dpc' = dpc /\ parsed' = parsed + 1
      BY <1>6, <2>3 DEF ParseLine
    <3>2. ASSUME NEW r \in Roles
          PROVE  dconfig'[r] = IF LineOf(r) <= parsed' THEN config'[r] ELSE Empty
      <4>1. LineOf(r) = parsed + 1 <=> LineRole[parsed + 1] = r
        <5>1. parsed + 1 = 1 \/ parsed + 1 = 2 \/ parsed + 1 = 3 \/ parsed + 1 = 4
          BY <2>1
        <5>2. r = "a" \/ r = "c" \/ r = "k"
          BY DEF Roles
        <5>. QED
          BY <5>1, <5>2 DEF LineOf, LineRole
      <4>2. LineOf(r) \in Nat
        BY DEF LineOf, Roles
      <4>3. CASE LineRole[parsed + 1] = r
        <5>1. dconfig'[r] = config[r]
          BY <1>6, <2>3, <4>3 DEF ParseLine, TypeOK
        <5>. QED
          BY <2>1, <3>1, <4>1, <4>3, <5>1
      <4>4. CASE LineRole[parsed + 1] # r
        <5>1. dconfig'[r] = dconfig[r]
          BY <1>6, <2>3, <4>4 DEF ParseLine, TypeOK
        <5>2. LineOf(r) <= parsed' <=> LineOf(r) <= parsed
          BY <2>1, <3>1, <4>1, <4>2, <4>4
        <5>. QED
          BY <2>1, <5>1, <5>2 DEF DispatcherFiles
      <4>. QED
        BY <4>3, <4>4
    <3>. QED
      BY <2>1, <3>1, <3>2, WholeSame DEF DispatcherFiles
  <2>. QED
    BY <2>2, <2>3
<1>7. CASE DispatcherContext
  <2>1. PICK result \in createContext(dconfig, dcontext, dsslError) :
          dcontext' = result.made /\ dsslError' = result.error
          /\ dpc' = IF result.ok THEN "serving" ELSE "ended"
    BY <1>7 DEF DispatcherContext
  <2>2. dcontext = None /\ dsslError = FALSE /\ UNCHANGED <<lines, parsed, dconfig, config>>
        /\ dpc # "none"
    BY <1>7 DEF DispatcherContext, DispatcherFiles, TypeOK, listenerVars
  <2>3. \/ result.made = None /\ result.error /\ ~result.ok
        \/ Complete(dconfig) /\ result.made = dconfig /\ ~result.error /\ result.ok
    BY <2>1, <2>2, ContextType DEF TypeOK
  <2>4. Complete(dconfig)' = Complete(dconfig)
    BY <2>2 DEF Complete
  <2>. QED
    BY <2>1, <2>2, <2>3, <2>4, WholeSame DEF DispatcherFiles
<1>. QED
  BY <1>1, <1>2, <1>3, <1>4, <1>5, <1>6, <1>7 DEF Next, Terminated

-------------------------------------------------------------------------------
(* The theorems.                                                           *)

LEMMA Initial == Init => IInv
<1>. SUFFICES ASSUME Init PROVE IInv
  OBVIOUS
<1>1. PICK n \in 0 .. MaxArgs : argv \in [1 .. n -> Argument]
  BY DEF Init
<1>2. argv \in Seq(Argument) /\ Len(argv) \in Nat
  <2>1. n \in Nat
    BY ConfigurationAssumption
  <2>2. argv \in Seq(Argument)
    BY <1>1, <2>1, SeqDef
  <2>. QED
    BY <2>2, LenProperties
<1>3. None \in [Roles -> AnyName]
  BY DEF None, AnyName
<1>4. TypeOK
  <2>1. /\ at = 1 /\ config = None /\ lpc = "options" /\ context = None /\ sslError = FALSE
        /\ forks = 0 /\ dpc = "none" /\ lines = 0 /\ parsed = 0
        /\ dconfig = None /\ dcontext = None /\ dsslError = FALSE
    BY DEF Init
  <2>2. at \in 1 .. Len(argv) + 1
    BY <1>2, <2>1
  <2>3. forks \in 0 .. MaxForks
    BY <2>1, ConfigurationAssumption
  <2>4. lines \in 0 .. 4 /\ parsed \in 0 .. lines
    BY <2>1
  <2>. QED
    BY ONLY <1>2, <1>3, <2>1, <2>2, <2>3, <2>4 DEF TypeOK
<1>5. Reading
  BY DEF Init, Reading, Given, None
<1>6. ListenerFiles /\ DispatcherFiles /\ AllOrDefaults
  BY DEF Init, ListenerFiles, DispatcherFiles, AllOrDefaults, None, LineOf, Roles
<1>. QED
  BY <1>4, <1>5, <1>6 DEF IInv

(* The inductive invariant holds in every state: what each process has     *)
(* read of the names, and which context it has made of them.               *)
THEOREM ConfigurationInductive == Spec => []IInv
<1>1. IInv /\ [Next]_vars => IInv'
  BY TypeStep, ReadingStep, ChosenStep, ListenerStep, DispatcherStep DEF IInv
<1>. QED
  BY Initial, <1>1, PTL DEF Spec

(* Every variable keeps its type: no line is read that was not received    *)
(* (mydisp.cpp:65-75).                                                     *)
THEOREM ConfigurationTypes == Spec => []TypeOK
<1>1. IInv => TypeOK
  BY DEF IInv
<1>. QED
  BY ConfigurationInductive, <1>1, PTL

(* The listener's files are all from its command line or all its own       *)
(* (ApplicationConfig.cpp:92-137, mylsnr.cpp:158-163).                     *)
THEOREM AllOrDefaultsHolds == Spec => []AllOrDefaults
<1>1. IInv => AllOrDefaults
  BY DEF IInv
<1>. QED
  BY ConfigurationInductive, <1>1, PTL

LEMMA ServingRead ==
  ASSUME IInv, dpc = "serving"
  PROVE  parsed = 4 /\ lines = 4 /\ dconfig = config /\ context = config /\ Complete(config)
<1>1. dconfig["k"] # Empty
  BY DEF IInv, DispatcherFiles, Complete, Roles
<1>2. LineOf("k") = 4 /\ LineOf("k") <= parsed
  BY <1>1 DEF IInv, DispatcherFiles, LineOf, Roles
<1>3. parsed = 4 /\ lines = 4
  BY <1>2 DEF IInv, TypeOK
<1>4. \A r \in Roles : dconfig[r] = config[r]
  BY <1>3 DEF IInv, DispatcherFiles, LineOf, Roles
<1>5. dconfig = config
  BY <1>4 DEF IInv, TypeOK
<1>6. context = config /\ Complete(config)
  BY DEF IInv, ListenerFiles
<1>. QED
  BY <1>3, <1>5, <1>6

(* A dispatcher serves with the listener's files (mydisp.cpp:60-83).       *)
THEOREM SameFilesHolds == Spec => []SameFiles
<1>1. IInv => SameFiles
  <2>. SUFFICES ASSUME IInv, dpc = "serving" PROVE context # None /\ dcontext = context
    BY DEF SameFiles
  <2>1. dcontext = dconfig
    BY DEF IInv, DispatcherFiles
  <2>2. context # None
    BY ServingRead DEF Complete, None, Roles
  <2>. QED
    BY <2>1, <2>2, ServingRead
<1>. QED
  BY ConfigurationInductive, <1>1, PTL

(* sslError is never returned by a call that has made a context            *)
(* (InitSsl.cpp:80-115).                                                   *)
THEOREM ErrorEndsProcessHolds == Spec => []ErrorEndsProcess
<1>1. IInv => ErrorEndsProcess
  BY DEF IInv, ListenerFiles, DispatcherFiles, ErrorEndsProcess
<1>. QED
  BY ConfigurationInductive, <1>1, PTL

(* Names of up to 246 characters pass every buffer (mylsnr.cpp:99-112,     *)
(* mydisp.cpp:62-71).                                                      *)
THEOREM BuffersSufficeHolds == Spec => []BuffersSuffice
<1>1. IInv => BuffersSuffice
  <2>. SUFFICES ASSUME IInv, Fit
                PROVE  /\ lpc # "aborted" /\ dpc # "overrun"
                       /\ dpc = "parse" => lines \in {0, 4}
    BY DEF BuffersSuffice
  <2>1. /\ \A i \in 1 .. 4 : ~Overruns(LineLength(config, i))
        /\ TextLength(config) < TextBuffer
        /\ WholeLines(config, TextBuffer) = 4
    BY FittingNames DEF IInv, TypeOK, Fit
  <2>2. TextLength(config) \in Int
    BY Ends DEF IInv, TypeOK
  <2>3. lpc # "aborted"
    BY <2>1, <2>2 DEF IInv, ListenerFiles, TextBuffer
  <2>. QED
    BY <2>1, <2>3 DEF IInv, DispatcherFiles
<1>. QED
  BY ConfigurationInductive, <1>1, PTL

(* A dispatcher that serves has read the whole text (mydisp.cpp:131-139).  *)
THEOREM NothingLeftHolds == Spec => []NothingLeft
<1>1. IInv => NothingLeft
  <2>. SUFFICES ASSUME IInv, dpc = "serving" PROVE End4(config) <= TextBuffer
    BY DEF NothingLeft
  <2>1. WholeLines(config, TextBuffer) = 4
    BY ServingRead DEF IInv, DispatcherFiles
  <2>2. /\ End1(config) \in Nat /\ End2(config) \in Nat /\ End3(config) \in Nat /\ End4(config) \in Nat
    BY Ends DEF IInv, TypeOK
  <2>. QED
    BY <2>1, <2>2 DEF WholeLines, TextBuffer
<1>. QED
  BY ConfigurationInductive, <1>1, PTL
===============================================================================
