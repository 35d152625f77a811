------------------------------- MODULE Listener -------------------------------
(***************************************************************************)
(* The listener process (src/mylsnr.cpp) and the life cycle of the         *)
(* dispatchers it forks.  The listener accepts TLS clients and passes each *)
(* to every dispatcher it is linked with, configures the dispatchers that  *)
(* connect to its unix socket, replaces its child when that has died, and  *)
(* says EXIT at the end.  It may be started again after it has ended.      *)
(*                                                                         *)
(* No descriptor is marked close-on-exec: a forked dispatcher keeps the    *)
(* listener's two listening sockets and its ends of the links open.        *)
(*                                                                         *)
(* What a dispatcher does with its link is Dispatcher.tla's matter; here   *)
(* it connects, may die at any time, and ends when it reads EXIT or sees   *)
(* the link hung up.                                                       *)
(***************************************************************************)
EXTENDS Naturals, Sequences, FiniteSets

CONSTANTS Dispatchers,  \* process ids: bounds the number of forks
          MaxClients,   \* bound: TCP connections ever made
          MaxLives      \* bound: times the listener is started

ASSUME ListenerAssumption ==
  /\ MaxClients \in Nat
  /\ MaxLives \in Nat \ {0}
  /\ Dispatchers \intersect {"tcp", "unix"} = {}

VARIABLES
  lpc,           \* the listener's thread
  life,          \* which start of the listener this is
  exitRequested, \* set by sig_INT
  links,         \* dispatchers whose connection is in socketsList
  reported,      \* listed sockets the last poll reported, not handled yet
  pending,       \* TCP connections waiting for accept()
  arrived,       \* TCP connections ever made
  forkFailed,    \* a fork() of this life has failed
  path,          \* the life whose unix socket dispatch.sock names, 0 if none
  tcpBound,      \* the lives that could bind the TCP port
  dstate,        \* the process of each dispatcher
  born,          \* the life it was forked in
  link,          \* its connection: none, waiting for accept(), accepted
  target,        \* the life whose unix socket it connected to
  copies,        \* dispatchers that inherited the listener's end of it
  said           \* what was written to it

listenVars == <<life, exitRequested, arrived, path, tcpBound>>
roundVars == <<lpc, links, reported, pending>>
processVars == <<forkFailed, dstate, born, copies>>
linkVars == <<link, target, said>>
vars == <<listenVars, roundVars, processVars, linkVars>>

Ended == {"down", "gone", "killed", "sigpipe", "segv"}
Words == {"CONFIG", "OPTIONS", "client", "EXIT"}

ListenType ==
  /\ life \in 0 .. MaxLives
  /\ exitRequested \in BOOLEAN
  /\ arrived \in 0 .. MaxClients
  /\ path \in 0 .. MaxLives
  /\ tcpBound \in SUBSET (1 .. MaxLives)

RoundType ==
  /\ lpc \in {"boot", "run", "poll", "ssl", "text", "linger"} \union Ended
  /\ links \in SUBSET Dispatchers
  /\ reported \in SUBSET (Dispatchers \union {"tcp", "unix"})
  /\ pending \in 0 .. MaxClients

ProcessType ==
  /\ forkFailed \in BOOLEAN
  /\ dstate \in [Dispatchers -> {"free", "alive", "zombie", "reaped"}]
  /\ born \in [Dispatchers -> 0 .. MaxLives]
  /\ copies \in [Dispatchers -> SUBSET Dispatchers]

LinkType ==
  /\ link \in [Dispatchers -> {"none", "waiting", "accepted"}]
  /\ target \in [Dispatchers -> 0 .. MaxLives]
  /\ said \in [Dispatchers -> Seq(Words)]

TypeOK == ListenType /\ RoundType /\ ProcessType /\ LinkType

Init ==
  /\ lpc = "down"
  /\ life = 0
  /\ exitRequested = FALSE
  /\ links = {}
  /\ reported = {}
  /\ pending = 0
  /\ arrived = 0
  /\ forkFailed = FALSE
  /\ path = 0
  /\ tcpBound = {}
  /\ dstate = [d \in Dispatchers |-> "free"]
  /\ born = [d \in Dispatchers |-> 0]
  /\ link = [d \in Dispatchers |-> "none"]
  /\ target = [d \in Dispatchers |-> 0]
  /\ copies = [d \in Dispatchers |-> {}]
  /\ said = [d \in Dispatchers |-> << >>]

Running == lpc \notin Ended
Live == {d \in Dispatchers : dstate[d] = "alive"}
Children == {d \in Dispatchers : born[d] = life}

(* The listening sockets of a life are open while its listener runs or a   *)
(* dispatcher forked in it lives.                                          *)
SocketOpen(n) == (Running /\ life = n) \/ \E d \in Live : born[d] = n

-------------------------------------------------------------------------------
(* Processes.                                                              *)

(* The listener is gone: its ends of the links and the connections waiting *)
(* for it are closed.                                                      *)
Dies(how) ==
  /\ lpc' = how
  /\ links' = {}
  /\ reported' = {}
  /\ pending' = 0

(* Mutant: the connections of dropped links were not closed before fork(). *)
create_dispatcherLeak(ds) ==
  \/ \E d \in Dispatchers :
       /\ dstate[d] = "free"
       /\ dstate' = [ds EXCEPT ![d] = "alive"]
       /\ born' = [born EXCEPT ![d] = life]
       /\ copies' = [e \in Dispatchers |-> IF link[e] = "accepted" THEN copies[e] \union {d} ELSE copies[e]]
       /\ UNCHANGED forkFailed
  \/ dstate' = ds /\ forkFailed' = TRUE /\ UNCHANGED <<born, copies>>

(* fork() in a process whose child states are ds: a new dispatcher, with   *)
(* copies of the links, or a failure nobody is told of.                    *)
create_dispatcher(ds) ==
  \/ \E d \in Dispatchers :
       /\ dstate[d] = "free"
       /\ dstate' = [ds EXCEPT ![d] = "alive"]
       /\ born' = [born EXCEPT ![d] = life]
       /\ copies' = [e \in Dispatchers |-> IF e \in links THEN copies[e] \union {d} ELSE copies[e]]
       /\ UNCHANGED forkFailed
  \/ dstate' = ds /\ forkFailed' = TRUE /\ UNCHANGED <<born, copies>>

Start ==
  /\ ~Running /\ life < MaxLives
  /\ lpc' = "boot"
  /\ life' = life + 1
  /\ exitRequested' = FALSE
  /\ forkFailed' = FALSE
  /\ UNCHANGED <<arrived, path, tcpBound, links, reported, pending, dstate, born, copies, linkVars>>

(* Mutant: the port is shared with whoever holds it (SO_REUSEPORT).        *)
BootSharedPort ==
  /\ lpc = "boot"
  /\ path' = life
  /\ create_dispatcher(dstate)
  /\ lpc' = "run" /\ tcpBound' = tcpBound \union {life}
  /\ UNCHANGED <<life, exitRequested, arrived, links, reported, pending, linkVars>>

(* main() up to its loop.  dispatch.sock is unlinked and bound again; the  *)
(* TCP port is taken while a dispatcher of an earlier life keeps its       *)
(* socket; the dispatcher is forked in any case, and the missing socket    *)
(* dereferenced after that.                                                *)
Boot ==
  /\ lpc = "boot"
  /\ path' = life
  /\ create_dispatcher(dstate)
  /\ IF \E n \in tcpBound : SocketOpen(n)
     THEN lpc' = "segv" /\ UNCHANGED tcpBound
     ELSE lpc' = "run" /\ tcpBound' = tcpBound \union {life}
  /\ UNCHANGED <<life, exitRequested, arrived, links, reported, pending, linkVars>>

(* sig_INT is installed before the loop; any other signal kills.           *)
Sigint ==
  /\ Running /\ lpc # "boot" /\ ~exitRequested
  /\ exitRequested' = TRUE
  /\ UNCHANGED <<life, arrived, path, tcpBound, roundVars, processVars, linkVars>>

Terminate ==
  /\ Running
  /\ Dies("killed")
  /\ UNCHANGED <<listenVars, processVars, linkVars>>

-------------------------------------------------------------------------------
(* The loop of main().                                                     *)

RoundOver == lpc = "run" /\ reported = {}

(* Mutant: the loop does not look at exitRequested.                        *)
LoopForEver ==
  /\ RoundOver
  /\ lpc' = "poll"
  /\ UNCHANGED <<links, reported, pending, listenVars, processVars, linkVars>>

Loop ==
  /\ RoundOver /\ ~exitRequested
  /\ lpc' = "poll"
  /\ UNCHANGED <<links, reported, pending, listenVars, processVars, linkVars>>

Waiting == {d \in Dispatchers : link[d] = "waiting" /\ target[d] = life}

(* Nothing is ever sent to the listener on a link: it is reported when the *)
(* dispatcher has closed its end.                                          *)
Ready ==
  (links \ Live) \union {s \in {"tcp"} : pending > 0} \union {s \in {"unix"} : Waiting # {}}

pollSockets ==
  /\ lpc = "poll"
  /\ Ready # {}
  /\ reported' = Ready
  /\ lpc' = "run"
  /\ UNCHANGED <<links, pending, listenVars, processVars, linkVars>>

(* A signal that arrives in poll().                                        *)
PollInterrupted ==
  /\ lpc = "poll"
  /\ Ready = {} /\ exitRequested
  /\ lpc' = "run"
  /\ UNCHANGED <<links, reported, pending, listenVars, processVars, linkVars>>

Zombies == {d \in Children : dstate[d] = "zombie"}

(* Mutant: every quiet second forks.                                       *)
PollTimeoutForks ==
  /\ lpc = "poll"
  /\ Ready = {}
  /\ lpc' = "run"
  /\ create_dispatcher(dstate)
  /\ UNCHANGED <<links, reported, pending, listenVars, linkVars>>

(* Mutant: a dead child is waited for and not replaced.                    *)
PollTimeoutReaps ==
  /\ lpc = "poll"
  /\ Ready = {}
  /\ lpc' = "run"
  /\ dstate' = [d \in Dispatchers |-> IF d \in Zombies THEN "reaped" ELSE dstate[d]]
  /\ UNCHANGED <<links, reported, pending, listenVars, forkFailed, born, copies, linkVars>>

(* A quiet second: one dead child, if there is one, is reaped and replaced.*)
PollTimeout ==
  /\ lpc = "poll"
  /\ Ready = {}
  /\ lpc' = "run"
  /\ IF Zombies = {} THEN UNCHANGED processVars
     ELSE \E d \in Zombies : create_dispatcher([dstate EXCEPT ![d] = "reaped"])
  /\ UNCHANGED <<links, reported, pending, listenVars, linkVars>>

-------------------------------------------------------------------------------
(* processSockets: the TCP socket first, then the unix socket, then links. *)

Tell(D, word) == [d \in Dispatchers |-> IF d \in D THEN Append(said[d], word) ELSE said[d]]

(* The same word to every link in turn.  A write to a dead dispatcher      *)
(* raises SIGPIPE, which the listener neither handles nor ignores; those   *)
(* earlier in the list have been told.                                     *)
TellAll(word, next) ==
  IF links \subseteq Live
  THEN lpc' = next /\ said' = Tell(links, word) /\ UNCHANGED <<links, reported, pending>>
  ELSE Dies("sigpipe") /\ \E D \in SUBSET (links \intersect Live) : said' = Tell(D, word)

(* Mutant: the event stays reported when the client has been taken.        *)
AcceptClientAgain ==
  /\ lpc = "run" /\ "tcp" \in reported
  /\ lpc' = "ssl"
  /\ pending' = pending - 1
  /\ UNCHANGED <<links, reported, listenVars, processVars, linkVars>>

AcceptClient ==
  /\ lpc = "run" /\ "tcp" \in reported
  /\ lpc' = "ssl"
  /\ pending' = pending - 1
  /\ reported' = reported \ {"tcp"}
  /\ UNCHANGED <<links, listenVars, processVars, linkVars>>

(* SSL_accept succeeds; the client goes to every linked dispatcher.        *)
HandshakeOk ==
  /\ lpc = "ssl"
  /\ TellAll("client", "run")
  /\ UNCHANGED <<listenVars, processVars, link, target>>

HandshakeFail ==
  /\ lpc = "ssl"
  /\ lpc' = "run"
  /\ UNCHANGED <<links, reported, pending, listenVars, processVars, linkVars>>

(* Mutant: the label goes to the dispatcher, the text does not.            *)
AcceptDispatcherLabel(d) ==
  /\ lpc = "run" /\ "tcp" \notin reported /\ "unix" \in reported
  /\ d \in Waiting
  /\ link' = [link EXCEPT ![d] = "accepted"]
  /\ lpc' = "run"
  /\ links' = links \union {d}
  /\ reported' = reported \ {"unix"}
  /\ said' = Tell({d}, "CONFIG")
  /\ UNCHANGED <<pending, listenVars, processVars, target>>

(* SSL_accept writes to a client that has reset the connection.            *)
HandshakeKills ==
  /\ lpc = "ssl"
  /\ Dies("sigpipe")
  /\ UNCHANGED <<listenVars, processVars, linkVars>>

(* accept(), the link enters the list, and the label is written.           *)
AcceptDispatcher(d) ==
  /\ lpc = "run" /\ "tcp" \notin reported /\ "unix" \in reported
  /\ d \in Waiting
  /\ link' = [link EXCEPT ![d] = "accepted"]
  /\ IF d \in Live
     THEN /\ lpc' = "text"
          /\ links' = links \union {d}
          /\ reported' = reported \ {"unix"}
          /\ said' = Tell({d}, "CONFIG")
          /\ UNCHANGED pending
     ELSE Dies("sigpipe") /\ UNCHANGED said
  /\ UNCHANGED <<listenVars, processVars, target>>

(* The text of the options, in a write of its own.                         *)
SendText(d) ==
  /\ lpc = "text"
  /\ d \in links /\ said[d] = <<"CONFIG">>
  /\ IF d \in Live
     THEN lpc' = "run" /\ said' = Tell({d}, "OPTIONS") /\ UNCHANGED <<links, reported, pending>>
     ELSE Dies("sigpipe") /\ UNCHANGED said
  /\ UNCHANGED <<listenVars, processVars, link, target>>

DropLink(d) ==
  /\ lpc = "run" /\ reported \intersect {"tcp", "unix"} = {}
  /\ d \in reported
  /\ links' = links \ {d}
  /\ reported' = reported \ {d}
  /\ UNCHANGED <<lpc, pending, listenVars, processVars, linkVars>>

(* sayGoodbyeToAllDispatchers.                                             *)
Goodbye ==
  /\ RoundOver /\ exitRequested
  /\ TellAll("EXIT", "linger")
  /\ UNCHANGED <<listenVars, processVars, link, target>>

(* sleep(2), then every socket is destroyed and dispatch.sock unlinked.    *)
Linger ==
  /\ lpc = "linger"
  /\ Dies("gone")
  /\ path' = 0
  /\ UNCHANGED <<life, exitRequested, arrived, tcpBound, processVars, linkVars>>

ClientArrives ==
  /\ Running /\ lpc # "boot" /\ arrived < MaxClients
  /\ arrived' = arrived + 1
  /\ pending' = pending + 1
  /\ UNCHANGED <<lpc, links, reported, life, exitRequested, path, tcpBound, processVars, linkVars>>

-------------------------------------------------------------------------------
(* Dispatchers.                                                            *)

DispatcherEnds(d) ==
  /\ dstate' = [dstate EXCEPT ![d] = "zombie"]
  /\ UNCHANGED <<forkFailed, born, copies, listenVars, roundVars, linkVars>>

(* Anything may kill a dispatcher.                                         *)
Die(d) == d \in Live /\ DispatcherEnds(d)

(* connect() to what dispatch.sock names now.                              *)
Connect(d) ==
  /\ d \in Live /\ link[d] = "none"
  /\ path # 0 /\ SocketOpen(path)
  /\ link' = [link EXCEPT ![d] = "waiting"]
  /\ target' = [target EXCEPT ![d] = path]
  /\ UNCHANGED <<said, listenVars, roundVars, processVars>>

ConnectFails(d) ==
  /\ d \in Live /\ link[d] = "none"
  /\ path = 0 \/ ~SocketOpen(path)
  /\ DispatcherEnds(d)

(* Mutant: the dispatcher does not notice its parent's end.                *)
HungUpNever(d) == FALSE

(* Nobody holds the other end of the dispatcher's link any more.           *)
HungUp(d) ==
  \/ link[d] = "waiting" /\ ~SocketOpen(target[d])
  \/ link[d] = "accepted" /\ d \notin links /\ copies[d] \intersect Live = {}

Obey(d) ==
  /\ d \in Live
  /\ HungUp(d) \/ (said[d] # << >> /\ said[d][Len(said[d])] = "EXIT")
  /\ DispatcherEnds(d)

-------------------------------------------------------------------------------
ListenerStep ==
  \/ Boot \/ Loop \/ pollSockets \/ PollInterrupted \/ PollTimeout
  \/ AcceptClient \/ Goodbye \/ Linger
  \/ \E d \in Dispatchers : AcceptDispatcher(d) \/ SendText(d) \/ DropLink(d)

HandshakeStep == HandshakeOk \/ HandshakeFail \/ HandshakeKills

DispatcherStep(d) == Connect(d) \/ ConnectFails(d) \/ Obey(d)

Terminated == ~Running /\ life = MaxLives /\ Live = {} /\ UNCHANGED vars

Next ==
  \/ ListenerStep \/ HandshakeStep
  \/ Start \/ Sigint \/ Terminate \/ ClientArrives
  \/ \E d \in Dispatchers : DispatcherStep(d) \/ Die(d)
  \/ Terminated

Spec == Init /\ [][Next]_vars

(* The operating system runs both programs.  Nothing is promised of what   *)
(* comes from outside: no client need ever finish its handshake.           *)
Fairness ==
  /\ WF_vars(ListenerStep)
  /\ \A d \in Dispatchers : WF_vars(DispatcherStep(d))

FairSpec == Spec /\ Fairness

-------------------------------------------------------------------------------
(* What a dispatcher reads is what Dispatcher.tla lets its parent write:   *)
(* label, options, clients, EXIT, in this order; a link is in the list     *)
(* outside processDispatcherConnection only when it was configured         *)
(* (mylsnr.cpp:93-112, 71-77, 142-146).                                    *)
Form == <<"CONFIG", "OPTIONS">>

LinkContract ==
  \A d \in Dispatchers :
    /\ \A i \in 1 .. Len(said[d]) :
         IF i <= 2 THEN said[d][i] = Form[i]
         ELSE said[d][i] = "client" \/ (said[d][i] = "EXIT" /\ i = Len(said[d]))
    /\ d \in links /\ lpc # "text" => Len(said[d]) >= 2

(* The listener has one child at a time, whatever died, was reaped and was *)
(* forked in which order (mylsnr.cpp:179, 198-203).                        *)
OneChild == \A d, e \in Live \intersect Children : d = e

(* A client is passed to every linked dispatcher (mylsnr.cpp:70-78).  When *)
(* every listener so far could bind its port that is one at most: what a   *)
(* killed listener leaves behind holds the port, so that none of it can be *)
(* linked with a listener that came later.                                 *)
OneServer == (1 .. life) \subseteq tcpBound => \A d, e \in links \intersect Live : d = e

(* No client is passed on more often than clients were accepted, counted   *)
(* over all the dispatchers there have ever been and through every restart *)
(* (mylsnr.cpp:59-80): none twice to one dispatcher, none to a dispatcher  *)
(* and to its replacement.  As above, every listener so far has its port.  *)
Passed ==
  UNION {{d} \X {i \in 1 .. Len(said[d]) : said[d][i] = "client"} : d \in Dispatchers}

PassedOnce ==
  (1 .. life) \subseteq tcpBound =>
    Cardinality(Passed) + (IF lpc = "ssl" THEN 1 ELSE 0) <= arrived - pending

(* A listener asked to stop ends, unless it is held up in the handshake of *)
(* a client that does not answer (mylsnr.cpp:190, TcpSslListenerSocket-    *)
(* Factory.cpp:59).                                                        *)
ShutdownCompletes == exitRequested ~> ~Running \/ lpc = "ssl"

(* A dispatcher that has died is replaced (mylsnr.cpp:198-203), once no    *)
(* event comes for a second, when fork() works and nothing ends the        *)
(* listener or holds it up.                                                *)
Excused == ~Running \/ exitRequested \/ lpc = "ssl"

ChildIsReplaced ==
  lpc = "run" /\ Live \intersect Children = {}
    ~> Live \intersect Children # {} \/ forkFailed \/ Excused

(* A dispatcher the listener has accepted does not outlive it, whether the *)
(* listener said EXIT or not (mydisp.cpp:103-113, 140-143).                *)
LinkedEnds ==
  \A d \in Dispatchers : (~Running /\ link[d] = "accepted" /\ d \in Live) ~> d \notin Live


-------------------------------------------------------------------------------
(* What the comments and messages say, and the code does not do.           *)

(* "restart dispatcher child if need." (mylsnr.cpp:200): a dispatcher that *)
(* dies does not take the listener with it.                                *)
ListenerSurvives == lpc # "sigpipe"

(* "parent has disconnected from our UNIX socket, exiting..."              *)
(* (mydisp.cpp:104): no dispatcher stays behind when its parent is gone.   *)
NoOrphans ==
  \A d \in Dispatchers : (~Running /\ d \in Live) ~> d \notin Live
=============================================================================
