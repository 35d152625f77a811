------------------------------ MODULE Dispatcher ------------------------------
(***************************************************************************)
(* One dispatcher process (src/mydisp.cpp), its clients (Client.tla) and   *)
(* the parent's end of the unix socket that joins the dispatcher to the    *)
(* listener.  The process is one thread around poll(): a step is one call  *)
(* of pollSockets or the whole handler of one reported socket, except that *)
(* dispatcherProcess looks at the unix socket (MSG_PEEK) in one step and   *)
(* reads the configuration in the next, because the parent may write       *)
(* between the two.                                                        *)
(***************************************************************************)
EXTENDS Client, SocketsList

CONSTANTS MaxSockets   \* MAX_SOCKETS of mydisp.cpp, 10 in the code

Unix == "unix"         \* the dispatcher's unix socket
Sockets == Clients \union {Unix}

ASSUME DispatcherAssumption ==
  /\ MaxSockets \in Nat \ {0}
  /\ Unix \notin Clients
  /\ Clients \intersect {"CONFIG", "OPTIONS", "EXIT"} = {}

VARIABLES
  pc,            \* the thread: in its loop, before the recv of the
                 \* configuration, ended by return, killed by a null SSL
  socketsList,   \* the sockets it polls
  reSocketsList, \* the sockets the last poll reported
  revents,       \* what was reported of each and is not handled yet
  pollOut,       \* the clients whose next poll asks for POLLOUT
  clientStatus,  \* ClientStatus of each client
  sslGlobalCtx,  \* is there an SSL context?
  stream,        \* written by the parent, not read yet
  parent         \* where the parent's end is

dispatcherVars ==
  <<pc, socketsList, reSocketsList, revents, pollOut, clientStatus, sslGlobalCtx>>

vars == <<clientVars, dispatcherVars, stream, parent>>

(* What the parent writes: the label, the text of the options, EXIT, or a  *)
(* client, whose two bytes carry the descriptor (sendSocket).              *)
Messages == {"CONFIG", "OPTIONS", "EXIT"} \union Clients

Events == {"IN", "OUT", "HUP"}
NoEvents == [s \in Sockets |-> {}]

TypeOK ==
  /\ ClientTypeOK
  /\ pc \in {"run", "recv", "exited", "crashed"}
  /\ socketsList \in SUBSET Sockets
  /\ reSocketsList \in SUBSET Sockets
  /\ revents \in [Sockets -> SUBSET Events]
  /\ pollOut \in SUBSET Clients
  /\ clientStatus \in [Clients -> {"NONE", "HELLO", "ECHO", "BYE"}]
  /\ sslGlobalCtx \in BOOLEAN
  /\ stream \in Seq(Messages)
  /\ parent \in {"label", "text", "serve", "bye", "closed"}

(* The process has connected to its parent and put the socket in the list. *)
Init ==
  /\ ClientInit
  /\ pc = "run"
  /\ socketsList = {Unix}
  /\ reSocketsList = {}
  /\ revents = NoEvents
  /\ pollOut = {}
  /\ clientStatus = [c \in Clients |-> "NONE"]
  /\ sslGlobalCtx = FALSE
  /\ stream = << >>
  /\ parent = "label"

Alive == pc \in {"run", "recv"}

-------------------------------------------------------------------------------
(* The parent, as far as this socket shows it: the label and the text of   *)
(* the configuration in two writes, then clients, then EXIT; it may die    *)
(* anywhere.  What the listener does when the dispatcher is gone is not    *)
(* this module's matter.                                                   *)

ParentWrites(message) == Alive /\ stream' = Append(stream, message)

ParentLabel ==
  /\ parent = "label"
  /\ ParentWrites("CONFIG")
  /\ parent' = "text"
  /\ UNCHANGED <<clientVars, dispatcherVars>>

ParentText ==
  /\ parent = "text"
  /\ ParentWrites("OPTIONS")
  /\ parent' = "serve"
  /\ UNCHANGED <<clientVars, dispatcherVars>>

(* Mutant: a client is passed to a dispatcher that was sent nothing yet.   *)
ParentPassEarly(c) ==
  /\ parent \in {"label", "serve"}
  /\ ParentWrites(c)
  /\ Connect(c)
  /\ UNCHANGED <<dispatcherVars, parent>>

ParentPass(c) ==
  /\ parent = "serve"
  /\ ParentWrites(c)
  /\ Connect(c)
  /\ UNCHANGED <<dispatcherVars, parent>>

ParentBye ==
  /\ parent = "serve"
  /\ ParentWrites("EXIT")
  /\ parent' = "bye"
  /\ UNCHANGED <<clientVars, dispatcherVars>>

ParentClose ==
  /\ parent # "closed"
  /\ parent' = "closed"
  /\ UNCHANGED <<clientVars, dispatcherVars, stream>>

-------------------------------------------------------------------------------
(* The loop of main().                                                     *)

(* Clients the last round dropped keep their descriptor until the next     *)
(* round clears reSocketsList, the last owner of the Socket.               *)
Dropped == (reSocketsList \ socketsList) \intersect Clients

(* What poll() would report of a listed socket.                            *)
Ready(s) ==
  IF s = Unix
  THEN {e \in Events : \/ e = "IN" /\ (stream # << >> \/ parent = "closed")
                       \/ e = "HUP" /\ parent = "closed"}
  ELSE {e \in Events : \/ e = "IN" /\ (up[s] # << >> \/ peer[s] \in {"fin", "rstfly", "rst"})
                       \/ e = "OUT" /\ s \in pollOut
                       \/ e = "HUP" /\ peer[s] = "rst"}

RoundOver == pc = "run" /\ revents = NoEvents

(* Mutant: the sockets of the round before are forgotten, not closed.      *)
pollSocketsLeak ==
  /\ RoundOver
  /\ \E s \in socketsList : Ready(s) # {}
  /\ reSocketsList' = {s \in socketsList : Ready(s) # {}}
  /\ revents' = [s \in Sockets |-> IF s \in socketsList THEN Ready(s) ELSE {}]
  /\ pollOut' = {}
  /\ UNCHANGED <<clientVars, pc, socketsList, clientStatus, sslGlobalCtx, stream, parent>>

(* poll() reports something: the requested events are used up and the      *)
(* reported ones replace those of the round before.                        *)
pollSockets ==
  /\ RoundOver
  /\ ServerClose(Dropped)
  /\ \E s \in socketsList : Ready(s) # {}
  /\ reSocketsList' = {s \in socketsList : Ready(s) # {}}
  /\ revents' = [s \in Sockets |-> IF s \in socketsList THEN Ready(s) ELSE {}]
  /\ pollOut' = {}
  /\ UNCHANGED <<cpc, sent, down, got, pc, socketsList, clientStatus, sslGlobalCtx, stream, parent>>

(* One second without an event, or a signal: INTERRUPTED and TIMEOUT both  *)
(* go round the loop, with the requests for POLLOUT erased.                *)
PollIdle ==
  /\ RoundOver
  /\ \A s \in socketsList : Ready(s) = {}
  /\ ServerClose(Dropped)
  /\ reSocketsList' = {}
  /\ pollOut' = {}
  /\ UNCHANGED <<cpc, sent, down, got, pc, socketsList, revents, clientStatus, sslGlobalCtx, stream, parent>>

(* The process is gone, and with it every descriptor it held and those in  *)
(* flight on its socket.                                                   *)
Stop(how) ==
  /\ pc' = how
  /\ ServerClose({c \in Clients : srv[c] = "open"})
  /\ socketsList' = {}
  /\ reSocketsList' = {}
  /\ revents' = NoEvents
  /\ pollOut' = {}
  /\ clientStatus' = [c \in Clients |-> "NONE"]
  /\ stream' = << >>
  /\ UNCHANGED <<cpc, sent, down, got, sslGlobalCtx, parent>>

-------------------------------------------------------------------------------
(* dispatcherProcess: the unix socket, first of the list, was reported.    *)

Handled(s) == revents' = [revents EXCEPT ![s] = {}]

UnixReported == pc = "run" /\ revents[Unix] # {}

(* Mutant: a hang-up is skipped over.                                      *)
UnixHangupIgnored ==
  /\ UnixReported
  /\ "HUP" \in revents[Unix] \/ (stream = << >> /\ parent = "closed")
  /\ Handled(Unix)
  /\ UNCHANGED <<clientVars, pc, socketsList, reSocketsList, pollOut,
                 clientStatus, sslGlobalCtx, stream, parent>>

(* isDropped(), or recv() sees the end of the stream.                      *)
UnixHangup ==
  /\ UnixReported
  /\ "HUP" \in revents[Unix] \/ (stream = << >> /\ parent = "closed")
  /\ Stop("exited")

UnixMessage == UnixReported /\ "HUP" \notin revents[Unix] /\ stream # << >>

(* Mutant: pollForWrite() is not called for a received client.             *)
AdmitSilent(c) ==
  /\ ~IsFull(socketsList, MaxSockets)
  /\ socketsList' = putSocket(socketsList, c, MaxSockets)
  /\ clientStatus' = [clientStatus EXCEPT ![c] = "HELLO"]
  /\ Handled(Unix)
  /\ stream' = Tail(stream)
  /\ UNCHANGED <<clientVars, pc, reSocketsList, pollOut, sslGlobalCtx, parent>>

(* Mutant: a received client is given no status.                           *)
AdmitNoStatus(c) ==
  /\ ~IsFull(socketsList, MaxSockets)
  /\ socketsList' = putSocket(socketsList, c, MaxSockets)
  /\ pollOut' = pollOut \union {c}
  /\ Handled(Unix)
  /\ stream' = Tail(stream)
  /\ UNCHANGED <<clientVars, pc, reSocketsList, clientStatus, sslGlobalCtx, parent>>

(* Mutant: the report of the unix socket stays, and is handled again.      *)
AdmitReported(c) ==
  /\ ~IsFull(socketsList, MaxSockets)
  /\ socketsList' = putSocket(socketsList, c, MaxSockets)
  /\ pollOut' = pollOut \union {c}
  /\ clientStatus' = [clientStatus EXCEPT ![c] = "HELLO"]
  /\ stream' = Tail(stream)
  /\ UNCHANGED <<clientVars, pc, reSocketsList, revents, sslGlobalCtx, parent>>

(* A received client enters the list and asks for POLLOUT to be greeted.   *)
Admit(c) ==
  /\ ~IsFull(socketsList, MaxSockets)
  /\ socketsList' = putSocket(socketsList, c, MaxSockets)
  /\ pollOut' = pollOut \union {c}
  /\ clientStatus' = [clientStatus EXCEPT ![c] = "HELLO"]
  /\ Handled(Unix)
  /\ stream' = Tail(stream)
  /\ UNCHANGED <<clientVars, pc, reSocketsList, sslGlobalCtx, parent>>

(* Mutant: a refused client gets a status of its own.                      *)
RefuseStatus(c) ==
  /\ IsFull(socketsList, MaxSockets)
  /\ down' = IF peer[c] = "open" THEN [down EXCEPT ![c] = Append(@, "BUSY")] ELSE down
  /\ ServerClose({c})
  /\ clientStatus' = [clientStatus EXCEPT ![c] = "BUSY"]
  /\ Handled(Unix)
  /\ stream' = Tail(stream)
  /\ UNCHANGED <<cpc, sent, got, pc, socketsList, reSocketsList, pollOut, sslGlobalCtx, parent>>

(* Mutant: a refused client is not told.                                   *)
RefuseSilent(c) ==
  /\ IsFull(socketsList, MaxSockets)
  /\ ServerClose({c})
  /\ Handled(Unix)
  /\ stream' = Tail(stream)
  /\ UNCHANGED <<cpc, sent, down, got, pc, socketsList, reSocketsList, pollOut,
                 clientStatus, sslGlobalCtx, parent>>

(* A full list: the client is told so, and the only Socket that holds its  *)
(* descriptor dies with the handler.                                       *)
Refuse(c) ==
  /\ IsFull(socketsList, MaxSockets)
  /\ down' = IF peer[c] = "open" THEN [down EXCEPT ![c] = Append(@, "BUSY")] ELSE down
  /\ ServerClose({c})
  /\ Handled(Unix)
  /\ stream' = Tail(stream)
  /\ UNCHANGED <<cpc, sent, got, pc, socketsList, reSocketsList, pollOut,
                 clientStatus, sslGlobalCtx, parent>>

(* Two bytes: a client.  SslSocket's constructor dereferences SSL_new(),   *)
(* which is null without a context.                                        *)
UnixClient(c) ==
  /\ UnixMessage
  /\ Head(stream) = c
  /\ IF sslGlobalCtx THEN Admit(c) \/ Refuse(c) ELSE Stop("crashed")

(* MSG_PEEK sees CONFIG.                                                   *)
UnixConfig ==
  /\ UnixMessage
  /\ Head(stream) = "CONFIG"
  /\ pc' = "recv"
  /\ UNCHANGED <<clientVars, socketsList, reSocketsList, revents, pollOut,
                 clientStatus, sslGlobalCtx, stream, parent>>

(* A recv() on a unix stream joins the writes it finds, up to and with the *)
(* first that carries a descriptor.                                        *)
Joined(n) ==
  /\ n \in 1 .. Len(stream)
  /\ \A i \in 1 .. n - 1 : stream[i] \notin Clients
  /\ n = Len(stream) \/ stream[n] \in Clients

(* processConfig() can end with an SSL context when there is one already,  *)
(* or when the first n writes hold the names of the certificates.          *)
createContext(n) == sslGlobalCtx \/ \E i \in 1 .. n : stream[i] = "OPTIONS"

(* Mutant: only the label is read.                                         *)
RecvConfigLabel ==
  /\ pc = "recv"
  /\ sslGlobalCtx' = TRUE
  /\ pc' = "run"
  /\ stream' = Tail(stream)
  /\ Handled(Unix)
  /\ UNCHANGED <<clientVars, socketsList, reSocketsList, pollOut, clientStatus, parent>>

(* recv() of the configuration: everything joined to the label is taken    *)
(* for its text; a descriptor in it is closed, since recv() has no place   *)
(* for it.  Without the text the process ends, and with it too when a      *)
(* certificate cannot be loaded (Configuration.tla).                       *)
RecvConfig ==
  /\ pc = "recv"
  /\ \E n \in 1 .. Len(stream) :
       /\ Joined(n)
       /\ \/ /\ createContext(n)
             /\ sslGlobalCtx' = TRUE
             /\ pc' = "run"
             /\ ServerClose({stream[n]} \intersect Clients)
             /\ stream' = SubSeq(stream, n + 1, Len(stream))
             /\ Handled(Unix)
             /\ UNCHANGED <<cpc, sent, down, got, socketsList, reSocketsList,
                            pollOut, clientStatus, parent>>
          \/ ~sslGlobalCtx /\ Stop("exited")

(* What is compared with EXIT.  When recv() has nothing, it does not wait  *)
(* (UnixSocketFactory.cpp:63), and the bytes compared are those an earlier *)
(* call left on the stack: EXIT, or CONFIG, whose second recv() fails and  *)
(* ends the process just so, or none of the two.                           *)
Peeked ==
  IF stream # << >> THEN {Head(stream)} \ (Clients \union {"CONFIG"})
  ELSE IF parent = "closed" THEN {} ELSE {"EXIT", "OPTIONS"}

(* EXIT ends the process.  Anything else is left unread and looked at      *)
(* again in the next round.                                                *)
UnixOther ==
  /\ UnixReported /\ "HUP" \notin revents[Unix]
  /\ \E message \in Peeked :
       IF message = "EXIT"
       THEN Stop("exited")
       ELSE /\ Handled(Unix)
            /\ UNCHANGED <<clientVars, pc, socketsList, reSocketsList, pollOut,
                           clientStatus, sslGlobalCtx, stream, parent>>

-------------------------------------------------------------------------------
(* processClient: a client was reported.                                   *)

ClientReported(c) == pc = "run" /\ revents[Unix] = {} /\ revents[c] # {}

(* processClient returned false.                                           *)
Remove(c) ==
  /\ socketsList' = delSocket(socketsList, c, MaxSockets)
  /\ Handled(c)
  /\ UNCHANGED <<cpc, sent, got, srv, pc, reSocketsList, pollOut, sslGlobalCtx, stream, parent>>

(* Mutant: the reported events of a kept client stay.                      *)
KeepReported(c) ==
  UNCHANGED <<cpc, sent, got, srv, pc, socketsList, reSocketsList, revents, pollOut,
              sslGlobalCtx, stream, parent>>

Keep(c) ==
  /\ Handled(c)
  /\ UNCHANGED <<cpc, sent, got, srv, pc, socketsList, reSocketsList, pollOut,
                 sslGlobalCtx, stream, parent>>

(* Mutant: HELLO is not followed by ECHO.                                  *)
ReplyStays(c, status) ==
  /\ ServerWrite(c, status)
  /\ clientStatus' = [clientStatus EXCEPT ![c] = status]
  /\ IF status = "BYE" \/ ~Writable(c) THEN Remove(c) ELSE Keep(c)

(* Mutant: one answer and the client is dropped.                           *)
ReplyOnce(c, status) ==
  /\ ServerWrite(c, status)
  /\ clientStatus' = [clientStatus EXCEPT ![c] = IF status = "HELLO" THEN "ECHO" ELSE status]
  /\ IF status # "HELLO" \/ ~Writable(c) THEN Remove(c) ELSE Keep(c)

(* The write half of the handler: the reply and the next status follow     *)
(* from the status; BYE and a failed write drop the client.                *)
Reply(c, status) ==
  /\ ServerWrite(c, status)
  /\ clientStatus' = [clientStatus EXCEPT ![c] = IF status = "HELLO" THEN "ECHO" ELSE status]
  /\ IF status = "BYE" \/ ~Writable(c) THEN Remove(c) ELSE Keep(c)

DropHup(c) ==
  /\ ClientReported(c)
  /\ "HUP" \in revents[c]
  /\ Remove(c)
  /\ UNCHANGED <<up, down, peer, clientStatus>>

Readable(c) == ClientReported(c) /\ "HUP" \notin revents[c] /\ "IN" \in revents[c]

(* What memcmp(buffer,"EXIT",4) may say of what was read.                  *)
SaysExit(piece) == CASE piece = "EXIT" -> {TRUE} [] piece = "DATA" -> {FALSE} [] OTHER -> BOOLEAN

(* Mutant: the read asks for POLLOUT instead of going on to the write.     *)
ReadDataNoReply(c) ==
  /\ Readable(c)
  /\ \E n \in 1 .. Len(up[c]) : up' = [up EXCEPT ![c] = SubSeq(@, n + 1, Len(@))]
  /\ Keep(c)
  /\ UNCHANGED <<down, peer, clientStatus>>

(* Mutant: the read looks at what has arrived and leaves it there.         *)
ReadDataPeeks(c) ==
  /\ Readable(c)
  /\ up[c] # << >>
  /\ UNCHANGED up
  /\ \E bye \in SaysExit(Head(up[c])) : Reply(c, IF bye THEN "BYE" ELSE clientStatus[c])

(* read() returns what has arrived, up to 100 bytes: pieces of one word or *)
(* of several.  The first decides; one reply answers them all.             *)
ReadData(c) ==
  /\ Readable(c)
  /\ \E n \in 1 .. Len(up[c]) : up' = [up EXCEPT ![c] = SubSeq(@, n + 1, Len(@))]
  /\ \E bye \in SaysExit(Head(up[c])) : Reply(c, IF bye THEN "BYE" ELSE clientStatus[c])

(* Mutant: read() returns 0 and nothing is tried.                          *)
ReadEofIgnored(c) ==
  /\ Readable(c)
  /\ up[c] = << >> /\ peer[c] \in {"fin", "rstfly", "rst"}
  /\ Keep(c)
  /\ UNCHANGED <<up, down, peer, clientStatus>>

(* read() returns 0, a test write follows, and the greeting as well when   *)
(* POLLOUT was reported with it.  The reset the test write provokes may    *)
(* come between the two: the greeting then fails.                          *)
ReadEof(c) ==
  /\ Readable(c)
  /\ up[c] = << >> /\ peer[c] \in {"fin", "rstfly", "rst"}
  /\ UNCHANGED <<up, down>>
  /\ IF ~Writable(c)
     THEN Remove(c) /\ UNCHANGED <<peer, clientStatus>>
     ELSE \E answer \in IF "OUT" \in revents[c] THEN {"rstfly", "rst"} ELSE {"rstfly"} :
            /\ peer' = [peer EXCEPT ![c] = answer]
            /\ clientStatus' = [clientStatus EXCEPT ![c] =
                                  IF @ = "HELLO" /\ "OUT" \in revents[c] THEN "ECHO" ELSE @]
            /\ IF answer = "rst" \/ ("OUT" \in revents[c] /\ clientStatus[c] = "BYE")
               THEN Remove(c) ELSE Keep(c)

(* read() returns -1.                                                      *)
ReadError(c) ==
  /\ Readable(c)
  /\ up[c] = << >> /\ peer[c] = "rst"
  /\ Remove(c)
  /\ UNCHANGED <<up, down, peer, clientStatus>>

WriteOnly(c) ==
  /\ ClientReported(c)
  /\ revents[c] = {"OUT"}
  /\ Reply(c, clientStatus[c])
  /\ UNCHANGED up

-------------------------------------------------------------------------------
DispatcherStep ==
  \/ pollSockets \/ PollIdle
  \/ UnixHangup \/ UnixConfig \/ RecvConfig \/ UnixOther
  \/ \E c \in Clients : \/ UnixClient(c) \/ DropHup(c) \/ ReadData(c)
                        \/ ReadEof(c) \/ ReadError(c) \/ WriteOnly(c)

ParentStep ==
  \/ ParentLabel \/ ParentText \/ ParentBye \/ ParentClose
  \/ \E c \in Clients : ParentPass(c)

ClientsStep ==
  \E c \in Clients : ClientStep(c) /\ UNCHANGED <<dispatcherVars, stream, parent>>

(* The dispatcher has ended and no client is left that could do anything.  *)
Terminated ==
  /\ ~Alive /\ parent = "closed"
  /\ \A c \in Clients : cpc[c] \in {"idle", "done"}
  /\ UNCHANGED vars

Next == DispatcherStep \/ ParentStep \/ ClientsStep \/ Terminated

Spec == Init /\ [][Next]_vars

(* The operating system runs the dispatcher, lets a client's read return   *)
(* and delivers a reset; nothing is promised of users or of the parent.    *)
Fairness ==
  /\ WF_vars(DispatcherStep)
  /\ \A c \in Clients :
       /\ WF_vars(ClientRead(c) /\ UNCHANGED <<dispatcherVars, stream, parent>>)
       /\ WF_vars(RstArrives(c) /\ UNCHANGED <<dispatcherVars, stream, parent>>)

FairSpec == Spec /\ Fairness

-------------------------------------------------------------------------------
(* Safety.                                                                 *)

(* The descriptor of a client passed to the dispatcher has exactly one     *)
(* owner at any time: the unix stream, the socket list, or, for a client   *)
(* dropped in this round, the list of reported sockets; and none is kept   *)
(* by a process that forgot it (SslSocket/protectDescriptor, ~Socket).     *)
InFlight(c) == {i \in 1 .. Len(stream) : stream[i] = c}

DescriptorsHeld ==
  \A c \in Clients :
    /\ (srv[c] = "open") <=> (c \in socketsList \union reSocketsList \/ InFlight(c) # {})
    /\ InFlight(c) # {} => c \notin socketsList \union reSocketsList
    /\ \A i, j \in InFlight(c) : i = j

(* No client is ever wrapped in an SslSocket before the configuration has  *)
(* made the SSL context: SSL_new(nullptr) would end the process            *)
(* (mydisp.cpp:122, SslSocket.cpp:33).                                     *)
NeverWithoutContext == pc # "crashed"

(* The dispatcher understands what is first in its socket: text of the     *)
(* configuration left there by a short recv() would be peeked at for ever, *)
(* since no branch of dispatcherProcess reads it (mydisp.cpp:115-145).     *)
HeadRecognised == pc = "run" /\ stream # << >> => Head(stream) # "OPTIONS"

(* A living client not greeted yet has its greeting ahead: POLLOUT is      *)
(* requested of the next poll or was reported by the last one, although    *)
(* every poll erases the requests (mydisp.cpp:128, SocketsPoller.cpp:54).  *)
GreetingPending ==
  \A c \in socketsList \intersect Clients :
    clientStatus[c] = "HELLO" /\ cpc[c] # "done" => c \in pollOut \/ "OUT" \in revents[c]

(* The thread never waits in the read of one client while others wait for  *)
(* it: a client reported readable still has something to be read, or has   *)
(* ended, when its handler runs (mydisp.cpp:153).                          *)
NeverBlocks ==
  \A c \in Clients :
    "IN" \in revents[c] => up[c] # << >> \/ peer[c] \in {"fin", "rstfly", "rst"}

(* What one client can see: refused at once, or greeted first, then echoed *)
(* and, at the end, dismissed, possibly before it was greeted.  A word is  *)
(* answered as often as reads cut it, but each answer has bytes of its own *)
(* to answer (mydisp.cpp:125, 154-199).                                    *)
Follows == [TICKET |-> {"START"},
            HELLO  |-> {"START", "TICKET"},
            BUSY   |-> {"START", "TICKET"},
            ECHO   |-> {"HELLO", "ECHO"},
            BYE    |-> {"START", "TICKET", "HELLO", "ECHO", "BYE"}]

Before(c, i) == IF i = 1 THEN "START" ELSE down[c][i - 1]
Answers(c) == Cardinality({i \in 1 .. Len(down[c]) : down[c][i] \in {"ECHO", "BYE"}})

Conversation ==
  \A c \in Clients :
    /\ \A i \in 1 .. Len(down[c]) : Before(c, i) \in Follows[down[c][i]]
    /\ Answers(c) <= sent[c]

(* A running dispatcher lets go of a client only when the client has gone  *)
(* or has just been told BYE: no failed or misread step drops a live one.  *)
DroppedForCause ==
  [][\A c \in Clients :
       c \in socketsList /\ c \notin socketsList' /\ Alive'
         => cpc[c] = "done" \/ (down'[c] # << >> /\ down'[c][Len(down'[c])] = "BYE")]_vars

(* The process ends by itself when its parent has gone, when it is told to *)
(* by EXIT, or while it reads its configuration, and never because it      *)
(* looks again for what it has read already: recv() would find nothing,    *)
(* and an EXIT left on the stack would do (mydisp.cpp:103-113, 138-142).   *)
EndsForCause ==
  [][Alive /\ ~Alive' =>
       parent = "closed" \/ pc = "recv" \/ (stream # << >> /\ Head(stream) = "EXIT")]_vars

(* A client in the stream is served or told BUSY, whatever the order of    *)
(* polls, refusals and other clients, except by the one recv() of the      *)
(* configuration (mydisp.cpp:116-129, 132).                                *)
TakenOrRefused ==
  [][\A c \in Clients :
       InFlight(c) # {} /\ InFlight(c)' = {} /\ Alive' /\ pc # "recv"
         => c \in socketsList' \/ (down'[c] # << >> /\ down'[c][Len(down'[c])] = "BUSY")
            \/ cpc[c] = "done"]_vars

-------------------------------------------------------------------------------
(* Liveness.                                                               *)

(* A client's read() returns: the greeting, an answer, a refusal or the    *)
(* end of the connection comes, whatever the other clients and the parent  *)
(* do.                                                                     *)
EveryReadReturns == \A c \in Clients : cpc[c] = "read" ~> cpc[c] # "read"

(* The connection of a client that has gone is closed in the end, however  *)
(* it went and whatever it left unread, unless the list is full: nobody    *)
(* leaves a full list (SocketsList.h:50).                                  *)
GoneIsDropped ==
  \A c \in Clients :
    cpc[c] = "done" ~> srv[c] # "open" \/ IsFull(socketsList, MaxSockets)

(* The dispatcher ends when its parent's end is closed (mydisp.cpp:103).   *)
HangupObeyed == parent = "closed" ~> ~Alive

-------------------------------------------------------------------------------
(* What the code's messages and comments say, and the code does not do.    *)

(* "FAILED BUSY TRY LATER!!!!" (mydisp.cpp:125): a list that is full with  *)
(* clients that have all gone has room again later.                        *)
BusyIsTemporary ==
  (IsFull(socketsList, MaxSockets) /\ \A c \in socketsList \intersect Clients : cpc[c] = "done")
    ~> ~IsFull(socketsList, MaxSockets)

(* "When the listener process send to us the connected TCP socket we       *)
(* received it from the UNIX socket and put it to sockets list"            *)
(* (mydisp.cpp:87-89): a client in the stream is served or refused, unless *)
(* the dispatcher ends.                                                    *)
PassedClientIsTaken ==
  [][\A c \in Clients :
       InFlight(c) # {} /\ InFlight(c)' = {} /\ Alive'
         => c \in socketsList' \/ (down'[c] # << >> /\ down'[c][Len(down'[c])] = "BUSY")
            \/ cpc[c] = "done"]_vars

(* "we need read out received configuration data" (mydisp.cpp:91-93): a    *)
(* dispatcher does not end by itself while its parent is between the two   *)
(* writes of the configuration.                                            *)
ConfigSurvives == parent = "text" => pc # "exited"
=============================================================================
