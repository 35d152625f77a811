--------------------------- MODULE DispatcherProofs ---------------------------
(***************************************************************************)
(* The dispatcher's safety for any set of clients, any number of words     *)
(* they type and any MaxSockets: IInv of DispatcherInvariant.tla holds at  *)
(* first (InitIInv) and is kept by every step (NextIInv, one lemma per     *)
(* part of the invariant), and implies what the theorems at the end state. *)
(* The parts lean on each other in one direction: types and bookkeeping,   *)
(* the shape of the stream, ownership, then greeting and readiness.        *)
(***************************************************************************)
EXTENDS DispatcherInvariant, FiniteSetTheorems, SequenceTheorems, TLAPS

(* The frame of every step but Stop: what the unix stream and the clients' *)
(* ends become keeps its type.                                             *)
LEMMA CloseType ==
  ASSUME ClientTypeOK, NEW T \in SUBSET Clients, ServerClose(T)
  PROVE  /\ up' \in [Clients -> Seq(Pieces)]
         /\ srv' \in [Clients -> {"none", "open", "closed"}]
         /\ peer' \in [Clients -> {"none", "open", "fin", "rstfly", "rst"}]
BY DEF ClientTypeOK, ServerClose, Closed, Emptied, Forgotten

(* The end of the process: every descriptor is closed, every other         *)
(* variable is reset or left alone (mydisp.cpp:270-273).                   *)
LEMMA StopType ==
  ASSUME TypeOK, NEW how \in {"exited", "crashed"}, Stop(how)
  PROVE  TypeOK'
<1>1. ServerClose({c \in Clients : srv[c] = "open"})
  BY DEF Stop
<1>2. up' \in [Clients -> Seq(Pieces)] /\ srv' \in [Clients -> {"none", "open", "closed"}]
      /\ peer' \in [Clients -> {"none", "open", "fin", "rstfly", "rst"}]
  BY <1>1, CloseType DEF TypeOK
<1>3. revents' \in [Sockets -> SUBSET Events]
  BY DEF Stop, NoEvents
<1>4. stream' \in Seq(Messages)
  BY DEF Stop
<1>. QED
  BY <1>2, <1>3, <1>4 DEF Stop, TypeOK, ClientTypeOK

(* The write half of processClient keeps the types, whichever reply it     *)
(* writes and whether the client stays (mydisp.cpp:177-198).               *)
LEMMA ReplyType ==
  ASSUME TypeOK, NEW c \in Clients, NEW status \in {"HELLO", "ECHO", "BYE"},
         Reply(c, status), up' \in [Clients -> Seq(Pieces)]
  PROVE  TypeOK'
<1>1. down' \in [Clients -> Seq(Replies)] /\ peer' \in [Clients -> {"none", "open", "fin", "rstfly", "rst"}]
  BY DEF Reply, ServerWrite, TypeOK, ClientTypeOK, Replies
<1>2. clientStatus' \in [Clients -> {"NONE", "HELLO", "ECHO", "BYE"}]
  BY DEF Reply, TypeOK
<1>3. Remove(c) \/ Keep(c)
  BY DEF Reply
<1>. QED
  BY <1>1, <1>2, <1>3 DEF Remove, Keep, Handled, delSocket, TypeOK, ClientTypeOK, Sockets

(* What a client writes: a sequence of pieces, counted, and appended to    *)
(* what waits for the server if its end is open (myclnt.cpp:42-48).        *)
LEMMA WordWritten ==
  ASSUME ClientTypeOK, NEW c \in Clients, ClientSend(c) \/ ClientQuit(c)
  PROVE  \E word \in Seq(Pieces) : Writes(c, word)
<1>1. CASE ClientSend(c)
  <2>1. PICK n \in Nat : \E word \in [1 .. n -> Typed] : Writes(c, word)
    <3>1. MaxSend - sent[c] \in Int
      BY ClientAssumption DEF ClientTypeOK
    <3>2. \A n \in 1 .. MaxSend - sent[c] : n \in Nat
      BY <3>1
    <3>. QED
      BY <1>1, <3>2 DEF ClientSend
  <2>2. \A word \in [1 .. n -> Typed] : word \in Seq(Pieces)
    BY ClientAssumption
  <2>. QED
    BY <2>1, <2>2
<1>2. CASE ClientQuit(c)
  <2>1. <<"EXIT">> \in Seq(Pieces) /\ <<"SHORT", "SHORT">> \in Seq(Pieces)
    BY DEF Pieces
  <2>. QED
    BY <1>2, <2>1 DEF ClientQuit
<1>. QED
  BY <1>1, <1>2

LEMMA WritesEffect ==
  ASSUME ClientTypeOK, NEW c \in Clients, NEW word \in Seq(Pieces), Writes(c, word)
  PROVE  /\ sent' \in [Clients -> Nat] /\ up' \in [Clients -> Seq(Pieces)]
         /\ sent'[c] = sent[c] + Len(word) /\ Len(up'[c]) <= Len(up[c]) + Len(word)
         /\ \A d \in Clients \ {c} : sent'[d] = sent[d] /\ up'[d] = up[d]
         /\ \A d \in Clients : up[d] # << >> => up'[d] # << >>
<1>1. up[c] \in Seq(Pieces) /\ Len(up[c]) \in Nat /\ Len(word) \in Nat
  BY DEF ClientTypeOK
<1>2. up[c] \o word \in Seq(Pieces) /\ Len(up[c] \o word) = Len(up[c]) + Len(word)
  BY <1>1, ConcatProperties
<1>3. up[c] # << >> => up[c] \o word # << >>
  BY <1>1, <1>2
<1>4. up'[c] = up[c] \o word \/ up'[c] = up[c]
  BY DEF Writes, ClientTypeOK
<1>5. Len(up'[c]) <= Len(up[c]) + Len(word)
  BY <1>1, <1>2, <1>4
<1>6. sent' \in [Clients -> Nat] /\ sent'[c] = sent[c] + Len(word)
  BY <1>1 DEF Writes, ClientTypeOK
<1>7. up' \in [Clients -> Seq(Pieces)]
  BY <1>2 DEF Writes, ClientTypeOK
<1>8. \A d \in Clients \ {c} : sent'[d] = sent[d] /\ up'[d] = up[d]
  BY DEF Writes, ClientTypeOK
<1>9. \A d \in Clients : up[d] # << >> => up'[d] # << >>
  BY <1>3, <1>4, <1>8
<1>. QED
  BY <1>5, <1>6, <1>7, <1>8, <1>9

(* The clients keep the types (myclnt.cpp:36-49).                          *)
LEMMA ClientsType == 
  ASSUME TypeOK, ClientsStep PROVE TypeOK'
<1>1. PICK c \in Clients : ClientStep(c) /\ UNCHANGED <<dispatcherVars, stream, parent>>
  BY DEF ClientsStep
<1>2. ClientTypeOK'
  <2>1. CASE ClientRead(c)
    BY <2>1 DEF ClientRead, TypeOK, ClientTypeOK
  <2>2. CASE ClientSend(c) \/ ClientQuit(c)
    <3>1. sent' \in [Clients -> Nat] /\ up' \in [Clients -> Seq(Pieces)]
      BY <2>2, WordWritten, WritesEffect DEF TypeOK
    <3>. QED
      BY <2>2, <3>1 DEF ClientSend, ClientQuit, TypeOK, ClientTypeOK
  <2>4. CASE ClientClose(c)
    BY <2>4 DEF ClientClose, TypeOK, ClientTypeOK
  <2>5. CASE RstArrives(c)
    BY <2>5 DEF RstArrives, TypeOK, ClientTypeOK
  <2>. QED
    BY <1>1, <2>1, <2>2, <2>4, <2>5 DEF ClientStep
<1>. QED
  BY <1>1, <1>2 DEF TypeOK, dispatcherVars, Sockets, Messages
  
(* The writes of the parent keep the types (mylsnr.cpp:59-118).            *)
LEMMA ParentType ==
  ASSUME TypeOK, ParentStep PROVE TypeOK'
<1>1. CASE ParentLabel
  BY <1>1 DEF ParentLabel, ParentWrites, TypeOK, ClientTypeOK, clientVars, dispatcherVars, Messages
<1>2. CASE ParentText
  BY <1>2 DEF ParentText, ParentWrites, TypeOK, ClientTypeOK, clientVars, dispatcherVars, Messages
<1>3. ASSUME NEW c \in Clients, ParentPass(c) PROVE TypeOK'
  <2>1. ClientTypeOK'
    <3>1. PICK early \in {<< >>, <<"TICKET">>} : down' = [down EXCEPT ![c] = early]
      BY <1>3 DEF ParentPass, Connect
    <3>2. << >> \in Seq(Replies) /\ <<"TICKET">> \in Seq(Replies)
      BY DEF Replies
    <3>. QED
      BY <1>3, <3>1, <3>2 DEF ParentPass, Connect, TypeOK, ClientTypeOK
  <2>. QED
    BY <1>3, <2>1 DEF ParentPass, ParentWrites, TypeOK, dispatcherVars, Messages
<1>4. CASE ParentBye
  BY <1>4 DEF ParentBye, ParentWrites, TypeOK, ClientTypeOK, clientVars, dispatcherVars, Messages
<1>5. CASE ParentClose
  BY <1>5 DEF ParentClose, TypeOK, ClientTypeOK, clientVars, dispatcherVars
<1>. QED
  BY <1>1, <1>2, <1>3, <1>4, <1>5 DEF ParentStep

(* Every step of the dispatcher keeps the types. A client being handled is *)
(* listed, hence has a status to reply with: this is what Bookkeeping is   *)
(* needed for.                                                             *)
LEMMA DispatcherType ==
  ASSUME TypeOK, Bookkeeping, DispatcherStep PROVE TypeOK'
<1>1. CASE pollSockets
  <2>1. ServerClose(Dropped) /\ Dropped \in SUBSET Clients
    BY <1>1 DEF pollSockets, Dropped
  <2>2. ClientTypeOK'
    BY <1>1, <2>1, CloseType DEF pollSockets, TypeOK, ClientTypeOK
  <2>3. revents' \in [Sockets -> SUBSET Events]
    BY <1>1 DEF pollSockets, Ready
  <2>. QED
    BY <1>1, <2>2, <2>3 DEF pollSockets, TypeOK
<1>2. CASE PollIdle
  <2>1. ServerClose(Dropped) /\ Dropped \in SUBSET Clients
    BY <1>2 DEF PollIdle, Dropped
  <2>2. ClientTypeOK'
    BY <1>2, <2>1, CloseType DEF PollIdle, TypeOK, ClientTypeOK
  <2>. QED
    BY <1>2, <2>2 DEF PollIdle, TypeOK
<1>3. CASE UnixHangup
  BY <1>3, StopType DEF UnixHangup
<1>4. CASE UnixConfig
  BY <1>4 DEF UnixConfig, TypeOK, ClientTypeOK, clientVars
<1>5. CASE RecvConfig
  <2>1. PICK n \in 1 .. Len(stream) :
          \/ /\ sslGlobalCtx' = TRUE
             /\ pc' = "run"
             /\ ServerClose({stream[n]} \intersect Clients)
             /\ stream' = SubSeq(stream, n + 1, Len(stream))
             /\ Handled(Unix)
             /\ UNCHANGED <<cpc, sent, down, got, socketsList, reSocketsList,
                            pollOut, clientStatus, parent>>
          \/ Stop("exited")
    BY <1>5 DEF RecvConfig, createContext
  <2>2. CASE Stop("exited")
    BY <2>2, StopType
  <2>3. CASE ~Stop("exited")
    <3>1. ClientTypeOK'
      BY <2>1, <2>3, CloseType DEF TypeOK, ClientTypeOK
    <3>2. stream' \in Seq(Messages)
      <4>1. stream' = SubSeq(stream, n + 1, Len(stream))
        BY <2>1, <2>3
      <4>. QED
        BY <4>1, SubSeqProperties DEF TypeOK
    <3>. QED
      BY <2>1, <2>3, <3>1, <3>2 DEF TypeOK, Handled, Sockets
  <2>. QED
    BY <2>2, <2>3
<1>6. CASE UnixOther
  BY <1>6, StopType DEF UnixOther, Handled, TypeOK, ClientTypeOK, clientVars, Sockets
<1>7. ASSUME NEW c \in Clients, UnixClient(c) PROVE TypeOK'
  <2>1. CASE Stop("crashed")
    BY <2>1, StopType
  <2>2. CASE Admit(c)
    BY <1>7, <2>2 DEF Admit, UnixClient, UnixMessage, Handled, putSocket, TypeOK, ClientTypeOK,
                      clientVars, Sockets
  <2>3. CASE Refuse(c)
    <3>1. up' \in [Clients -> Seq(Pieces)] /\ srv' \in [Clients -> {"none", "open", "closed"}]
          /\ peer' \in [Clients -> {"none", "open", "fin", "rstfly", "rst"}]
      BY <2>3, CloseType DEF Refuse, TypeOK
    <3>2. down' \in [Clients -> Seq(Replies)]
      BY <2>3 DEF Refuse, TypeOK, ClientTypeOK, Replies
    <3>. QED
      BY <1>7, <2>3, <3>1, <3>2 DEF Refuse, UnixClient, UnixMessage, Handled, TypeOK, ClientTypeOK, Sockets
  <2>. QED
    BY <1>7, <2>1, <2>2, <2>3 DEF UnixClient
<1>8. ASSUME NEW c \in Clients, DropHup(c) PROVE TypeOK'
  BY <1>8 DEF DropHup, Remove, Handled, delSocket, TypeOK, ClientTypeOK, Sockets
<1>9. ASSUME NEW c \in Clients, ReadData(c) PROVE TypeOK'
  <2>1. up' \in [Clients -> Seq(Pieces)]
    BY <1>9 DEF ReadData, TypeOK, ClientTypeOK
  <2>2. PICK bye \in BOOLEAN : Reply(c, IF bye THEN "BYE" ELSE clientStatus[c])
    BY <1>9 DEF ReadData, SaysExit
  <2>3. clientStatus[c] \in {"HELLO", "ECHO", "BYE"}
    BY <1>9 DEF ReadData, Readable, ClientReported, Bookkeeping, TypeOK
  <2>. QED
    BY <2>1, <2>2, <2>3, ReplyType
<1>10. ASSUME NEW c \in Clients, ReadEof(c) PROVE TypeOK'
  <2>1. Remove(c) \/ Keep(c)
    BY <1>10 DEF ReadEof
  <2>2. clientStatus' \in [Clients -> {"NONE", "HELLO", "ECHO", "BYE"}]
    BY <1>10 DEF ReadEof, TypeOK
  <2>3. peer' \in [Clients -> {"none", "open", "fin", "rstfly", "rst"}] /\ UNCHANGED <<up, down>>
    BY <1>10 DEF ReadEof, TypeOK, ClientTypeOK
  <2>. QED
    BY <2>1, <2>2, <2>3 DEF Remove, Keep, Handled, delSocket, TypeOK, ClientTypeOK, Sockets
<1>11. ASSUME NEW c \in Clients, ReadError(c) PROVE TypeOK'
  BY <1>11 DEF ReadError, Remove, Handled, delSocket, TypeOK, ClientTypeOK, Sockets
<1>12. ASSUME NEW c \in Clients, WriteOnly(c) PROVE TypeOK'
  <2>1. clientStatus[c] \in {"HELLO", "ECHO", "BYE"}
    BY <1>12 DEF WriteOnly, ClientReported, Bookkeeping, TypeOK
  <2>. QED
    BY <1>12, <2>1, ReplyType DEF WriteOnly, TypeOK, ClientTypeOK
<1>. QED
  BY <1>1, <1>2, <1>3, <1>4, <1>5, <1>6, <1>7, <1>8, <1>9, <1>10, <1>11, <1>12 DEF DispatcherStep

(* A step of the parent or of a client leaves the process's own state      *)
(* alone, and writes into its stream only while it lives.                  *)
LEMMA OthersFrame ==
  ASSUME ParentStep \/ ClientsStep
  PROVE  /\ UNCHANGED dispatcherVars
         /\ stream' = stream \/ (Alive /\ \E m \in Messages : stream' = Append(stream, m))
<1>1. CASE ParentStep
  BY <1>1 DEF ParentStep, ParentLabel, ParentText, ParentPass, ParentBye, ParentClose, ParentWrites, Messages
<1>2. CASE ClientsStep
  BY <1>2 DEF ClientsStep
<1>. QED
  BY <1>1, <1>2

(* The lists, the reported events and the context stay in step             *)
(* (mydisp.cpp:234-270).                                                   *)
LEMMA BookkeepingStep ==
  ASSUME TypeOK, Bookkeeping, StreamShape, [Next]_vars PROVE Bookkeeping'
<1>1. CASE UNCHANGED vars
  BY <1>1 DEF vars, dispatcherVars, Bookkeeping, Alive
<1>2. CASE ParentStep \/ ClientsStep
  BY <1>2, OthersFrame DEF Bookkeeping, Alive, dispatcherVars
<1>3. ASSUME NEW how \in {"exited", "crashed"}, Stop(how) PROVE Bookkeeping'
  BY <1>3 DEF Stop, Bookkeeping, Alive, NoEvents, Sockets
<1>4. CASE pollSockets
  BY <1>4 DEF pollSockets, RoundOver, Bookkeeping, Alive, Sockets
<1>5. CASE PollIdle
  BY <1>5 DEF PollIdle, RoundOver, Bookkeeping, Alive, NoEvents, Sockets
<1>6. CASE UnixHangup
  BY <1>6, <1>3 DEF UnixHangup
<1>7. CASE UnixConfig
  BY <1>7 DEF UnixConfig, UnixMessage, UnixReported, Bookkeeping, Alive
<1>8. CASE RecvConfig
  <2>1. CASE Stop("exited")
    BY <2>1, <1>3
  <2>2. CASE ~Stop("exited")
    BY <1>8, <2>2, DispatcherAssumption DEF RecvConfig, createContext, Handled, Bookkeeping, Alive, TypeOK, Sockets
  <2>. QED
    BY <2>1, <2>2
<1>9. CASE UnixOther
  BY <1>9, <1>3, DispatcherAssumption DEF UnixOther, UnixMessage, UnixReported, Handled, Bookkeeping, Alive,
     TypeOK, Sockets
<1>10. ASSUME NEW c \in Clients, UnixClient(c) PROVE Bookkeeping'
  <2>1. CASE Stop("crashed")
    BY <2>1, <1>3
  <2>2. CASE sslGlobalCtx /\ Admit(c)
    BY <1>10, <2>2, DispatcherAssumption DEF Admit, UnixClient, UnixMessage, UnixReported, Handled, putSocket,
       Bookkeeping, Alive, TypeOK, Sockets
  <2>3. CASE Refuse(c)
    BY <1>10, <2>3, DispatcherAssumption DEF Refuse, UnixClient, UnixMessage, UnixReported, Handled,
       Bookkeeping, Alive, TypeOK, Sockets
  <2>. QED
    BY <1>10, <2>1, <2>2, <2>3 DEF UnixClient
<1>11. ASSUME NEW c \in Clients, ClientReported(c), Remove(c) \/ Keep(c),
              clientStatus'[c] # "NONE" \/ clientStatus' = clientStatus,
              \A d \in Clients \ {c} : clientStatus'[d] = clientStatus[d]
       PROVE  Bookkeeping'
  BY <1>11, DispatcherAssumption DEF ClientReported, Remove, Keep, Handled, delSocket, Bookkeeping, Alive, TypeOK, Sockets
<1>12. ASSUME NEW c \in Clients, NEW status \in {"HELLO", "ECHO", "BYE"}, ClientReported(c), Reply(c, status)
       PROVE  Bookkeeping'
  BY <1>11, <1>12 DEF Reply, TypeOK
<1>13. ASSUME NEW c \in Clients, ClientReported(c) PROVE clientStatus[c] \in {"HELLO", "ECHO", "BYE"}
  BY <1>13 DEF ClientReported, Bookkeeping, TypeOK
<1>14. ASSUME NEW c \in Clients, DropHup(c) PROVE Bookkeeping'
  BY <1>11, <1>14 DEF DropHup
<1>15. ASSUME NEW c \in Clients, ReadData(c) PROVE Bookkeeping'
  <2>1. PICK bye \in BOOLEAN : Reply(c, IF bye THEN "BYE" ELSE clientStatus[c])
    BY <1>15 DEF ReadData, SaysExit
  <2>2. ClientReported(c)
    BY <1>15 DEF ReadData, Readable
  <2>. QED
    BY <2>1, <2>2, <1>12, <1>13
<1>16. ASSUME NEW c \in Clients, ReadEof(c) PROVE Bookkeeping'
  <2>1. ClientReported(c)
    BY <1>16 DEF ReadEof, Readable
  <2>2. Remove(c) \/ Keep(c)
    BY <1>16 DEF ReadEof
  <2>3. clientStatus[c] \in {"HELLO", "ECHO", "BYE"}
    BY <2>1, <1>13
  <2>4. clientStatus' = clientStatus \/ clientStatus' = [clientStatus EXCEPT ![c] = IF @ = "HELLO" THEN "ECHO" ELSE @]
    BY <1>16 DEF ReadEof, TypeOK
  <2>. QED
    BY <2>1, <2>2, <2>3, <2>4, <1>11 DEF TypeOK
<1>17. ASSUME NEW c \in Clients, ReadError(c) PROVE Bookkeeping'
  BY <1>11, <1>17 DEF ReadError, Readable
<1>18. ASSUME NEW c \in Clients, WriteOnly(c) PROVE Bookkeeping'
  BY <1>12, <1>13, <1>18 DEF WriteOnly
<1>. QED
  BY <1>1, <1>2, <1>4, <1>5, <1>6, <1>7, <1>8, <1>9, <1>10, <1>14, <1>15, <1>16, <1>17, <1>18
  DEF Next, DispatcherStep, Terminated

(* Only the unix handlers touch what StreamShape speaks of.                *)
LEMMA ShapeFrame ==
  ASSUME TypeOK, StreamShape, UNCHANGED <<stream, sslGlobalCtx, parent>>, pc' = pc
  PROVE  StreamShape'
BY DEF StreamShape, Alive, Later

(* A write of the parent, in the order the listener makes them, keeps the  *)
(* shape of the stream.                                                    *)
LEMMA ShapeAppend ==
  ASSUME TypeOK, StreamShape, Alive, NEW m \in Messages, stream' = Append(stream, m),
         UNCHANGED <<pc, sslGlobalCtx>>,
         \/ parent = "label" /\ m = "CONFIG" /\ parent' = "text"
         \/ parent = "text" /\ m = "OPTIONS" /\ parent' = "serve"
         \/ parent = "serve" /\ m \in Later /\ parent' \in {"serve", "bye"}
  PROVE  StreamShape'
<1>1. Len(stream') = Len(stream) + 1 /\ stream'[Len(stream) + 1] = m
      /\ \A i \in 1 .. Len(stream) : stream'[i] = stream[i]
  BY DEF TypeOK
<1>2. Len(stream) \in Nat /\ (stream = << >> <=> Len(stream) = 0)
  BY DEF TypeOK
<1>3. stream' # << >>
  BY <1>1, <1>2
<1>4. CASE parent = "label"
  BY <1>1, <1>2, <1>3, <1>4, DispatcherAssumption DEF StreamShape, Alive, Later
<1>5. CASE parent = "text"
  BY <1>1, <1>2, <1>3, <1>5, DispatcherAssumption DEF StreamShape, Alive, Later
<1>6. CASE parent = "serve"
  BY <1>1, <1>2, <1>3, <1>6, DispatcherAssumption DEF StreamShape, Alive, Later
<1>. QED
  BY <1>4, <1>5, <1>6

(* The shape of the stream is kept: recv() takes the label with the        *)
(* options or ends the process, and later reads take one message from the  *)
(* head (mydisp.cpp:109-145).                                              *)
LEMMA ShapeStep ==
  ASSUME TypeOK, Bookkeeping, StreamShape, [Next]_vars PROVE StreamShape'
<1>0. stream \in Seq(Messages) /\ Len(stream) \in Nat
  BY DEF TypeOK
<1>1. CASE UNCHANGED vars
  BY <1>1, ShapeFrame DEF vars, dispatcherVars
<1>2. CASE ClientsStep
  BY <1>2, ShapeFrame DEF ClientsStep, dispatcherVars
<1>3. CASE ParentLabel
  BY <1>3, ShapeAppend DEF ParentLabel, ParentWrites, dispatcherVars, Messages
<1>4. CASE ParentText
  BY <1>4, ShapeAppend DEF ParentText, ParentWrites, dispatcherVars, Messages
<1>5. ASSUME NEW c \in Clients, ParentPass(c) PROVE StreamShape'
  BY <1>5, ShapeAppend DEF ParentPass, ParentWrites, dispatcherVars, Messages, Later
<1>6. CASE ParentBye
  BY <1>6, ShapeAppend DEF ParentBye, ParentWrites, dispatcherVars, Messages, Later
<1>7. CASE ParentClose
  BY <1>7 DEF ParentClose, dispatcherVars, StreamShape, Alive, Later
<1>8. ASSUME Stop("exited") PROVE StreamShape'
  BY <1>8 DEF Stop, StreamShape, Alive
<1>9. ASSUME UnixMessage, sslGlobalCtx,
             UNCHANGED <<pc, sslGlobalCtx, parent>>, stream' = Tail(stream)
      PROVE  StreamShape'
  <2>1. Len(stream') = Len(stream) - 1 /\ \A i \in 1 .. Len(stream') : stream'[i] = stream[i + 1]
    BY <1>0, <1>9 DEF UnixMessage
  <2>. QED
    BY <1>0, <1>9, <2>1 DEF UnixMessage, UnixReported, StreamShape, Alive, Later
<1>10. CASE pollSockets
  BY <1>10, ShapeFrame DEF pollSockets
<1>11. CASE PollIdle
  BY <1>11, ShapeFrame DEF PollIdle
<1>12. CASE UnixHangup
  BY <1>12, <1>8 DEF UnixHangup
<1>13. CASE UnixConfig
  <2>1. stream # << >> /\ stream[1] = "CONFIG" /\ pc = "run" /\ pc' = "recv" /\ Len(stream) >= 1
        /\ UNCHANGED <<stream, sslGlobalCtx, parent>>
    BY <1>0, <1>13 DEF UnixConfig, UnixMessage, UnixReported
  <2>2. ~sslGlobalCtx
    BY <1>0, <2>1, DispatcherAssumption DEF StreamShape, Later
  <2>. QED
    BY <2>1, <2>2 DEF StreamShape, Alive, Later
<1>14. CASE RecvConfig
  <2>1. CASE Stop("exited")
    BY <2>1, <1>8
  <2>2. CASE ~Stop("exited")
    <3>1. PICK n \in 1 .. Len(stream) :
            /\ \E i \in 1 .. n : stream[i] = "OPTIONS"
            /\ sslGlobalCtx' = TRUE /\ pc' = "run"
            /\ stream' = SubSeq(stream, n + 1, Len(stream))
            /\ UNCHANGED parent
      BY <1>14, <2>2 DEF RecvConfig, createContext, StreamShape
    <3>2. ~sslGlobalCtx /\ stream[1] = "CONFIG" /\ n >= 2 /\ Len(stream) >= 2
      BY <1>0, <1>14, <3>1 DEF RecvConfig, createContext, StreamShape
    <3>3. \A i \in 1 .. Len(stream') : stream'[i] = stream[n + i] /\ n + i > 2 /\ n + i \in 1 .. Len(stream)
      BY <1>0, <3>1, <3>2
    <3>4. \A i \in 1 .. Len(stream') : stream'[i] \in Later
      BY <3>3 DEF StreamShape
    <3>5. parent \notin {"label", "text"}
      BY <1>0, <1>14, <3>2 DEF RecvConfig, createContext, StreamShape, Alive
    <3>. QED
      BY <3>1, <3>4, <3>5 DEF StreamShape, Alive, Later
  <2>. QED
    BY <2>1, <2>2
<1>15. CASE UnixOther
  BY <1>15, <1>8, ShapeFrame DEF UnixOther
<1>16. ASSUME NEW c \in Clients, UnixClient(c) PROVE StreamShape'
  <2>1. sslGlobalCtx
    BY <1>0, <1>16, DispatcherAssumption DEF UnixClient, UnixMessage, StreamShape
  <2>. QED
    BY <1>9, <1>16, <2>1 DEF UnixClient, Admit, Refuse
<1>17. ASSUME NEW c \in Clients, Remove(c) \/ Keep(c) PROVE StreamShape'
  BY <1>17, ShapeFrame DEF Remove, Keep
<1>18. ASSUME NEW c \in Clients, DropHup(c) \/ ReadData(c) \/ ReadEof(c) \/ ReadError(c) \/ WriteOnly(c)
       PROVE  StreamShape'
  BY <1>17, <1>18 DEF DropHup, ReadData, ReadEof, ReadError, WriteOnly, Reply
<1>. QED
  BY <1>1, <1>2, <1>3, <1>4, <1>5, <1>6, <1>7, <1>10, <1>11, <1>12, <1>13, <1>14, <1>15, <1>16, <1>18
  DEF Next, DispatcherStep, ParentStep, Terminated

(* The list never grows beyond its size.                                   *)
LEMMA BoundedStep ==
  ASSUME TypeOK, Bounded, [Next]_vars PROVE Bounded'
<1>1. CASE socketsList' = socketsList
  BY <1>1 DEF Bounded
<1>2. CASE socketsList' = {}
  BY <1>2, FS_EmptySet, DispatcherAssumption DEF Bounded
<1>3. ASSUME NEW c \in Clients, Admit(c) PROVE Bounded'
  <2>1. socketsList' = socketsList \union {c} /\ Cardinality(socketsList) # MaxSockets
    BY <1>3 DEF Admit, putSocket, IsFull
  <2>2. IsFiniteSet(socketsList) /\ Cardinality(socketsList) \in Nat
    BY FS_CardinalityType DEF Bounded
  <2>3. /\ IsFiniteSet(socketsList \union {c})
        /\ Cardinality(socketsList \union {c})
             = IF c \in socketsList THEN Cardinality(socketsList) ELSE Cardinality(socketsList) + 1
    BY <2>2, FS_AddElement
  <2>. QED
    BY <2>1, <2>2, <2>3, DispatcherAssumption DEF Bounded
<1>4. ASSUME NEW c \in Clients, Remove(c) PROVE Bounded'
  <2>1. socketsList' \in SUBSET socketsList
    BY <1>4 DEF Remove, delSocket
  <2>. QED
    BY <2>1, FS_Subset, FS_CardinalityType, DispatcherAssumption DEF Bounded
<1>5. socketsList' = socketsList \/ socketsList' = {} \/ \E c \in Clients : Admit(c) \/ Remove(c)
  <2>1. CASE ParentStep \/ ClientsStep
    BY <2>1, OthersFrame DEF dispatcherVars
  <2>2. CASE UNCHANGED vars
    BY <2>2 DEF vars, dispatcherVars
  <2>3. CASE pollSockets \/ PollIdle \/ UnixHangup \/ UnixConfig \/ RecvConfig \/ UnixOther
    BY <2>3 DEF pollSockets, PollIdle, UnixHangup, UnixConfig, RecvConfig, createContext, UnixOther, Stop
  <2>4. ASSUME NEW c \in Clients, UnixClient(c) PROVE socketsList' = socketsList \/ socketsList' = {} \/ Admit(c)
    BY <2>4 DEF UnixClient, Refuse, Stop
  <2>5. ASSUME NEW c \in Clients, DropHup(c) \/ ReadData(c) \/ ReadEof(c) \/ ReadError(c) \/ WriteOnly(c)
        PROVE  socketsList' = socketsList \/ Remove(c)
    BY <2>5 DEF DropHup, ReadData, ReadEof, ReadError, WriteOnly, Reply, Keep
  <2>. QED
    BY <2>1, <2>2, <2>3, <2>4, <2>5 DEF Next, DispatcherStep, Terminated
<1>. QED
  BY <1>1, <1>2, <1>3, <1>4, <1>5

(* The descriptors.  What a step does to the stream decides where a client *)
(* in flight is afterwards.                                                *)
LEMMA InFlightAppend ==
  ASSUME TypeOK, NEW m \in Messages, stream' = Append(stream, m), NEW c \in Clients
  PROVE  InFlight(c)' = IF m = c THEN InFlight(c) \union {Len(stream) + 1} ELSE InFlight(c)
<1>1. Len(stream) \in Nat /\ Len(stream') = Len(stream) + 1 /\ stream'[Len(stream) + 1] = m
      /\ \A i \in 1 .. Len(stream) : stream'[i] = stream[i]
  BY DEF TypeOK
<1>2. InFlight(c)' = {i \in 1 .. Len(stream) + 1 : stream'[i] = c}
  BY <1>1 DEF InFlight
<1>. QED
  BY <1>1, <1>2 DEF InFlight

(* What is left after the first n messages, none of them a client but the  *)
(* last at most.                                                           *)
LEMMA InFlightRest ==
  ASSUME TypeOK, NEW n \in 1 .. Len(stream), NEW c \in Clients,
         \A i \in 1 .. n - 1 : stream[i] \notin Clients,
         \A i, j \in InFlight(c) : i = j,
         Len(stream') = Len(stream) - n,
         \A i \in 1 .. Len(stream) - n : stream'[i] = stream[n + i]
  PROVE  /\ \A i, j \in InFlight(c)' : i = j
         /\ InFlight(c)' # {} <=> (InFlight(c) # {} /\ stream[n] # c)
<1>1. Len(stream) \in Nat
  BY DEF TypeOK
<1>2. \A i \in InFlight(c)' : n + i \in InFlight(c) /\ i \in Nat
  BY <1>1 DEF InFlight
<1>3. \A i \in InFlight(c) : i = n \/ (i > n /\ i - n \in InFlight(c)')
  BY <1>1 DEF InFlight
<1>4. stream[n] = c => n \in InFlight(c)
  BY DEF InFlight
<1>5. \A i \in InFlight(c)' : i # 0 /\ n + i # n
  BY <1>1 DEF InFlight
<1>6. \A i, j \in InFlight(c)' : i = j
  <2>. SUFFICES ASSUME NEW i \in InFlight(c)', NEW j \in InFlight(c)' PROVE i = j
    OBVIOUS
  <2>1. n + i = n + j
    BY <1>2
  <2>. QED
    BY <1>2, <2>1
<1>7. InFlight(c)' # {} => InFlight(c) # {} /\ stream[n] # c
  BY <1>2, <1>4, <1>5
<1>8. InFlight(c) # {} /\ stream[n] # c => InFlight(c)' # {}
  BY <1>3 DEF InFlight
<1>. QED
  BY <1>6, <1>7, <1>8

(* A step that leaves the stream alone leaves alone who is in flight.      *)
LEMMA InFlightSame ==
  ASSUME stream' = stream, NEW c PROVE InFlight(c)' = InFlight(c)
BY DEF InFlight

(* Nobody is in flight in an empty stream.                                 *)
LEMMA InFlightNone ==
  ASSUME stream' = << >>, NEW c PROVE InFlight(c)' = {}
BY DEF InFlight

(* The handlers of a client: the socket stays reported, so its descriptor  *)
(* stays held whether or not the list lets go of it.                       *)
LEMMA OwnershipHandled ==
  ASSUME TypeOK, Bookkeeping, Ownership, NEW c \in Clients, ClientReported(c), Remove(c) \/ Keep(c),
         \/ peer' = peer
         \/ peer[c] \in Gone /\ \E p \in {"rstfly", "rst"} : peer' = [peer EXCEPT ![c] = p]
  PROVE  Ownership'
<1>1. /\ UNCHANGED <<cpc, srv, reSocketsList, pollOut, stream>>
      /\ revents' = [revents EXCEPT ![c] = {}]
      /\ socketsList' = socketsList \/ socketsList' = socketsList \ {c}
  BY DEF Remove, Keep, Handled, delSocket
<1>2. c \in socketsList \intersect reSocketsList
  BY DEF ClientReported, Bookkeeping
<1>3. \A d \in Clients : InFlight(d)' = InFlight(d)
  BY <1>1, InFlightSame
<1>4. DescriptorsHeld'
  BY <1>1, <1>2, <1>3 DEF Ownership, DescriptorsHeld
<1>. QED
  BY <1>1, <1>2, <1>4 DEF Ownership, Gone, TypeOK, ClientTypeOK, Sockets

(* A client that reads, writes or goes away moves no descriptor of the     *)
(* server; only its own end is closed (myclnt.cpp:36-54).                  *)
LEMMA OwnershipClients ==
  ASSUME TypeOK, Ownership, ClientsStep PROVE Ownership'
<1>1. PICK c \in Clients : ClientStep(c) /\ UNCHANGED <<dispatcherVars, stream, parent>>
  BY DEF ClientsStep
<1>2. DescriptorsHeld'
  <2>1. srv' = srv
    BY <1>1 DEF ClientStep, ClientRead, ClientSend, ClientQuit, ClientClose, RstArrives
  <2>. QED
    BY <1>1, <2>1, InFlightSame DEF Ownership, DescriptorsHeld, dispatcherVars
<1>3. CASE ClientRead(c) \/ ClientSend(c) \/ ClientQuit(c)
  BY <1>1, <1>2, <1>3 DEF ClientRead, ClientSend, ClientQuit, Ownership, Gone, TypeOK, ClientTypeOK, dispatcherVars
<1>4. CASE ClientClose(c)
  BY <1>1, <1>2, <1>4 DEF ClientClose, Ownership, Gone, TypeOK, ClientTypeOK, dispatcherVars
<1>5. CASE RstArrives(c)
  BY <1>1, <1>2, <1>5 DEF RstArrives, Ownership, Gone, TypeOK, ClientTypeOK, dispatcherVars
<1>. QED
  BY <1>1, <1>3, <1>4, <1>5 DEF ClientStep

(* A client the parent passes is open and in flight, nowhere else, since   *)
(* it was unknown before (mylsnr.cpp:59-80).                               *)
LEMMA OwnershipParent ==
  ASSUME TypeOK, Bookkeeping, Ownership, ParentStep PROVE Ownership'
<1>1. ASSUME NEW m \in Messages, m \notin Clients, stream' = Append(stream, m),
             UNCHANGED <<clientVars, dispatcherVars>>
      PROVE  Ownership'
  <2>1. \A d \in Clients : InFlight(d)' = InFlight(d)
    BY <1>1, InFlightAppend
  <2>2. DescriptorsHeld'
    BY <1>1, <2>1 DEF Ownership, DescriptorsHeld, clientVars, dispatcherVars
  <2>. QED
    BY <1>1, <2>2 DEF Ownership, clientVars, dispatcherVars
<1>2. CASE ParentLabel
  BY <1>1, <1>2, DispatcherAssumption DEF ParentLabel, ParentWrites, Messages
<1>3. CASE ParentText
  BY <1>1, <1>3, DispatcherAssumption DEF ParentText, ParentWrites, Messages
<1>4. CASE ParentBye
  BY <1>1, <1>4, DispatcherAssumption DEF ParentBye, ParentWrites, Messages
<1>5. CASE ParentClose
  <2>1. DescriptorsHeld'
    BY <1>5, InFlightSame DEF ParentClose, Ownership, DescriptorsHeld, clientVars, dispatcherVars
  <2>. QED
    BY <1>5, <2>1 DEF ParentClose, Ownership, clientVars, dispatcherVars
<1>6. ASSUME NEW c \in Clients, ParentPass(c) PROVE Ownership'
  <2>1. /\ stream' = Append(stream, c) /\ UNCHANGED dispatcherVars
        /\ cpc[c] = "idle" /\ cpc' = [cpc EXCEPT ![c] = "read"]
        /\ srv' = [srv EXCEPT ![c] = "open"] /\ peer' = [peer EXCEPT ![c] = "open"]
    BY <1>6 DEF ParentPass, ParentWrites, Connect
  <2>2. srv[c] = "none" /\ InFlight(c) = {} /\ c \notin socketsList \union reSocketsList
    BY <2>1 DEF Ownership, DescriptorsHeld
  <2>3. \A d \in Clients : InFlight(d)' = IF c = d THEN InFlight(d) \union {Len(stream) + 1} ELSE InFlight(d)
    BY <2>1, InFlightAppend DEF Messages
  <2>4. DescriptorsHeld'
    <3>1. ASSUME NEW d \in Clients, d # c
          PROVE  InFlight(d)' = InFlight(d) /\ srv'[d] = srv[d]
      BY <2>1, <2>3, <3>1 DEF TypeOK, ClientTypeOK
    <3>2. InFlight(c)' = {Len(stream) + 1} /\ srv'[c] = "open"
      BY <2>1, <2>2, <2>3 DEF TypeOK, ClientTypeOK
    <3>3. socketsList' = socketsList /\ reSocketsList' = reSocketsList
      BY <2>1 DEF dispatcherVars
    <3>. QED
      BY <2>2, <3>1, <3>2, <3>3 DEF Ownership, DescriptorsHeld
  <2>5. revents[c] = {}
    BY <2>2 DEF Bookkeeping
  <2>. QED
    BY <2>1, <2>4, <2>5 DEF Ownership, dispatcherVars, TypeOK, ClientTypeOK, Gone
<1>. QED
  BY <1>2, <1>3, <1>4, <1>5, <1>6 DEF ParentStep

(* A process that ends holds no descriptor and leaves none in flight.      *)
LEMMA OwnershipStop ==
  ASSUME TypeOK, Bookkeeping, Ownership, NEW how, Stop(how) PROVE Ownership'
<1>1. \A c \in Clients : srv'[c] = IF srv[c] = "open" THEN "closed" ELSE srv[c]
  BY DEF Stop, ServerClose, Closed
<1>2. \A c \in Clients : peer'[c] = IF srv[c] = "open" THEN "none" ELSE peer[c]
  BY DEF Stop, ServerClose, Forgotten
<1>3. DescriptorsHeld'
  BY <1>1, InFlightNone DEF Stop, DescriptorsHeld
<1>4. \A c \in Clients : revents'[c] = {}
  BY DEF Stop, NoEvents, Sockets
<1>. QED
  BY <1>1, <1>2, <1>3, <1>4 DEF Stop, Ownership, Gone, TypeOK, ClientTypeOK

(* Closing connections nobody reports, lists or has in flight afterwards.  *)
LEMMA OwnershipClose ==
  ASSUME TypeOK, Ownership, NEW T \in SUBSET Clients, ServerClose(T), UNCHANGED cpc,
         \A c \in T : srv[c] = "open",
         DescriptorsHeld',
         \A c \in Clients : "HUP" \in revents'[c] => c \notin T /\ peer[c] = "rst"
  PROVE  Ownership'
BY DEF Ownership, ServerClose, Closed, Forgotten, Gone, TypeOK, ClientTypeOK

(* Every step of the dispatcher hands a descriptor on or closes it: the    *)
(* stream to the list, the list to the reported sockets, those to nobody   *)
(* (mydisp.cpp:116-129, 234-262).                                          *)
LEMMA OwnershipDispatcher ==
  ASSUME TypeOK, Bookkeeping, StreamShape, Ownership, DispatcherStep PROVE Ownership'
<1>0. stream \in Seq(Messages) /\ Len(stream) \in Nat
  BY DEF TypeOK
<1>1. ASSUME RoundOver, ServerClose(Dropped), UNCHANGED <<cpc, socketsList, stream>>,
             reSocketsList' \in SUBSET socketsList,
             \A c \in Clients : "HUP" \in revents'[c] => c \in socketsList /\ peer[c] = "rst"
      PROVE  Ownership'
  <2>1. \A c \in Dropped : c \in Clients /\ srv[c] = "open" /\ c \notin socketsList
    BY DEF Dropped, Ownership, DescriptorsHeld
  <2>2. \A c \in Clients : srv'[c] = IF c \in Dropped THEN "closed" ELSE srv[c]
    BY <1>1 DEF ServerClose, Closed
  <2>3. DescriptorsHeld'
    BY <1>1, <2>1, <2>2, InFlightSame DEF Ownership, DescriptorsHeld, Dropped
  <2>. QED
    BY <1>1, <2>1, <2>3, OwnershipClose
<1>2. CASE pollSockets
  BY <1>1, <1>2, DispatcherAssumption DEF pollSockets, Ready, Sockets
<1>3. CASE PollIdle
  BY <1>1, <1>3 DEF PollIdle, RoundOver, NoEvents, Sockets
<1>4. CASE UnixHangup
  BY <1>4, OwnershipStop DEF UnixHangup
<1>5. ASSUME UNCHANGED <<clientVars, socketsList, reSocketsList, stream>>,
             \A c \in Clients : revents'[c] = revents[c]
      PROVE  Ownership'
  <2>1. DescriptorsHeld'
    BY <1>5, InFlightSame DEF Ownership, DescriptorsHeld, clientVars
  <2>. QED
    BY <1>5, <2>1 DEF Ownership, clientVars
<1>6. CASE UnixConfig
  BY <1>5, <1>6 DEF UnixConfig
<1>7. Handled(Unix) => \A c \in Clients : revents'[c] = revents[c]
  BY DispatcherAssumption DEF Handled, TypeOK, Sockets
<1>8. CASE UnixOther
  BY <1>5, <1>7, <1>8, OwnershipStop DEF UnixOther
(* The first n messages leave the stream; a client among them ends up      *)
(* closed or listed.                                                       *)
<1>9. ASSUME NEW n \in 1 .. Len(stream), \A i \in 1 .. n - 1 : stream[i] \notin Clients,
             stream' = SubSeq(stream, n + 1, Len(stream))
      PROVE  \A c \in Clients : /\ \A i, j \in InFlight(c)' : i = j
                                /\ InFlight(c)' # {} <=> (InFlight(c) # {} /\ stream[n] # c)
  <2>1. Len(stream') = Len(stream) - n /\ \A i \in 1 .. Len(stream) - n : stream'[i] = stream[n + i]
    BY <1>0, <1>9
  <2>. QED
    BY <1>9, <2>1, InFlightRest DEF Ownership, DescriptorsHeld
<1>10. ASSUME NEW n \in 1 .. Len(stream), \A i \in 1 .. n - 1 : stream[i] \notin Clients,
              stream' = SubSeq(stream, n + 1, Len(stream)), Handled(Unix),
              NEW T \in SUBSET Clients, ServerClose(T), \A c \in Clients : c \in T <=> c = stream[n],
              UNCHANGED <<cpc, socketsList, reSocketsList>>
       PROVE  Ownership'
  <2>1. \A c \in T : n \in InFlight(c)
    BY <1>10 DEF InFlight
  <2>2. \A c \in T : srv[c] = "open" /\ c \notin socketsList \union reSocketsList
    BY <2>1 DEF Ownership, DescriptorsHeld
  <2>3. \A c \in Clients : srv'[c] = IF c \in T THEN "closed" ELSE srv[c]
    BY <1>10 DEF ServerClose, Closed
  <2>4. DescriptorsHeld'
    BY <1>9, <1>10, <2>2, <2>3 DEF Ownership, DescriptorsHeld
  <2>5. \A c \in Clients : "HUP" \in revents'[c] => c \in socketsList /\ peer[c] = "rst"
    BY <1>7, <1>10 DEF Ownership, Bookkeeping
  <2>. QED
    BY <1>10, <2>2, <2>4, <2>5, OwnershipClose
<1>11. CASE RecvConfig
  <2>1. CASE Stop("exited")
    BY <2>1, OwnershipStop
  <2>2. CASE ~Stop("exited")
    BY <1>10, <1>11, <2>2 DEF RecvConfig, createContext, Joined
  <2>. QED
    BY <2>1, <2>2
<1>12. ASSUME NEW c \in Clients, UnixClient(c) PROVE Ownership'
  <2>1. 1 \in 1 .. Len(stream) /\ stream[1] = c /\ 1 \in InFlight(c) /\ Tail(stream) = SubSeq(stream, 2, Len(stream))
    BY <1>0, <1>12 DEF UnixClient, UnixMessage, InFlight
  <2>2. CASE Refuse(c)
    <3>1. stream' = SubSeq(stream, 1 + 1, Len(stream)) /\ ServerClose({c})
          /\ Handled(Unix) /\ UNCHANGED <<cpc, socketsList, reSocketsList>>
      BY <2>1, <2>2 DEF Refuse
    <3>. QED
      BY <1>10, <2>1, <3>1
  <2>3. CASE Admit(c)
    <3>1. /\ stream' = SubSeq(stream, 1 + 1, Len(stream))
          /\ socketsList' = socketsList \union {c} /\ UNCHANGED <<clientVars, reSocketsList>>
      BY <2>1, <2>3 DEF Admit, putSocket
    <3>2. DescriptorsHeld'
      <4>1. stream[1] = c /\ InFlight(c) # {}
        BY <2>1
      <4>2. \A d \in Clients : /\ \A i, j \in InFlight(d)' : i = j
                               /\ InFlight(d)' # {} <=> (InFlight(d) # {} /\ d # c)
        BY <1>9, <2>1, <3>1, <4>1
      <4>3. srv' = srv /\ reSocketsList' = reSocketsList /\ socketsList' = socketsList \union {c}
        BY <3>1 DEF clientVars
      <4>. QED
        BY <4>1, <4>2, <4>3 DEF Ownership, DescriptorsHeld
    <3>. QED
      BY <1>7, <2>3, <3>1, <3>2 DEF Admit, Ownership, clientVars
  <2>4. CASE Stop("crashed")
    BY <2>4, OwnershipStop
  <2>. QED
    BY <1>12, <2>2, <2>3, <2>4 DEF UnixClient
<1>13. ASSUME NEW c \in Clients, NEW status, ClientReported(c), Reply(c, status) PROVE Ownership'
  BY <1>13, OwnershipHandled DEF Reply, ServerWrite, Gone
<1>14. ASSUME NEW c \in Clients, DropHup(c) PROVE Ownership'
  BY <1>14, OwnershipHandled DEF DropHup
<1>15. ASSUME NEW c \in Clients, ReadData(c) PROVE Ownership'
  BY <1>13, <1>15 DEF ReadData, Readable
<1>16. ASSUME NEW c \in Clients, ReadEof(c) PROVE Ownership'
  <2>1. ClientReported(c) /\ (Remove(c) \/ Keep(c))
    BY <1>16 DEF ReadEof, Readable
  <2>2. peer[c] \in Gone /\ (peer' = peer \/ \E p \in {"rstfly", "rst"} : peer' = [peer EXCEPT ![c] = p])
    BY <1>16 DEF ReadEof, Gone
  <2>. QED
    BY <2>1, <2>2, OwnershipHandled
<1>17. ASSUME NEW c \in Clients, ReadError(c) PROVE Ownership'
  BY <1>17, OwnershipHandled DEF ReadError, Readable
<1>18. ASSUME NEW c \in Clients, WriteOnly(c) PROVE Ownership'
  BY <1>13, <1>18 DEF WriteOnly
<1>. QED
  BY <1>2, <1>3, <1>4, <1>6, <1>8, <1>11, <1>12, <1>14, <1>15, <1>16, <1>17, <1>18 DEF DispatcherStep

(* Ownership is kept by every step.                                        *)
LEMMA OwnershipStep ==
  ASSUME TypeOK, Bookkeeping, StreamShape, Ownership, [Next]_vars PROVE Ownership'
<1>1. CASE UNCHANGED vars
  <2>1. DescriptorsHeld'
    BY <1>1, InFlightSame DEF vars, clientVars, dispatcherVars, Ownership, DescriptorsHeld
  <2>. QED
    BY <1>1, <2>1 DEF vars, clientVars, dispatcherVars, Ownership
<1>. QED
  BY <1>1, OwnershipClients, OwnershipParent, OwnershipDispatcher DEF Next, Terminated

(* A poll reports what is listed, the handler of the unix socket is the    *)
(* first of a round and takes its report away, and no client leaves before *)
(* (mydisp.cpp:237-260).                                                   *)
LEMMA TakesFirstStep ==
  ASSUME TypeOK, TakesFirst, [Next]_vars PROVE TakesFirst'
<1>1. CASE UNCHANGED <<revents, socketsList, reSocketsList>>
  BY <1>1 DEF TakesFirst
<1>2. CASE reSocketsList' \in SUBSET socketsList' \/ revents'[Unix] = {}
  BY <1>2 DEF TakesFirst
<1>3. Unix \in Sockets
  BY DEF Sockets
<1>4. ASSUME Handled(Unix) PROVE revents'[Unix] = {}
  BY <1>3, <1>4 DEF Handled, TypeOK
<1>5. ASSUME NEW how, Stop(how) PROVE revents'[Unix] = {}
  BY <1>3, <1>5 DEF Stop, NoEvents
<1>6. CASE pollSockets
  <2>. reSocketsList' \in SUBSET socketsList'
    BY <1>6 DEF pollSockets
  <2>. QED
    BY <1>2
<1>7. CASE PollIdle
  BY <1>2, <1>3, <1>7 DEF PollIdle, RoundOver, NoEvents
<1>8. CASE UnixHangup \/ UnixOther \/ RecvConfig \/ \E c \in Clients : UnixClient(c)
  BY <1>2, <1>4, <1>5, <1>8 DEF UnixHangup, UnixOther, RecvConfig, UnixClient, Admit, Refuse
<1>9. CASE UnixConfig
  BY <1>1, <1>9 DEF UnixConfig
<1>10. ASSUME NEW c \in Clients, DropHup(c) \/ ReadData(c) \/ ReadEof(c) \/ ReadError(c) \/ WriteOnly(c)
       PROVE  revents'[Unix] = {}
  <2>1. ClientReported(c) /\ Handled(c)
    BY <1>10 DEF DropHup, ReadData, ReadEof, ReadError, WriteOnly, Readable, Reply, Remove, Keep
  <2>. QED
    BY <1>3, <2>1 DEF ClientReported, Handled, TypeOK
<1>11. CASE ParentStep \/ ClientsStep \/ UNCHANGED vars
  BY <1>1, <1>11, OthersFrame DEF vars, dispatcherVars
<1>. QED
  BY <1>2, <1>6, <1>7, <1>8, <1>9, <1>10, <1>11 DEF Next, DispatcherStep, Terminated

(* Only the handler of the unix socket reads its stream, and it takes the  *)
(* report away (mydisp.cpp:103-145).                                       *)
LEMMA UnixTrueStep ==
  ASSUME TypeOK, UnixTrue, StreamShape, [Next]_vars PROVE UnixTrue'
<1>1. CASE UNCHANGED <<revents, stream, parent>>
  BY <1>1 DEF UnixTrue
<1>2. CASE revents'[Unix] = {}
  BY <1>2 DEF UnixTrue
<1>3. Unix \in Sockets
  BY DEF Sockets
<1>4. ASSUME Handled(Unix) PROVE revents'[Unix] = {}
  BY <1>3, <1>4 DEF Handled, TypeOK
<1>5. ASSUME NEW how, Stop(how) PROVE revents'[Unix] = {}
  BY <1>3, <1>5 DEF Stop, NoEvents
<1>6. CASE pollSockets
  <2>1. UNCHANGED <<stream, parent>> /\ revents'[Unix] \subseteq Ready(Unix)
    BY <1>3, <1>6 DEF pollSockets
  <2>2. Ready(Unix) # {} => stream # << >> \/ parent = "closed"
    BY DEF Ready
  <2>3. "HUP" \in Ready(Unix) => parent = "closed"
    BY DEF Ready
  <2>. QED
    BY <2>1, <2>2, <2>3 DEF UnixTrue
<1>7. CASE PollIdle
  BY <1>2, <1>3, <1>7 DEF PollIdle, RoundOver, NoEvents
<1>8. CASE UnixHangup \/ UnixOther \/ RecvConfig \/ \E c \in Clients : UnixClient(c)
  BY <1>2, <1>4, <1>5, <1>8 DEF UnixHangup, UnixOther, RecvConfig, UnixClient, Admit, Refuse
<1>9. CASE UnixConfig
  BY <1>1, <1>9 DEF UnixConfig
<1>10. ASSUME NEW c \in Clients, DropHup(c) \/ ReadData(c) \/ ReadEof(c) \/ ReadError(c) \/ WriteOnly(c)
       PROVE  revents'[Unix] = {}
  <2>1. ClientReported(c) /\ Handled(c)
    BY <1>10 DEF DropHup, ReadData, ReadEof, ReadError, WriteOnly, Readable, Reply, Remove, Keep
  <2>. QED
    BY <1>3, <2>1 DEF ClientReported, Handled, TypeOK
<1>11. CASE ParentStep
  <2>1. /\ revents' = revents
        /\ parent = "closed" => parent' = "closed"
        /\ stream' = stream \/ \E m \in Messages : stream' = Append(stream, m)
    BY <1>11, OthersFrame DEF ParentStep, ParentLabel, ParentText, ParentPass, ParentBye, ParentClose,
                              dispatcherVars, Messages
  <2>2. stream # << >> => stream' # << >>
    <3>1. ASSUME NEW m \in Messages, stream' = Append(stream, m) PROVE stream' # << >>
      BY <3>1, AppendProperties DEF TypeOK
    <3>. QED
      BY <2>1, <3>1
  <2>. QED
    BY <2>1, <2>2 DEF UnixTrue
<1>12. CASE ClientsStep \/ UNCHANGED vars
  BY <1>1, <1>12 DEF ClientsStep, vars, dispatcherVars
<1>. QED
  BY <1>2, <1>6, <1>7, <1>8, <1>9, <1>10, <1>11, <1>12 DEF Next, DispatcherStep, Terminated

(* The greeting.  Only the clients a step handles or admits change status. *)
LEMMA GreetingStep ==
  ASSUME TypeOK, Bookkeeping, StreamShape, Ownership, GreetingPending, [Next]_vars
  PROVE  GreetingPending'
<1>0. \A c \in Clients : cpc[c] = "done" => cpc'[c] = "done"
  <2>1. CASE ClientsStep
    BY <2>1 DEF ClientsStep, ClientStep, ClientRead, ClientSend, ClientQuit, ClientClose, RstArrives,
                TypeOK, ClientTypeOK
  <2>2. ASSUME NEW c \in Clients, ParentPass(c)
        PROVE  \A d \in Clients : cpc[d] = "done" => cpc'[d] = "done"
    BY <2>2 DEF ParentPass, Connect, TypeOK, ClientTypeOK
  <2>3. cpc' = cpc \/ ClientsStep \/ \E c \in Clients : ParentPass(c)
    BY DEF Next, vars, clientVars, Terminated, ParentStep, ParentLabel, ParentText, ParentBye, ParentClose,
           DispatcherStep, pollSockets, PollIdle, UnixHangup, UnixConfig, RecvConfig, createContext, UnixOther, UnixClient,
           Admit, Refuse, Stop, DropHup, ReadData, ReadEof, ReadError, WriteOnly, Reply, Remove, Keep
  <2>. QED
    BY <2>1, <2>2, <2>3
<1>1. CASE UNCHANGED dispatcherVars
  BY <1>0, <1>1 DEF GreetingPending, dispatcherVars
<1>2. ASSUME NEW how, Stop(how) PROVE GreetingPending'
  BY <1>2 DEF Stop, GreetingPending
<1>3. CASE pollSockets
  BY <1>0, <1>3, DispatcherAssumption DEF pollSockets, RoundOver, NoEvents, Ready, Events, Sockets, GreetingPending
<1>4. CASE PollIdle
  BY <1>0, <1>4, DispatcherAssumption DEF PollIdle, RoundOver, NoEvents, Ready, Events, Sockets, GreetingPending
<1>5. ASSUME UNCHANGED <<socketsList, pollOut, clientStatus>>, revents' = revents \/ Handled(Unix)
      PROVE  GreetingPending'
  BY <1>0, <1>5, DispatcherAssumption DEF Handled, TypeOK, Sockets, GreetingPending
<1>6. CASE UnixHangup \/ UnixConfig \/ UnixOther
  BY <1>2, <1>5, <1>6 DEF UnixHangup, UnixConfig, UnixOther
<1>7. CASE RecvConfig
  <2>1. Stop("exited") \/ (UNCHANGED <<socketsList, pollOut, clientStatus>> /\ Handled(Unix))
    BY <1>7 DEF RecvConfig, createContext
  <2>. QED
    BY <1>2, <1>5, <2>1
<1>8. ASSUME NEW c \in Clients, UnixClient(c) PROVE GreetingPending'
  <2>1. CASE Admit(c)
    BY <1>0, <2>1, DispatcherAssumption DEF Admit, putSocket, Handled, TypeOK, Sockets, GreetingPending
  <2>. QED
    BY <1>2, <1>5, <1>8, <2>1 DEF UnixClient, Refuse
(* After its handler a client is greeted, or gone.                         *)
<1>9. ASSUME NEW c \in Clients, Remove(c) \/ Keep(c), clientStatus'[c] # "HELLO" \/ cpc[c] = "done",
             \A d \in Clients \ {c} : clientStatus'[d] = clientStatus[d]
      PROVE  GreetingPending'
  BY <1>0, <1>9 DEF Remove, Keep, delSocket, Handled, TypeOK, Sockets, GreetingPending
<1>10. ASSUME NEW c \in Clients, NEW status, Reply(c, status) PROVE GreetingPending'
  <2>1. clientStatus'[c] # "HELLO" /\ \A d \in Clients \ {c} : clientStatus'[d] = clientStatus[d]
    BY <1>10 DEF Reply, TypeOK
  <2>. QED
    BY <1>9, <1>10, <2>1 DEF Reply
<1>11. ASSUME NEW c \in Clients, DropHup(c) \/ ReadError(c) PROVE GreetingPending'
  BY <1>9, <1>11 DEF DropHup, ReadError, Ownership, Gone
<1>12. ASSUME NEW c \in Clients, ReadEof(c) PROVE GreetingPending'
  <2>1. cpc[c] = "done" /\ \A d \in Clients \ {c} : clientStatus'[d] = clientStatus[d]
    BY <1>12 DEF ReadEof, Ownership, Gone, TypeOK
  <2>. QED
    BY <1>9, <1>12, <2>1 DEF ReadEof
<1>13. ASSUME NEW c \in Clients, ReadData(c) \/ WriteOnly(c) PROVE GreetingPending'
  BY <1>10, <1>13 DEF ReadData, WriteOnly
<1>. QED
  BY <1>1, <1>3, <1>4, <1>6, <1>7, <1>8, <1>11, <1>12, <1>13, OthersFrame
  DEF Next, DispatcherStep, Terminated, vars

(* A socket reported readable stays readable until its handler has run.    *)
LEMMA NeverBlocksStep ==
  ASSUME TypeOK, Bookkeeping, StreamShape, Ownership, NeverBlocks, [Next]_vars
  PROVE  NeverBlocks'
<1>1. CASE UNCHANGED vars
  BY <1>1 DEF vars, clientVars, dispatcherVars, NeverBlocks
<1>2. CASE ClientsStep
  <2>1. PICK c \in Clients : ClientStep(c) /\ UNCHANGED <<dispatcherVars, stream, parent>>
    BY <1>2 DEF ClientsStep
  <2>2. revents' = revents
    BY <2>1 DEF dispatcherVars
  <2>3. CASE ClientRead(c) \/ RstArrives(c)
    BY <2>2, <2>3 DEF ClientRead, RstArrives, NeverBlocks, TypeOK, ClientTypeOK
  <2>4. CASE ClientSend(c) \/ ClientQuit(c)
    <3>1. peer' = peer /\ \A d \in Clients : up[d] # << >> => up'[d] # << >>
      BY <2>4, WordWritten, WritesEffect DEF ClientSend, ClientQuit, TypeOK
    <3>. QED
      BY <2>2, <3>1 DEF NeverBlocks
  <2>5. CASE ClientClose(c)
    BY <2>2, <2>5 DEF ClientClose, NeverBlocks, TypeOK, ClientTypeOK
  <2>. QED
    BY <2>1, <2>3, <2>4, <2>5 DEF ClientStep
<1>3. CASE ParentStep
  <2>1. revents' = revents /\ up' = up
    BY <1>3 DEF ParentStep, ParentLabel, ParentText, ParentPass, Connect, ParentBye, ParentClose,
                dispatcherVars, clientVars
  <2>2. ASSUME NEW c \in Clients, "IN" \in revents[c] PROVE peer'[c] = peer[c]
    <3>1. cpc[c] # "idle"
      BY <2>2 DEF Bookkeeping, Ownership, DescriptorsHeld
    <3>. QED
      BY <1>3, <3>1 DEF ParentStep, ParentLabel, ParentText, ParentPass, Connect, ParentBye, ParentClose,
                        clientVars, TypeOK, ClientTypeOK
  <2>. QED
    BY <2>1, <2>2 DEF NeverBlocks
<1>4. ASSUME \A c \in Clients : revents'[c] = {} PROVE NeverBlocks'
  BY <1>4 DEF NeverBlocks
<1>5. ASSUME NEW how, Stop(how) PROVE NeverBlocks'
  BY <1>4, <1>5 DEF Stop, NoEvents, Sockets
<1>6. CASE pollSockets
  <2>1. \A c \in Clients : c \in socketsList => up'[c] = up[c] /\ peer'[c] = peer[c]
    BY <1>6 DEF pollSockets, ServerClose, Emptied, Forgotten, Dropped
  <2>2. \A c \in Clients : "IN" \in revents'[c] => c \in socketsList /\ (up[c] # << >> \/ peer[c] \in Gone)
    BY <1>6, DispatcherAssumption DEF pollSockets, Ready, Gone, Sockets
  <2>. QED
    BY <2>1, <2>2 DEF NeverBlocks, Gone
<1>7. CASE PollIdle
  BY <1>4, <1>7 DEF PollIdle, RoundOver, NoEvents, Sockets
<1>8. \A c \in Clients : Handled(Unix) => revents'[c] = revents[c]
  BY DispatcherAssumption DEF Handled, TypeOK, Sockets
<1>9. ASSUME UNCHANGED <<up, peer>>, \A c \in Clients : revents'[c] = revents[c] PROVE NeverBlocks'
  BY <1>9 DEF NeverBlocks
<1>10. CASE UnixHangup \/ UnixConfig \/ UnixOther
  BY <1>5, <1>8, <1>9, <1>10 DEF UnixHangup, UnixConfig, UnixOther, clientVars
(* A connection closed on its way from the stream is not listed.           *)
<1>11. ASSUME NEW T \in SUBSET Clients, ServerClose(T), Handled(Unix),
              \A c \in T : c \notin socketsList
       PROVE  NeverBlocks'
  <2>1. \A c \in Clients : c \notin T => up'[c] = up[c] /\ peer'[c] = peer[c]
    BY <1>11 DEF ServerClose, Emptied, Forgotten
  <2>. QED
    BY <1>8, <1>11, <2>1 DEF NeverBlocks, Bookkeeping
<1>12. ASSUME NEW i \in 1 .. Len(stream), NEW c \in Clients, stream[i] = c PROVE c \notin socketsList
  BY <1>12 DEF Ownership, DescriptorsHeld, InFlight
<1>13. CASE RecvConfig
  <2>1. CASE Stop("exited")
    BY <2>1, <1>5
  <2>2. CASE ~Stop("exited")
    BY <1>11, <1>12, <1>13, <2>2 DEF RecvConfig, createContext
  <2>. QED
    BY <2>1, <2>2
<1>14. ASSUME NEW c \in Clients, UnixClient(c) PROVE NeverBlocks'
  <2>1. CASE Admit(c)
    BY <1>8, <1>9, <2>1 DEF Admit, clientVars
  <2>2. CASE Refuse(c)
    <3>1. 1 \in 1 .. Len(stream) /\ stream[1] = c
      BY <1>14 DEF UnixClient, UnixMessage, TypeOK
    <3>. QED
      BY <1>11, <1>12, <2>2, <3>1 DEF Refuse
  <2>. QED
    BY <1>5, <1>14, <2>1, <2>2 DEF UnixClient
<1>15. ASSUME NEW c \in Clients, Remove(c) \/ Keep(c),
              \A d \in Clients \ {c} : up'[d] = up[d] /\ peer'[d] = peer[d]
       PROVE  NeverBlocks'
  BY <1>15 DEF Remove, Keep, Handled, NeverBlocks, TypeOK, Sockets
<1>16. ASSUME NEW c \in Clients, NEW status, Reply(c, status), \A d \in Clients \ {c} : up'[d] = up[d]
       PROVE  NeverBlocks'
  BY <1>15, <1>16 DEF Reply, ServerWrite, TypeOK, ClientTypeOK
<1>17. ASSUME NEW c \in Clients, ReadData(c) PROVE NeverBlocks'
  BY <1>16, <1>17 DEF ReadData, TypeOK, ClientTypeOK
<1>18. ASSUME NEW c \in Clients, DropHup(c) \/ ReadEof(c) \/ ReadError(c) PROVE NeverBlocks'
  BY <1>15, <1>18 DEF DropHup, ReadEof, ReadError, TypeOK, ClientTypeOK
<1>19. ASSUME NEW c \in Clients, WriteOnly(c) PROVE NeverBlocks'
  BY <1>16, <1>19 DEF WriteOnly
<1>. QED
  BY <1>1, <1>2, <1>3, <1>6, <1>7, <1>10, <1>13, <1>14, <1>17, <1>18, <1>19
  DEF Next, DispatcherStep, Terminated

-------------------------------------------------------------------------------
(* A process just connected satisfies the invariant (mydisp.cpp:215-233).  *)
LEMMA InitIInv == Init => IInv
<1>. SUFFICES ASSUME Init PROVE IInv
  OBVIOUS
<1>1. TypeOK
  <2>1. ClientTypeOK
    <3>1. << >> \in Seq(Pieces) /\ << >> \in Seq(Replies)
      OBVIOUS
    <3>. QED
      BY <3>1, ClientAssumption DEF Init, ClientInit, ClientTypeOK
  <2>2. << >> \in Seq(Messages)
    OBVIOUS
  <2>. QED
    BY <2>1, <2>2 DEF Init, TypeOK, NoEvents, Sockets
<1>2. Bookkeeping /\ StreamShape
  BY DispatcherAssumption DEF Init, Bookkeeping, StreamShape, NoEvents, Sockets, Alive
<1>3. Ownership
  <2>1. stream = << >> /\ \A c \in Clients : c # Unix
    BY DispatcherAssumption DEF Init
  <2>2. \A c \in Clients : InFlight(c) = {}
    <3>1. Len(stream) = 0
      BY <2>1
    <3>. QED
      BY <3>1 DEF InFlight
  <2>3. DescriptorsHeld
    BY <2>1, <2>2 DEF Init, ClientInit, DescriptorsHeld
  <2>. QED
    BY <2>3 DEF Init, ClientInit, Ownership, NoEvents, Sockets, Gone
<1>4. Bounded
  <2>1. IsFiniteSet({Unix}) /\ Cardinality({Unix}) = 1
    BY FS_Singleton
  <2>. QED
    BY <2>1, DispatcherAssumption DEF Init, Bounded
<1>5. TakesFirst /\ UnixTrue /\ GreetingPending /\ NeverBlocks
  BY DispatcherAssumption DEF Init, ClientInit, TakesFirst, UnixTrue, GreetingPending, NeverBlocks, NoEvents, Sockets
<1>. QED
  BY <1>1, <1>2, <1>3, <1>4, <1>5 DEF IInv

(* Every step keeps the types.                                             *)
LEMMA TypeStep ==
  ASSUME TypeOK, Bookkeeping, [Next]_vars PROVE TypeOK'
<1>1. CASE UNCHANGED vars
  BY <1>1 DEF vars, clientVars, dispatcherVars, TypeOK, ClientTypeOK
<1>. QED
  BY <1>1, ParentType, ClientsType, DispatcherType DEF Next, Terminated

(* The invariant is inductive: each part is kept by the lemma about it.    *)
LEMMA NextIInv == IInv /\ [Next]_vars => IInv'
BY TypeStep, BookkeepingStep, ShapeStep, OwnershipStep, BoundedStep, TakesFirstStep, UnixTrueStep, GreetingStep,
   NeverBlocksStep DEF IInv

(* Every reachable state satisfies the inductive invariant, for any set of *)
(* clients, any number of words they type and any size of the list         *)
(* (mydisp.cpp:98-275).                                                    *)
THEOREM Inductive == Spec => []IInv
BY InitIInv, NextIInv, PTL DEF Spec

(* Every variable keeps its type.                                          *)
THEOREM TypeCorrect == Spec => []TypeOK
<1>1. IInv => TypeOK
  BY DEF IInv
<1>. QED
  BY Inductive, <1>1, PTL

(* SslSocket's constructor never runs without an SSL context               *)
(* (mydisp.cpp:122, SslSocket.cpp:33).                                     *)
THEOREM ContextFirst == Spec => []NeverWithoutContext
<1>1. IInv => NeverWithoutContext
  BY DEF IInv, StreamShape, NeverWithoutContext
<1>. QED
  BY Inductive, <1>1, PTL

(* No text of the configuration is left where dispatcherProcess peeks for  *)
(* a message (mydisp.cpp:115-145).                                         *)
THEOREM HeadIsMessage == Spec => []HeadRecognised
<1>1. IInv => HeadRecognised
  <2>. SUFFICES ASSUME IInv, pc = "run", stream # << >> PROVE Head(stream) # "OPTIONS"
    BY DEF HeadRecognised
  <2>1. Len(stream) >= 1 /\ Head(stream) = stream[1]
    BY DEF IInv, TypeOK
  <2>. QED
    BY <2>1, DispatcherAssumption DEF IInv, StreamShape, Later
<1>. QED
  BY Inductive, <1>1, PTL

(* Each descriptor of a client has one owner, the stream or the lists      *)
(* (ReceivedTcpSocketFactory.cpp:46-105, Socket.cpp:24-30).                *)
THEOREM OneOwner == Spec => []DescriptorsHeld
<1>1. IInv => DescriptorsHeld
  BY DEF IInv, Ownership
<1>. QED
  BY Inductive, <1>1, PTL

(* The greeting of a living client is never forgotten although every poll  *)
(* erases the requested events (mydisp.cpp:128, SocketsPoller.cpp:49-58).  *)
THEOREM GreetingKept == Spec => []GreetingPending
<1>1. IInv => GreetingPending
  BY DEF IInv
<1>. QED
  BY Inductive, <1>1, PTL

(* The one thread never waits in a client's read (mydisp.cpp:153-155).     *)
THEOREM ReadsAreReady == Spec => []NeverBlocks
<1>1. IInv => NeverBlocks
  BY DEF IInv
<1>. QED
  BY Inductive, <1>1, PTL

(* processClient drops a client only when it is gone or has just been told *)
(* BYE (mydisp.cpp:149-200, 255-261).                                      *)
THEOREM DropsHaveCause == Spec => DroppedForCause
<1>. DEFINE Cause(c) == cpc[c] = "done" \/ (down'[c] # << >> /\ down'[c][Len(down'[c])] = "BYE")
<1>1. ASSUME IInv, [Next]_vars, NEW c \in Clients, c \in socketsList, c \notin socketsList', Alive'
      PROVE  Cause(c)
  <2>0. TypeOK /\ Ownership
    BY <1>1 DEF IInv
  <2>1. peer[c] # "open" => cpc[c] = "done"
    BY <1>1, <2>0 DEF Ownership, DescriptorsHeld, Gone, TypeOK, ClientTypeOK
  <2>2. ASSUME NEW d \in Clients, Remove(d) PROVE d = c
    BY <1>1, <2>2 DEF Remove, delSocket
  <2>3. ASSUME NEW d \in Clients, DropHup(d) \/ ReadEof(d) \/ ReadError(d), Remove(d) PROVE Cause(c)
    BY <2>0, <2>2, <2>3 DEF DropHup, ReadEof, ReadError, Ownership, Gone
  <2>4. ASSUME NEW d \in Clients, NEW status, Reply(d, status), Remove(d) PROVE Cause(c)
    <3>1. status = "BYE" \/ ~Writable(d)
      BY <1>1, <2>2, <2>4 DEF Reply, Keep
    <3>2. CASE peer[d] = "open"
      <4>1. status = "BYE" /\ down' = [down EXCEPT ![d] = Append(@, "BYE")]
        BY <2>4, <3>1, <3>2 DEF Reply, ServerWrite, Writable
      <4>2. down'[d] = Append(down[d], "BYE") /\ down[d] \in Seq(Replies)
        BY <2>0, <4>1 DEF TypeOK, ClientTypeOK
      <4>. QED
        BY <2>2, <2>4, <4>2
    <3>. QED
      BY <2>1, <2>2, <2>4, <3>2
  <2>5. \E d \in Clients : /\ DropHup(d) \/ ReadData(d) \/ ReadEof(d) \/ ReadError(d) \/ WriteOnly(d)
                           /\ Remove(d)
    <3>1. CASE ParentStep \/ ClientsStep \/ UNCHANGED vars
      BY <1>1, <3>1, OthersFrame DEF dispatcherVars, vars
    <3>2. CASE pollSockets \/ PollIdle \/ UnixHangup \/ UnixConfig \/ RecvConfig \/ UnixOther
      BY <1>1, <3>2 DEF pollSockets, PollIdle, UnixHangup, UnixConfig, RecvConfig, createContext, UnixOther, Stop, Alive
    <3>3. ASSUME NEW d \in Clients, UnixClient(d) PROVE FALSE
      BY <1>1, <3>3 DEF UnixClient, Admit, putSocket, Refuse, Stop, Alive
    <3>4. ASSUME NEW d \in Clients, DropHup(d) \/ ReadData(d) \/ ReadEof(d) \/ ReadError(d) \/ WriteOnly(d)
          PROVE  Remove(d)
      BY <1>1, <3>4 DEF DropHup, ReadData, ReadEof, ReadError, WriteOnly, Reply, Keep
    <3>. QED
      BY <1>1, <3>1, <3>2, <3>3, <3>4 DEF Next, DispatcherStep, Terminated
  <2>. QED
    BY <2>3, <2>4, <2>5 DEF ReadData, WriteOnly
<1>2. IInv /\ [Next]_vars =>
        [\A c \in Clients : c \in socketsList /\ c \notin socketsList' /\ Alive' => Cause(c)]_vars
  BY <1>1
<1>. QED
  BY Inductive, <1>2, PTL DEF Spec, DroppedForCause

(* The process ends for its parent, for EXIT or while it is configured     *)
(* (mydisp.cpp:103-113, 138-142).                                          *)
THEOREM EndsHaveCause == Spec => EndsForCause
<1>1. ASSUME IInv, Alive, ~Alive', [Next]_vars
      PROVE  parent = "closed" \/ pc = "recv" \/ (stream # << >> /\ Head(stream) = "EXIT")
  <2>0. UnixTrue /\ StreamShape /\ TypeOK
    BY <1>1 DEF IInv
  <2>1. UnixHangup \/ RecvConfig \/ UnixOther \/ \E c \in Clients : UnixClient(c)
    <3>1. CASE ParentStep \/ ClientsStep \/ UNCHANGED vars
      BY <1>1, <3>1, OthersFrame DEF vars, dispatcherVars, Alive
    <3>2. CASE pollSockets \/ PollIdle \/ UnixConfig
      BY <1>1, <3>2 DEF pollSockets, PollIdle, UnixConfig, Alive
    <3>3. ASSUME NEW c \in Clients, DropHup(c) \/ ReadData(c) \/ ReadEof(c) \/ ReadError(c) \/ WriteOnly(c)
          PROVE  FALSE
      BY <1>1, <3>3 DEF DropHup, ReadData, ReadEof, ReadError, WriteOnly, Reply, Remove, Keep, Alive
    <3>. QED
      BY <1>1, <3>1, <3>2, <3>3 DEF Next, DispatcherStep, Terminated
  <2>2. CASE UnixHangup
    BY <2>0, <2>2 DEF UnixHangup, UnixReported, UnixTrue
  <2>3. CASE RecvConfig
    BY <2>3 DEF RecvConfig
  <2>4. CASE UnixOther
    <3>1. stream # << >> \/ parent = "closed"
      BY <2>0, <2>4 DEF UnixOther, UnixReported, UnixTrue
    <3>2. \A message \in Peeked : message = Head(stream) /\ stream # << >>
      BY <3>1 DEF Peeked
    <3>. QED
      BY <1>1, <2>4, <3>2 DEF UnixOther, UnixReported, Alive
  <2>5. ASSUME NEW c \in Clients, UnixClient(c) PROVE FALSE
    <3>1. sslGlobalCtx
      BY <2>0, <2>5, DispatcherAssumption DEF UnixClient, UnixMessage, StreamShape, TypeOK
    <3>. QED
      BY <1>1, <2>5, <3>1 DEF UnixClient, Admit, Refuse, Alive
  <2>. QED
    BY <2>1, <2>2, <2>3, <2>4, <2>5
<1>. QED
  BY Inductive, <1>1, PTL DEF Spec, EndsForCause

=============================================================================
