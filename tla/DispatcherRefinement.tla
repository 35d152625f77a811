------------------------- MODULE DispatcherRefinement -------------------------
(***************************************************************************)
(* The dispatcher implements Service.tla, and then Holding.tla: its        *)
(* initial states map to initial states, and from a state of the inductive *)
(* invariant every step maps to a step of the abstract specification or to *)
(* none.                                                                   *)
(***************************************************************************)
EXTENDS DispatcherProofs

(* Where the abstract state comes from.                                    *)
LEMMA PhaseOf ==
  ASSUME TypeOK, Ownership, NEW c \in Clients
  PROVE  /\ servicePhase[c] = "new" <=> srv[c] = "none"
         /\ servicePhase[c] = "waiting" <=> InFlight(c) # {}
         /\ servicePhase[c] = "served" <=> c \in socketsList
         /\ servicePhase[c] \in {"new", "waiting", "served", "over"}
BY DEF servicePhase, Ownership, DescriptorsHeld, TypeOK, ClientTypeOK

(* What a stream is after its first n messages were taken.                 *)
LEMMA Rest ==
  ASSUME TypeOK, NEW n \in 1 .. Len(stream), stream' = SubSeq(stream, n + 1, Len(stream))
  PROVE  Len(stream') = Len(stream) - n /\ \A i \in 1 .. Len(stream) - n : stream'[i] = stream[n + i]
BY DEF TypeOK

(* How many are served, counted by the Cardinality that Service.tla gets   *)
(* from its own copy of FiniteSets.                                        *)
LEMMA SameCount == ASSUME NEW T PROVE S!Cardinality(T) = Cardinality(T)
BY DEF S!Cardinality, Cardinality, S!IsFiniteSet, IsFiniteSet

(* The service serves all the listed sockets but the unix socket.          *)
LEMMA ServedCount ==
  ASSUME TypeOK, Ownership, Bounded, Unix \in socketsList
  PROVE  S!Cardinality(S!Served) = Cardinality(socketsList) - 1
<1>1. S!Served = socketsList \ {Unix}
  BY PhaseOf, DispatcherAssumption DEF S!Served, TypeOK, Sockets
<1>2. Cardinality(socketsList \ {Unix}) = Cardinality(socketsList) - 1
  BY FS_RemoveElement DEF Bounded
<1>. QED
  BY <1>1, <1>2, SameCount

(* A step that moves no descriptor and neither opens nor ends the process  *)
(* is no step of the service.                                              *)
LEMMA Stutter ==
  ASSUME \A c \in Clients : /\ srv'[c] = "none" <=> srv[c] = "none"
                            /\ InFlight(c)' # {} <=> InFlight(c) # {}
                            /\ c \in socketsList' <=> c \in socketsList,
         sslGlobalCtx' = sslGlobalCtx, Alive, Alive'
  PROVE  UNCHANGED <<serviceState, servicePhase>>
<1>1. serviceState' = serviceState
  BY DEF serviceState, Alive
<1>2. servicePhase' = servicePhase
  BY DEF servicePhase
<1>. QED
  BY <1>1, <1>2

(* A process just connected is a service that is starting, with no client  *)
(* (mydisp.cpp:215-233).                                                   *)
LEMMA ServiceInit == Init => S!Init
<1>. SUFFICES ASSUME Init PROVE S!Init
  OBVIOUS
<1>1. serviceState = "starting"
  BY DEF Init, serviceState
<1>2. servicePhase = [c \in Clients |-> "new"]
  BY DEF Init, ClientInit, servicePhase
<1>. QED
  BY <1>1, <1>2 DEF S!Init

(* A process that ends by return is a service that stops                   *)
(* (mydisp.cpp:103-143, 250-253).                                          *)
LEMMA ServiceStop ==
  ASSUME IInv, Alive, Stop("exited") PROVE S!Stop
<1>1. serviceState # "stopped" /\ serviceState' = "stopped"
  BY DEF Stop, Alive, serviceState
<1>2. \A c \in Clients : srv'[c] = "none" <=> srv[c] = "none"
  BY DEF Stop, ServerClose, Closed
<1>3. \A c \in Clients : InFlight(c)' = {} /\ c \notin socketsList'
  BY InFlightNone DEF Stop
<1>4. \A c \in Clients : servicePhase[c] = "new" <=> srv[c] = "none"
  BY PhaseOf DEF IInv
<1>5. servicePhase' = [c \in Clients |-> IF servicePhase[c] = "new" THEN "new" ELSE "over"]
  BY <1>2, <1>3, <1>4 DEF servicePhase
<1>. QED
  BY <1>1, <1>5 DEF S!Stop

(* One client changes phase, the others keep theirs.                       *)
LEMMA OneMoves ==
  ASSUME IInv, NEW c \in Clients, NEW p,
         \A d \in Clients \ {c} : /\ srv'[d] = "none" <=> srv[d] = "none"
                                  /\ InFlight(d)' # {} <=> InFlight(d) # {}
                                  /\ d \in socketsList' <=> d \in socketsList,
         \/ p = "waiting" /\ srv'[c] # "none" /\ InFlight(c)' # {}
         \/ p = "served" /\ srv'[c] # "none" /\ InFlight(c)' = {} /\ c \in socketsList'
         \/ p = "over" /\ srv'[c] # "none" /\ InFlight(c)' = {} /\ c \notin socketsList'
  PROVE  servicePhase' = [servicePhase EXCEPT ![c] = p]
BY DEF servicePhase

(* From a state of the invariant every step of the dispatcher, its parent  *)
(* or its clients is a step of the service or changes nothing of it.       *)
LEMMA ServiceStep ==
  ASSUME IInv, IInv', [Next]_vars PROVE [S!Next]_<<serviceState, servicePhase>>
<1>0. TypeOK /\ Ownership /\ Bookkeeping /\ StreamShape /\ Bounded /\ Ownership'
  BY DEF IInv
<1>1. CASE UNCHANGED vars
  BY <1>1, InFlightSame DEF vars, clientVars, dispatcherVars, serviceState, servicePhase
<1>2. CASE ClientsStep
  <2>1. UNCHANGED <<srv, stream, socketsList, sslGlobalCtx, pc>>
    BY <1>2 DEF ClientsStep, dispatcherVars, ClientStep, ClientRead, ClientSend, ClientQuit, ClientClose, RstArrives
  <2>. QED
    BY <2>1, InFlightSame DEF serviceState, servicePhase
<1>3. CASE ParentClose
  BY <1>3, InFlightSame DEF ParentClose, clientVars, dispatcherVars, serviceState, servicePhase
<1>4. ASSUME NEW m \in Messages, m \notin Clients, stream' = Append(stream, m),
             UNCHANGED <<clientVars, dispatcherVars>>
      PROVE  UNCHANGED <<serviceState, servicePhase>>
  <2>1. \A c \in Clients : InFlight(c)' = InFlight(c)
    BY <1>0, <1>4, InFlightAppend
  <2>. QED
    BY <1>4, <2>1 DEF clientVars, dispatcherVars, serviceState, servicePhase
<1>5. CASE ParentLabel \/ ParentText \/ ParentBye
  BY <1>4, <1>5, DispatcherAssumption DEF ParentLabel, ParentText, ParentBye, ParentWrites, Messages
<1>6. ASSUME NEW c \in Clients, ParentPass(c) PROVE S!Pass(c)
  <2>1. /\ stream' = Append(stream, c) /\ UNCHANGED dispatcherVars /\ Alive
        /\ srv[c] = "none" /\ srv' = [srv EXCEPT ![c] = "open"]
    BY <1>0, <1>6 DEF ParentPass, ParentWrites, Connect, Ownership
  <2>2. \A d \in Clients : InFlight(d)' = IF c = d THEN InFlight(d) \union {Len(stream) + 1} ELSE InFlight(d)
    BY <1>0, <2>1, InFlightAppend DEF Messages
  <2>3. servicePhase' = [servicePhase EXCEPT ![c] = "waiting"]
    <3>1. socketsList' = socketsList /\ srv'[c] # "none" /\ InFlight(c)' # {}
      BY <1>0, <2>1, <2>2 DEF dispatcherVars, TypeOK, ClientTypeOK
    <3>2. \A d \in Clients \ {c} : srv'[d] = srv[d] /\ InFlight(d)' = InFlight(d)
      BY <1>0, <2>1, <2>2 DEF TypeOK, ClientTypeOK
    <3>. QED
      BY <3>1, <3>2, OneMoves
  <2>4. servicePhase[c] = "new"
    BY <1>0, <2>1, PhaseOf
  <2>5. serviceState' = serviceState /\ serviceState # "stopped"
    BY <2>1 DEF dispatcherVars, serviceState, Alive
  <2>. QED
    BY <2>3, <2>4, <2>5 DEF S!Pass
<1>7. CASE pollSockets \/ PollIdle
  <2>1. /\ UNCHANGED <<stream, socketsList, sslGlobalCtx, pc>>
        /\ \A c \in Clients : srv'[c] = srv[c] \/ (srv'[c] = "closed" /\ c \in Dropped)
    BY <1>7 DEF pollSockets, PollIdle, ServerClose, Closed
  <2>2. \A c \in Clients : srv'[c] = "none" <=> srv[c] = "none"
    BY <1>0, <2>1 DEF Dropped, Ownership, DescriptorsHeld
  <2>. QED
    BY <2>1, <2>2, InFlightSame DEF serviceState, servicePhase
<1>8. CASE UnixHangup
  BY <1>8, ServiceStop DEF UnixHangup, UnixReported, Alive, S!Next
<1>9. CASE UnixConfig
  BY <1>9, InFlightSame DEF UnixConfig, UnixMessage, UnixReported, clientVars, serviceState, servicePhase
<1>10. CASE UnixOther
  <2>1. CASE Stop("exited")
    BY <1>10, <2>1, ServiceStop DEF UnixOther, UnixMessage, UnixReported, Alive, S!Next
  <2>2. CASE ~Stop("exited")
    BY <1>10, <2>2, InFlightSame DEF UnixOther, clientVars, serviceState, servicePhase
  <2>. QED
    BY <2>1, <2>2
<1>11. CASE RecvConfig
  <2>1. CASE Stop("exited")
    BY <1>11, <2>1, ServiceStop DEF RecvConfig, createContext, Alive, S!Next
  <2>2. CASE ~Stop("exited")
    <3>1. PICK n \in 1 .. Len(stream) :
            /\ \A i \in 1 .. n - 1 : stream[i] \notin Clients
            /\ sslGlobalCtx' = TRUE /\ pc' = "run"
            /\ ServerClose({stream[n]} \intersect Clients)
            /\ stream' = SubSeq(stream, n + 1, Len(stream))
            /\ UNCHANGED socketsList
      BY <1>11, <2>2 DEF RecvConfig, createContext, Joined
    <3>2. serviceState = "starting" /\ serviceState' = "open"
      BY <1>0, <1>11, <3>1 DEF RecvConfig, createContext, StreamShape, serviceState
    <3>3. Len(stream') = Len(stream) - n /\ \A i \in 1 .. Len(stream) - n : stream'[i] = stream[n + i]
      BY <1>0, <3>1, Rest
    <3>4. \A c \in Clients : InFlight(c)' # {} <=> (InFlight(c) # {} /\ stream[n] # c)
      BY <1>0, <3>1, <3>3, InFlightRest DEF Ownership, DescriptorsHeld
    <3>5. \A c \in Clients : srv'[c] = IF c = stream[n] THEN "closed" ELSE srv[c]
      BY <3>1 DEF ServerClose, Closed
    <3>6. CASE stream[n] \in Clients
      <4>1. n \in InFlight(stream[n])
        BY DEF InFlight
      <4>2. servicePhase[stream[n]] = "waiting" /\ stream[n] \notin socketsList
        BY <1>0, <3>6, <4>1, PhaseOf DEF Ownership, DescriptorsHeld
      <4>3. servicePhase' = [servicePhase EXCEPT ![stream[n]] = "over"]
        BY <3>1, <3>4, <3>5, <3>6, <4>2, OneMoves
      <4>. QED
        BY <3>2, <3>6, <4>2, <4>3 DEF S!Next, S!Open
    <3>7. CASE stream[n] \notin Clients
      <4>1. servicePhase' = servicePhase
        BY <3>1, <3>4, <3>5, <3>7 DEF servicePhase
      <4>. QED
        BY <3>2, <4>1 DEF S!Next, S!Open
    <3>. QED
      BY <3>6, <3>7
  <2>. QED
    BY <2>1, <2>2
<1>12. ASSUME NEW c \in Clients, UnixClient(c) PROVE S!Take(c) \/ S!TurnAway(c)
  <2>1. /\ 1 \in 1 .. Len(stream) /\ stream[1] = c /\ 1 \in InFlight(c) /\ pc = "run"
        /\ Tail(stream) = SubSeq(stream, 2, Len(stream))
    BY <1>0, <1>12 DEF UnixClient, UnixMessage, UnixReported, InFlight, TypeOK
  <2>2. sslGlobalCtx /\ (Admit(c) \/ Refuse(c))
    BY <1>0, <1>12, <2>1, DispatcherAssumption DEF UnixClient, UnixMessage, StreamShape
  <2>3. serviceState = "open" /\ serviceState' = "open"
    BY <2>1, <2>2 DEF Admit, Refuse, serviceState
  <2>4. servicePhase[c] = "waiting" /\ srv[c] = "open" /\ c \notin socketsList
    BY <1>0, <2>1, PhaseOf DEF Ownership, DescriptorsHeld
  <2>5. stream' = SubSeq(stream, 2, Len(stream))
    BY <2>1, <2>2 DEF Admit, Refuse
  <2>6. Len(stream') = Len(stream) - 1 /\ \A i \in 1 .. Len(stream) - 1 : stream'[i] = stream[1 + i]
    <3>1. stream' = SubSeq(stream, 1 + 1, Len(stream))
      BY <2>5
    <3>. QED
      BY <1>0, <2>1, <3>1, Rest
  <2>7. \A d \in Clients : InFlight(d)' # {} <=> (InFlight(d) # {} /\ stream[1] # d)
    BY <1>0, <2>1, <2>6, InFlightRest DEF Ownership, DescriptorsHeld
  <2>8. Unix \in socketsList
    BY <1>0, <2>1 DEF Bookkeeping, Alive
  <2>9. S!Cardinality(S!Served) = Cardinality(socketsList) - 1 /\ Cardinality(socketsList) \in Nat
    BY <1>0, <2>8, ServedCount, FS_CardinalityType DEF Bounded
  <2>10. CASE Admit(c)
    <3>1. socketsList' = socketsList \union {c} /\ srv' = srv /\ Cardinality(socketsList) # MaxSockets
      BY <2>10 DEF Admit, putSocket, clientVars, IsFull
    <3>2. servicePhase' = [servicePhase EXCEPT ![c] = "served"]
      BY <2>1, <2>4, <2>7, <3>1, OneMoves
    <3>3. S!Cardinality(S!Served) < MaxSockets - 1
      BY <1>0, <2>9, <3>1, DispatcherAssumption DEF Bounded
    <3>. QED
      BY <2>3, <2>4, <3>2, <3>3 DEF S!Take
  <2>11. CASE Refuse(c)
    <3>1. socketsList' = socketsList /\ Cardinality(socketsList) = MaxSockets
          /\ \A d \in Clients : srv'[d] = IF d = c THEN "closed" ELSE srv[d]
      BY <2>11 DEF Refuse, IsFull, ServerClose, Closed
    <3>2. servicePhase' = [servicePhase EXCEPT ![c] = "over"]
      <4>1. srv'[c] = "closed" /\ c \notin socketsList' /\ InFlight(c)' = {}
        BY <2>1, <2>4, <2>7, <3>1
      <4>2. \A d \in Clients \ {c} : srv'[d] = srv[d] /\ (InFlight(d)' # {} <=> InFlight(d) # {})
        BY <2>1, <2>7, <3>1
      <4>. QED
        BY <3>1, <4>1, <4>2, OneMoves
    <3>3. S!Cardinality(S!Served) = MaxSockets - 1
      BY <2>9, <3>1
    <3>. QED
      BY <2>3, <2>4, <3>2, <3>3 DEF S!TurnAway
  <2>. QED
    BY <2>2, <2>10, <2>11
<1>13. ASSUME NEW c \in Clients, DropHup(c) \/ ReadData(c) \/ ReadEof(c) \/ ReadError(c) \/ WriteOnly(c)
       PROVE  S!Leave(c) \/ UNCHANGED <<serviceState, servicePhase>>
  <2>1. Remove(c) \/ Keep(c)
    BY <1>13 DEF DropHup, ReadData, ReadEof, ReadError, WriteOnly, Reply
  <2>2. c \in socketsList /\ sslGlobalCtx /\ pc = "run"
    BY <1>0, <1>13 DEF DropHup, ReadData, ReadEof, ReadError, WriteOnly, Readable, ClientReported, Bookkeeping
  <2>3. UNCHANGED <<srv, stream, sslGlobalCtx, pc>> /\ (socketsList' = socketsList \/ socketsList' = socketsList \ {c})
    BY <2>1 DEF Remove, Keep, delSocket
  <2>4. serviceState = "open" /\ serviceState' = "open"
    BY <2>2, <2>3 DEF serviceState
  <2>5. \A d \in Clients : InFlight(d)' = InFlight(d)
    BY <2>3, InFlightSame
  <2>6. CASE socketsList' = socketsList
    BY <2>3, <2>4, <2>5, <2>6 DEF servicePhase
  <2>7. CASE socketsList' = socketsList \ {c}
    <3>1. srv[c] # "none" /\ InFlight(c) = {} /\ servicePhase[c] = "served"
      BY <1>0, <2>2, PhaseOf DEF Ownership, DescriptorsHeld
    <3>2. servicePhase' = [servicePhase EXCEPT ![c] = "over"]
      BY <2>3, <2>5, <2>7, <3>1, OneMoves
    <3>. QED
      BY <2>4, <3>1, <3>2 DEF S!Leave
  <2>. QED
    BY <2>3, <2>6, <2>7
<1>. QED
  BY <1>1, <1>2, <1>3, <1>5, <1>6, <1>7, <1>8, <1>9, <1>10, <1>11, <1>12, <1>13
  DEF Next, DispatcherStep, ParentStep, Terminated, S!Next

(* The dispatcher implements the service: nobody is served before it is    *)
(* open, never more than its capacity, a refusal only when full, at most   *)
(* one client lost, when it opens (mydisp.cpp:98-146, SocketsList.h:43-60).*)
THEOREM Refinement == Spec => IsService
<1>1. IInv /\ IInv' /\ [Next]_vars => [S!Next]_<<serviceState, servicePhase>>
  BY ServiceStep
<1>. QED
  BY ServiceInit, Inductive, <1>1, PTL DEF Spec, IsService, S!Spec

-------------------------------------------------------------------------------
(* The descriptors.  The clients dropped are those the list of reported    *)
(* sockets still owns.                                                     *)
LEMMA DroppedIs == ASSUME TypeOK, Ownership PROVE droppedClients = Dropped
BY DEF droppedClients, Dropped, Ownership, DescriptorsHeld

(* The listed clients are the listed sockets without the unix socket.      *)
LEMMA ListedCount ==
  ASSUME TypeOK, Bounded, Unix \in socketsList
  PROVE  /\ IsFiniteSet(listedClients)
         /\ H!Cardinality(listedClients) = Cardinality(listedClients)
         /\ Cardinality(listedClients) = Cardinality(socketsList) - 1
         /\ Cardinality(socketsList) \in Nat
<1>1. listedClients = socketsList \ {Unix}
  BY DispatcherAssumption DEF listedClients, TypeOK, Sockets
<1>2. /\ IsFiniteSet(socketsList \ {Unix})
      /\ Cardinality(socketsList \ {Unix}) = Cardinality(socketsList) - 1
      /\ Cardinality(socketsList) \in Nat
  BY FS_RemoveElement, FS_CardinalityType DEF Bounded
<1>3. ASSUME NEW T PROVE H!Cardinality(T) = Cardinality(T)
  BY DEF H!Cardinality, Cardinality, H!IsFiniteSet, IsFiniteSet
<1>. QED
  BY <1>1, <1>2, <1>3

(* A step that lists nobody else and takes or closes no descriptor out of  *)
(* flight is no step of the holding.                                       *)
LEMMA HoldingStutter ==
  ASSUME socketsList' = socketsList,
         \A c \in Clients : srv'[c] = "open" /\ InFlight(c)' = {} <=> srv[c] = "open" /\ InFlight(c) = {}
  PROVE  UNCHANGED <<listedClients, droppedClients>>
BY DEF listedClients, droppedClients

(* A process just connected holds no client (mydisp.cpp:215-233).          *)
LEMMA HoldingInit == Init => H!Init
BY DispatcherAssumption DEF Init, ClientInit, H!Init, listedClients, droppedClients

(* A process that ends leaves no descriptor open (mydisp.cpp:270-273).     *)
LEMMA HoldingEnd ==
  ASSUME NEW how, Stop(how) PROVE H!End
BY DEF Stop, ServerClose, Closed, H!End, listedClients, droppedClients

(* The next round closes what the last one dropped, kept alive until then  *)
(* by the list of reported sockets alone (mydisp.cpp:237).                 *)
LEMMA HoldingClose ==
  ASSUME TypeOK, Ownership, pollSockets \/ PollIdle PROVE H!CloseDropped
<1>1. UNCHANGED <<stream, socketsList>> /\ ServerClose(Dropped)
  BY DEF pollSockets, PollIdle
<1>2. \A c \in Clients : InFlight(c)' = InFlight(c)
  BY <1>1, InFlightSame
<1>3. \A c \in Clients : srv'[c] = "open" => srv[c] = "open" /\ c \notin Dropped
  BY <1>1 DEF ServerClose, Closed
<1>4. droppedClients' = {}
  BY <1>1, <1>2, <1>3, DroppedIs DEF droppedClients
<1>. QED
  BY <1>1, <1>4 DEF H!CloseDropped, listedClients

(* Who is in flight when the head of the stream was taken.                 *)
LEMMA HeadTaken ==
  ASSUME TypeOK, Ownership, 1 \in 1 .. Len(stream), stream' = Tail(stream)
  PROVE  \A d \in Clients : InFlight(d)' # {} <=> (InFlight(d) # {} /\ d # stream[1])
<1>1. stream' = SubSeq(stream, 1 + 1, Len(stream))
  BY DEF TypeOK
<1>2. Len(stream') = Len(stream) - 1 /\ \A i \in 1 .. Len(stream) - 1 : stream'[i] = stream[1 + i]
  BY <1>1, Rest
<1>. QED
  BY <1>2, InFlightRest DEF Ownership, DescriptorsHeld

(* A client taken from the stream enters a list that has room, in a round  *)
(* that has dropped nobody yet; one refused never was held                 *)
(* (mydisp.cpp:115-131, SocketsList.h:56).                                 *)
LEMMA HoldingTake ==
  ASSUME IInv, NEW c \in Clients, UnixClient(c)
  PROVE  H!Take(c) \/ UNCHANGED <<listedClients, droppedClients>> \/ H!End
<1>0. TypeOK /\ Ownership /\ Bookkeeping /\ Bounded /\ TakesFirst
  BY DEF IInv
<1>1. /\ 1 \in 1 .. Len(stream) /\ stream[1] = c /\ 1 \in InFlight(c) /\ Alive /\ revents[Unix] # {}
      /\ Tail(stream) = SubSeq(stream, 1 + 1, Len(stream))
  BY <1>0 DEF UnixClient, UnixMessage, UnixReported, InFlight, TypeOK, Alive
<1>2. srv[c] = "open" /\ c \notin socketsList
  BY <1>0, <1>1 DEF Ownership, DescriptorsHeld
<1>3. ASSUME stream' = Tail(stream)
      PROVE  \A d \in Clients : InFlight(d)' # {} <=> (InFlight(d) # {} /\ d # c)
  BY <1>0, <1>1, <1>3, HeadTaken
<1>4. CASE Admit(c)
  <2>1. /\ socketsList' = socketsList \union {c} /\ UNCHANGED srv /\ stream' = Tail(stream)
        /\ Cardinality(socketsList) # MaxSockets
    BY <1>4 DEF Admit, putSocket, IsFull, clientVars
  <2>2. droppedClients = {}
    BY <1>0, <1>1, DroppedIs DEF TakesFirst, Dropped
  <2>3. H!Cardinality(listedClients) < MaxSockets - 1
    BY <1>0, <1>1, <2>1, ListedCount, DispatcherAssumption DEF Bookkeeping, Bounded
  <2>4. listedClients' = listedClients \union {c} /\ c \notin listedClients
    BY <1>2, <2>1 DEF listedClients
  <2>5. droppedClients' = droppedClients
    <3>1. \A d \in Clients : d \in droppedClients' <=> d \in droppedClients
      BY <1>1, <1>3, <2>1 DEF droppedClients
    <3>. QED
      BY <3>1 DEF droppedClients
  <2>. QED
    BY <2>2, <2>3, <2>4, <2>5 DEF H!Take
<1>5. CASE Refuse(c)
  <2>1. /\ socketsList' = socketsList /\ stream' = Tail(stream)
        /\ \A d \in Clients : srv'[d] = IF d = c THEN "closed" ELSE srv[d]
    BY <1>5 DEF Refuse, ServerClose, Closed
  <2>. QED
    BY <1>1, <1>3, <2>1, HoldingStutter
<1>. QED
  BY <1>4, <1>5, HoldingEnd DEF UnixClient

(* A client that is let go leaves the list and keeps its descriptor, and   *)
(* nobody leaves a full list (SocketsList.h:49-60).                        *)
LEMMA HoldingDrop ==
  ASSUME IInv, NEW c \in Clients, DropHup(c) \/ ReadData(c) \/ ReadEof(c) \/ ReadError(c) \/ WriteOnly(c)
  PROVE  H!Drop(c) \/ UNCHANGED <<listedClients, droppedClients>>
<1>0. TypeOK /\ Ownership /\ Bookkeeping /\ Bounded
  BY DEF IInv
<1>1. c \in socketsList /\ Unix \in socketsList
  BY <1>0 DEF DropHup, ReadData, ReadEof, ReadError, WriteOnly, Readable, ClientReported, Bookkeeping, Alive
<1>2. /\ UNCHANGED <<srv, stream>>
      /\ \/ socketsList' = socketsList
         \/ socketsList' = socketsList \ {c} /\ Cardinality(socketsList) # MaxSockets
  BY DEF DropHup, ReadData, ReadEof, ReadError, WriteOnly, Reply, Remove, Keep, delSocket, IsFull
<1>3. \A d \in Clients : InFlight(d)' = InFlight(d)
  BY <1>2, InFlightSame
<1>4. CASE socketsList' = socketsList
  BY <1>2, <1>3, <1>4, HoldingStutter
<1>5. CASE socketsList' = socketsList \ {c} /\ Cardinality(socketsList) # MaxSockets
  <2>1. H!Cardinality(listedClients) < MaxSockets - 1
    BY <1>0, <1>1, <1>5, ListedCount, DispatcherAssumption DEF Bounded
  <2>2. srv[c] = "open" /\ InFlight(c) = {}
    BY <1>0, <1>1 DEF Ownership, DescriptorsHeld
  <2>3. listedClients' = listedClients \ {c} /\ c \in listedClients
    BY <1>1, <1>5 DEF listedClients
  <2>4. droppedClients' = droppedClients \union {c}
    BY <1>2, <1>3, <1>5, <2>2 DEF droppedClients
  <2>. QED
    BY <2>1, <2>3, <2>4 DEF H!Drop
<1>. QED
  BY <1>2, <1>4, <1>5

(* From a state of the invariant every step of the dispatcher, its parent  *)
(* or its clients is a step of the holding or changes nothing of it.       *)
LEMMA HoldingStep ==
  ASSUME IInv, [Next]_vars PROVE [H!Next]_<<listedClients, droppedClients>>
<1>0. TypeOK /\ Ownership /\ StreamShape
  BY DEF IInv
<1>1. ASSUME UNCHANGED <<srv, stream, socketsList>> PROVE UNCHANGED <<listedClients, droppedClients>>
  BY <1>1, InFlightSame DEF listedClients, droppedClients
<1>2. CASE UNCHANGED vars
  BY <1>1, <1>2 DEF vars, clientVars, dispatcherVars
<1>3. CASE ClientsStep
  BY <1>1, <1>3 DEF ClientsStep, dispatcherVars, ClientStep, ClientRead, ClientSend, ClientQuit, ClientClose, RstArrives
<1>4. CASE ParentClose
  BY <1>1, <1>4 DEF ParentClose, clientVars, dispatcherVars
<1>5. CASE ParentLabel \/ ParentText \/ ParentBye
  <2>1. PICK m \in Messages \ Clients : stream' = Append(stream, m) /\ UNCHANGED <<clientVars, dispatcherVars>>
    BY <1>5, DispatcherAssumption DEF ParentLabel, ParentText, ParentBye, ParentWrites, Messages
  <2>2. \A c \in Clients : InFlight(c)' = InFlight(c)
    BY <1>0, <2>1, InFlightAppend
  <2>. QED
    BY <2>1, <2>2, HoldingStutter DEF clientVars, dispatcherVars
<1>6. ASSUME NEW c \in Clients, ParentPass(c) PROVE UNCHANGED <<listedClients, droppedClients>>
  <2>1. /\ stream' = Append(stream, c) /\ socketsList' = socketsList
        /\ srv[c] = "none" /\ srv' = [srv EXCEPT ![c] = "open"]
    BY <1>0, <1>6 DEF ParentPass, ParentWrites, Connect, Ownership, dispatcherVars
  <2>2. \A d \in Clients : InFlight(d)' = IF c = d THEN InFlight(d) \union {Len(stream) + 1} ELSE InFlight(d)
    BY <1>0, <2>1, InFlightAppend DEF Messages
  <2>. QED
    BY <1>0, <2>1, <2>2, HoldingStutter DEF TypeOK, ClientTypeOK
<1>7. CASE pollSockets \/ PollIdle
  BY <1>0, <1>7, HoldingClose DEF H!Next
<1>8. CASE UnixHangup
  BY <1>8, HoldingEnd DEF UnixHangup, H!Next
<1>9. CASE UnixConfig
  BY <1>1, <1>9 DEF UnixConfig, clientVars
<1>10. CASE UnixOther
  BY <1>1, <1>10, HoldingEnd DEF UnixOther, clientVars, H!Next
<1>11. CASE RecvConfig
  <2>1. CASE Stop("exited")
    BY <2>1, HoldingEnd DEF H!Next
  <2>2. CASE ~Stop("exited")
    <3>1. PICK n \in 1 .. Len(stream) :
            /\ ServerClose({stream[n]} \intersect Clients)
            /\ \A i \in 1 .. n - 1 : stream[i] \notin Clients
            /\ stream' = SubSeq(stream, n + 1, Len(stream))
            /\ UNCHANGED socketsList
      BY <1>11, <2>2 DEF RecvConfig, Joined
    <3>2. Len(stream') = Len(stream) - n /\ \A i \in 1 .. Len(stream) - n : stream'[i] = stream[n + i]
      BY <1>0, <3>1, Rest
    <3>3. \A c \in Clients : InFlight(c)' # {} <=> (InFlight(c) # {} /\ stream[n] # c)
      BY <1>0, <3>1, <3>2, InFlightRest DEF Ownership, DescriptorsHeld
    <3>4. \A c \in Clients : srv'[c] = IF c = stream[n] THEN "closed" ELSE srv[c]
      BY <3>1 DEF ServerClose, Closed
    <3>5. \A c \in Clients : stream[n] = c => InFlight(c) # {}
      BY DEF InFlight
    <3>. QED
      BY <3>1, <3>3, <3>4, <3>5, HoldingStutter
  <2>. QED
    BY <2>1, <2>2
<1>12. ASSUME NEW c \in Clients, UnixClient(c) PROVE [H!Next]_<<listedClients, droppedClients>>
  BY <1>12, HoldingTake DEF H!Next
<1>13. ASSUME NEW c \in Clients, DropHup(c) \/ ReadData(c) \/ ReadEof(c) \/ ReadError(c) \/ WriteOnly(c)
       PROVE  [H!Next]_<<listedClients, droppedClients>>
  BY <1>13, HoldingDrop DEF H!Next
<1>. QED
  BY <1>2, <1>3, <1>4, <1>5, <1>6, <1>7, <1>8, <1>9, <1>10, <1>11, <1>12, <1>13
  DEF Next, DispatcherStep, ParentStep, Terminated

(* The dispatcher implements the holding: one connection enters at a time, *)
(* into a list with room and with nothing left to close, nobody leaves a   *)
(* full list, and what was dropped is closed by the next round, or with    *)
(* the process (mydisp.cpp:237-260, SocketsList.h:43-60).                  *)
THEOREM HoldingImplemented == Spec => HoldsAsPromised
<1>1. IInv /\ [Next]_vars => [H!Next]_<<listedClients, droppedClients>>
  BY HoldingStep
<1>. QED
  BY HoldingInit, Inductive, <1>1, PTL DEF Spec, HoldsAsPromised, H!Spec

(* An invariant of the abstract specification, proved there and carried    *)
(* down: a step of the holding never leaves more held than there are       *)
(* places.                                                                 *)
LEMMA FewStep ==
  ASSUME H!FewHeld, [H!Next]_<<listedClients, droppedClients>> PROVE H!FewHeld'
<1>. DEFINE Held == listedClients \union droppedClients
<1>0. \A T : H!Cardinality(T) = Cardinality(T) /\ (H!IsFiniteSet(T) <=> IsFiniteSet(T))
  BY DEF H!Cardinality, Cardinality, H!IsFiniteSet, IsFiniteSet
<1>1. IsFiniteSet(Held) /\ Cardinality(Held) \in Nat /\ Cardinality(Held) <= MaxSockets - 1
  BY <1>0, FS_CardinalityType DEF H!FewHeld
<1>2. CASE Held' \in SUBSET Held
  <2>1. IsFiniteSet(Held') /\ Cardinality(Held') \in Nat /\ Cardinality(Held') <= Cardinality(Held)
    BY <1>1, <1>2, FS_Subset, FS_CardinalityType
  <2>2. IsFiniteSet(Held') /\ Cardinality(Held') <= MaxSockets - 1
    BY <1>1, <2>1, DispatcherAssumption
  <2>. QED
    BY <1>0, <2>2 DEF H!FewHeld
<1>3. ASSUME NEW c \in Clients, H!Take(c) PROVE H!FewHeld'
  <2>1. Held' = Held \union {c} /\ c \notin Held /\ Held = listedClients
        /\ Cardinality(listedClients) < MaxSockets - 1
    BY <1>0, <1>3 DEF H!Take
  <2>2. IsFiniteSet(Held') /\ Cardinality(Held') = Cardinality(Held) + 1
    BY <1>1, <2>1, FS_AddElement
  <2>3. IsFiniteSet(Held') /\ Cardinality(Held') <= MaxSockets - 1
    <3>1. Cardinality(Held) < MaxSockets - 1
      BY <2>1
    <3>2. Cardinality(Held) \in Nat /\ MaxSockets \in Nat
      BY <1>1, DispatcherAssumption
    <3>. HIDE DEF Held
    <3>3. \A n, m \in Nat : n < m - 1 => n + 1 <= m - 1
      OBVIOUS
    <3>. QED
      BY <2>2, <3>1, <3>2, <3>3
  <2>. QED
    BY <1>0, <2>3 DEF H!FewHeld
<1>. QED
  BY <1>2, <1>3 DEF H!Next, H!CloseDropped, H!End, H!Drop

(* However its clients come, leave and are refused, the dispatcher has at  *)
(* most MaxSockets - 1 of them open, those on their way out included       *)
(* (mydisp.cpp:237, SocketsList.h:56).                                     *)
THEOREM FewDescriptors == Spec => []H!FewHeld
<1>1. H!Init => H!FewHeld
  <2>. SUFFICES ASSUME H!Init PROVE H!FewHeld
    OBVIOUS
  <2>1. \A T : H!Cardinality(T) = Cardinality(T) /\ (H!IsFiniteSet(T) <=> IsFiniteSet(T))
    BY DEF H!Cardinality, Cardinality, H!IsFiniteSet, IsFiniteSet
  <2>2. listedClients \union droppedClients = {}
    BY DEF H!Init
  <2>3. IsFiniteSet({}) /\ Cardinality({}) = 0
    BY FS_EmptySet
  <2>. QED
    BY <2>1, <2>2, <2>3, DispatcherAssumption DEF H!FewHeld
<1>2. H!FewHeld /\ [H!Next]_<<listedClients, droppedClients>> => H!FewHeld'
  BY FewStep
<1>. QED
  BY HoldingImplemented, <1>1, <1>2, PTL DEF HoldsAsPromised, H!Spec

(* A list that has become full stays as it is until the process ends: the  *)
(* general form of what the run BusyIsTemporary shows (SocketsList.h:50,   *)
(* 56).                                                                    *)
THEOREM FullForEver ==
  Spec => [][IsFull(socketsList, MaxSockets) => socketsList' = socketsList \/ ~Alive']_vars
<1>1. ASSUME TypeOK, IsFull(socketsList, MaxSockets), [Next]_vars
      PROVE  socketsList' = socketsList \/ ~Alive'
  <2>1. CASE ParentStep \/ ClientsStep \/ UNCHANGED vars
    BY <2>1, OthersFrame DEF vars, dispatcherVars
  <2>2. ASSUME NEW how \in {"exited", "crashed"}, Stop(how) PROVE ~Alive'
    BY <2>2 DEF Stop, Alive
  <2>3. CASE pollSockets \/ PollIdle \/ UnixHangup \/ UnixConfig \/ RecvConfig \/ UnixOther
    BY <2>2, <2>3 DEF pollSockets, PollIdle, UnixHangup, UnixConfig, RecvConfig, UnixOther
  <2>4. ASSUME NEW c \in Clients, UnixClient(c) PROVE socketsList' = socketsList \/ ~Alive'
    BY <1>1, <2>2, <2>4 DEF UnixClient, Admit, Refuse
  <2>5. ASSUME NEW c \in Clients, DropHup(c) \/ ReadData(c) \/ ReadEof(c) \/ ReadError(c) \/ WriteOnly(c)
        PROVE  socketsList' = socketsList
    BY <1>1, <2>5 DEF DropHup, ReadData, ReadEof, ReadError, WriteOnly, Reply, Remove, Keep, delSocket
  <2>. QED
    BY <1>1, <2>1, <2>3, <2>4, <2>5 DEF Next, DispatcherStep, Terminated
<1>. QED
  BY TypeCorrect, <1>1, PTL DEF Spec

-------------------------------------------------------------------------------
(* How far the loss of a passed client goes (section 5 of the README): the *)
(* recv() of the configuration is the only step that takes one from the    *)
(* stream without an answer (mydisp.cpp:116-129, 132).                     *)
THEOREM PassedAreAnswered == Spec => TakenOrRefused
<1>1. ASSUME IInv, [Next]_vars, NEW c \in Clients, InFlight(c) # {}, InFlight(c)' = {}, Alive', pc # "recv"
      PROVE  \/ c \in socketsList'
             \/ down'[c] # << >> /\ down'[c][Len(down'[c])] = "BUSY"
             \/ cpc[c] = "done"
  <2>0. TypeOK /\ Ownership /\ StreamShape
    BY <1>1 DEF IInv
  <2>1. stream' # stream
    BY <1>1, InFlightSame
  <2>2. ASSUME NEW m \in Messages, stream' = Append(stream, m) PROVE FALSE
    BY <1>1, <2>0, <2>2, InFlightAppend
  <2>3. ASSUME NEW how \in {"exited", "crashed"}, Stop(how) PROVE FALSE
    BY <1>1, <2>3 DEF Stop, Alive
  <2>4. \E d \in Clients : UnixClient(d) /\ (Admit(d) \/ Refuse(d))
    <3>1. CASE ParentStep \/ ClientsStep \/ UNCHANGED vars
      BY <2>1, <2>2, <3>1, OthersFrame DEF vars
    <3>2. CASE pollSockets \/ PollIdle \/ UnixHangup \/ UnixConfig \/ UnixOther
      BY <2>1, <2>3, <3>2 DEF pollSockets, PollIdle, UnixHangup, UnixConfig, UnixOther
    <3>3. CASE RecvConfig
      BY <1>1, <3>3 DEF RecvConfig
    <3>4. ASSUME NEW d \in Clients, DropHup(d) \/ ReadData(d) \/ ReadEof(d) \/ ReadError(d) \/ WriteOnly(d)
          PROVE  FALSE
      BY <2>1, <3>4 DEF DropHup, ReadData, ReadEof, ReadError, WriteOnly, Reply, Remove, Keep
    <3>5. ASSUME NEW d \in Clients, UnixClient(d) PROVE Admit(d) \/ Refuse(d)
      BY <2>3, <3>5 DEF UnixClient
    <3>. QED
      BY <1>1, <3>1, <3>2, <3>3, <3>4, <3>5 DEF Next, DispatcherStep, Terminated
  <2>5. PICK d \in Clients : UnixClient(d) /\ (Admit(d) \/ Refuse(d))
    BY <2>4
  <2>6. 1 \in 1 .. Len(stream) /\ stream[1] = d /\ stream' = Tail(stream)
    BY <2>0, <2>5 DEF UnixClient, UnixMessage, Admit, Refuse, TypeOK
  <2>7. d = c
    BY <1>1, <2>0, <2>6, HeadTaken
  <2>8. CASE Admit(c)
    BY <2>8 DEF Admit, putSocket
  <2>9. CASE Refuse(c) /\ peer[c] = "open"
    <3>1. down'[c] = Append(down[c], "BUSY") /\ down[c] \in Seq(Replies)
      BY <2>0, <2>9 DEF Refuse, TypeOK, ClientTypeOK
    <3>. QED
      BY <3>1, AppendProperties DEF Replies
  <2>10. CASE peer[c] # "open"
    <3>1. srv[c] = "open"
      BY <1>1, <2>0 DEF Ownership, DescriptorsHeld
    <3>2. peer[c] \in Gone
      BY <2>0, <2>10, <3>1 DEF Ownership, Gone, TypeOK, ClientTypeOK
    <3>. QED
      BY <2>0, <3>2 DEF Ownership
  <2>. QED
    BY <2>5, <2>7, <2>8, <2>9, <2>10
<1>2. IInv /\ [Next]_vars =>
        [\A c \in Clients :
           InFlight(c) # {} /\ InFlight(c)' = {} /\ Alive' /\ pc # "recv"
             => c \in socketsList' \/ (down'[c] # << >> /\ down'[c][Len(down'[c])] = "BUSY")
                \/ cpc[c] = "done"]_vars
  <2>. SUFFICES ASSUME IInv, [Next]_vars, NEW c \in Clients,
                       InFlight(c) # {}, InFlight(c)' = {}, Alive', pc # "recv"
                PROVE  \/ c \in socketsList'
                       \/ down'[c] # << >> /\ down'[c][Len(down'[c])] = "BUSY"
                       \/ cpc[c] = "done"
    OBVIOUS
  <2>. QED
    BY <1>1
<1>. QED
  BY Inductive, <1>2, PTL DEF Spec, TakenOrRefused

=============================================================================
