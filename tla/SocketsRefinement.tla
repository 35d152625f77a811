--------------------------- MODULE SocketsRefinement ---------------------------
(***************************************************************************)
(* The Socket objects of a dispatcher implement Holding.tla, as the        *)
(* dispatcher itself does (DispatcherRefinement.tla): owners, numbers and  *)
(* the ordered list keep the same promise as a set of clients.             *)
(***************************************************************************)
EXTENDS SocketsProofs

(* A connection is held exactly as long as one of its Sockets lives.       *)
LEMMA HeldIs ==
  ASSUME TypeOK, NumbersTrue, OneOwner, NEW c \in Conns
  PROVE  c \in held <=> TcpSocket(c) \in Living \/ SslSocket(c) \in Living
<1>1. ASSUME c \in held PROVE TcpSocket(c) \in Living \/ SslSocket(c) \in Living
  <2>1. PICK n \in Numbers : table[n] = c
    BY <1>1 DEF held
  <2>2. n \in Open
    BY <2>1, SocketsAssumption DEF Open
  <2>3. PICK s \in Living : descriptor[s] = n
    BY <2>2 DEF OneOwner
  <2>4. s \in Objects /\ s[1] = c
    BY <2>1, <2>3 DEF TypeOK, NumbersTrue
  <2>5. s # UnixSocket
    BY <2>4, ObjectFacts, SocketsAssumption
  <2>6. s = TcpSocket(c) \/ s = SslSocket(c)
    BY <2>4, <2>5, ObjectFacts DEF Objects
  <2>. QED
    BY <2>3, <2>6
<1>2. ASSUME NEW s \in Living, s[1] = c PROVE c \in held
  BY <1>2 DEF held, TypeOK, NumbersTrue
<1>. QED
  BY <1>1, <1>2, ObjectFacts

(* What was dropped is what the list of reported sockets alone still owns  *)
(* (mydisp.cpp:237), before a step and after it.                           *)
ReportedOnly == {c \in Conns : /\ SslSocket(c) \in ToSet(reSocketsList)
                               /\ SslSocket(c) \notin ToSet(socketsList)}

LEMMA DroppedIs == ASSUME IInv, ReceivesFirst PROVE droppedConns = ReportedOnly
<1>. SUFFICES ASSUME NEW c \in Conns
              PROVE  c \in droppedConns <=> /\ SslSocket(c) \in ToSet(reSocketsList)
                                            /\ SslSocket(c) \notin ToSet(socketsList)
  BY DEF droppedConns, held, ReportedOnly
<1>1. c \in droppedConns <=> /\ TcpSocket(c) \in Living \/ SslSocket(c) \in Living
                             /\ SslSocket(c) \notin ToSet(socketsList)
                             /\ TcpSocket(c) \notin local /\ SslSocket(c) \notin local
  BY HeldIs DEF IInv, droppedConns, listedConns, receiving
<1>2. TcpSocket(c) \in Living => TcpSocket(c) \in local
  BY ObjectFacts DEF IInv, NoneLost, Listed
<1>3. SslSocket(c) \in Living <=> \/ SslSocket(c) \in ToSet(socketsList) \union ToSet(reSocketsList)
                                  \/ SslSocket(c) \in local
  BY ObjectFacts DEF IInv, NoneLost
<1>4. local # {} => ToSet(reSocketsList) \subseteq ToSet(socketsList)
  BY DEF IInv, TypeOK, Stage, ReceivesFirst, Receiving
<1>. QED
  BY <1>1, <1>2, <1>3, <1>4

LEMMA DroppedIsNext == (IInv /\ ReceivesFirst => droppedConns = ReportedOnly)'
<1>1. IInv /\ ReceivesFirst => droppedConns = ReportedOnly
  BY DroppedIs
<1>. QED
  BY <1>1, PTL

(* The list is the unix socket and each listed connection once.            *)
LEMMA ListedCount ==
  ASSUME IInv
  PROVE  H!Cardinality(listedConns) = Len(socketsList) - 1
<1>. DEFINE n == Len(socketsList)
            f == [i \in 2 .. n |-> socketsList[i][1]]
<1>1. n \in Nat /\ n >= 1 /\ socketsList[1] = UnixSocket /\ socketsList \in Seq(Living)
  BY DEF IInv, TypeOK, UnixFirst, Place
<1>2. ASSUME NEW i \in 2 .. n
      PROVE  socketsList[i][1] \in listedConns /\ socketsList[i] = SslSocket(socketsList[i][1])
  <2>1. i \in 1 .. n /\ 1 \in 1 .. n /\ i # 1
    BY <1>1
  <2>2. socketsList[i] # UnixSocket
    BY <1>1, <2>1 DEF IInv, NumbersTrue
  <2>3. socketsList[i] \in ToSet(socketsList)
    BY <2>1, ListsLive DEF IInv
  <2>4. PICK c \in Conns : socketsList[i] = SslSocket(c)
    BY <2>2, <2>3 DEF IInv, Listed
  <2>. QED
    BY <2>3, <2>4, ObjectFacts DEF listedConns
<1>3. \A i, j \in 2 .. n : socketsList[i][1] = socketsList[j][1] => i = j
  <2>1. \A i, j \in 2 .. n : socketsList[i][1] = socketsList[j][1] => socketsList[i] = socketsList[j]
    BY <1>2
  <2>2. \A i \in 2 .. n : i \in 1 .. n
    BY <1>1
  <2>. QED
    BY <2>1, <2>2 DEF IInv, NumbersTrue
<1>4. \A c \in listedConns : \E i \in 2 .. n : socketsList[i][1] = c
  <2>. SUFFICES ASSUME NEW c \in listedConns PROVE \E i \in 2 .. n : socketsList[i][1] = c
    OBVIOUS
  <2>1. c \in Conns /\ SslSocket(c) \in ToSet(socketsList)
    BY DEF listedConns
  <2>2. PICK i \in 1 .. n : socketsList[i] = SslSocket(c)
    BY <2>1, ListsLive DEF IInv
  <2>3. i # 1 /\ socketsList[i][1] = c
    BY <1>1, <2>1, <2>2, ObjectFacts
  <2>4. i \in 2 .. n
    BY <1>1, <2>3
  <2>. QED
    BY <2>3, <2>4
<1>5. f \in Bijection(2 .. n, listedConns)
  BY <1>2, <1>3, <1>4 DEF Bijection, Injection, Surjection, IsInjective
<1>6. IsFiniteSet(2 .. n) /\ Cardinality(2 .. n) = n - 1
  <2>0. n \in Nat /\ n >= 1
    BY <1>1
  <2>. HIDE DEF n, f
  <2>1. n \in Int /\ 2 \in Int /\ (IF 2 > n THEN 0 ELSE n - 2 + 1) = n - 1
    BY ONLY <2>0
  <2>. QED
    BY ONLY <2>1, FS_Interval
<1>7. Cardinality(listedConns) = n - 1
  <2>. HIDE DEF n, f
  <2>. QED
    BY ONLY <1>5, <1>6, FS_Bijection DEF ExistsBijection
<1>8. \A T : H!Cardinality(T) = Cardinality(T)
  BY DEF H!Cardinality, Cardinality, H!IsFiniteSet, IsFiniteSet
<1>. QED
  BY <1>7, <1>8

(* A dispatcher that has just connected holds the unix socket only.        *)
LEMMA HoldingInit == Init => H!Init
<1>. SUFFICES ASSUME Init PROVE H!Init
  OBVIOUS
<1>1. IInv /\ ReceivesFirst
  BY InitIInv, InitJInv DEF JInv
<1>2. socketsList = <<UnixSocket>> /\ reSocketsList = << >>
  BY DEF Init
<1>3. ToSet(socketsList) = {UnixSocket} /\ ToSet(reSocketsList) = {}
  BY <1>2 DEF ToSet
<1>4. listedConns = {}
  BY <1>3, ObjectFacts DEF listedConns
<1>5. droppedConns = {}
  BY <1>1, <1>3, DroppedIs DEF ReportedOnly
<1>. QED
  BY <1>4, <1>5 DEF H!Init

(* A step that leaves the lists alone is no step of the holding: a         *)
(* connection received, wrapped or about to be put is not held yet, one    *)
(* refused never was.                                                      *)
LEMMA HoldingStutter ==
  ASSUME IInv, IInv', ReceivesFirst, ReceivesFirst', UNCHANGED <<socketsList, reSocketsList>>
  PROVE  UNCHANGED <<listedConns, droppedConns>>
<1>1. ToSet(socketsList)' = ToSet(socketsList) /\ ToSet(reSocketsList)' = ToSet(reSocketsList)
  OBVIOUS
<1>2. listedConns' = listedConns
  BY <1>1 DEF listedConns
<1>3. droppedConns' = droppedConns
  BY <1>1, DroppedIs, DroppedIsNext DEF ReportedOnly
<1>. QED
  BY <1>2, <1>3

(* While a round has not dropped anybody nothing waits to be closed.       *)
LEMMA NothingDropped ==
  ASSUME IInv, ReceivesFirst, pc = "poll" \/ Receiving
  PROVE  droppedConns = {}
BY DroppedIs DEF ReceivesFirst, ReportedOnly

LEMMA NothingDroppedNext ==
  ASSUME IInv', ReceivesFirst', (pc = "poll" \/ Receiving)'
  PROVE  droppedConns' = {}
BY DroppedIsNext DEF ReceivesFirst, ReportedOnly

(* The list of reported sockets is emptied: what it alone owned is closed  *)
(* (mydisp.cpp:237).                                                       *)
LEMMA HoldingClose ==
  ASSUME IInv, IInv', ReceivesFirst', Clear
  PROVE  H!CloseDropped
<1>1. pc' = "poll" /\ socketsList' = socketsList
  BY DEF Clear
<1>2. droppedConns' = {}
  BY <1>1, NothingDroppedNext
<1>. QED
  BY <1>1, <1>2 DEF H!CloseDropped, listedConns

(* The received connection enters a list that has room, or is refused and  *)
(* was never held (SocketsList.h:56).                                      *)
LEMMA HoldingTake ==
  ASSUME IInv, IInv', ReceivesFirst, ReceivesFirst', NEW c \in Conns, Put(c)
  PROVE  H!Take(c) \/ UNCHANGED <<listedConns, droppedConns>>
<1>1. /\ pc = "put" /\ pc' = "return" /\ SslSocket(c) \in local
      /\ socketsList' = putSocket(socketsList, SslSocket(c)) /\ reSocketsList' = reSocketsList
  BY DEF Put
<1>2. CASE socketsList' = socketsList
  BY <1>1, <1>2, HoldingStutter
<1>3. CASE socketsList' # socketsList
  <2>1. socketsList' = Append(socketsList, SslSocket(c)) /\ Len(socketsList) # MaxSockets
    BY <1>1, <1>3 DEF putSocket
  <2>2. socketsList \in Seq(Living) /\ Len(socketsList) \in Nat /\ SslSocket(c) \in Living
        /\ Len(socketsList) <= MaxSockets
    BY <1>1 DEF IInv, TypeOK
  <2>3. ToSet(socketsList') = ToSet(socketsList) \union {SslSocket(c)}
    <3>1. /\ socketsList' \in Seq(Living) /\ Len(socketsList') = Len(socketsList) + 1
          /\ \A i \in 1 .. Len(socketsList) : socketsList'[i] = socketsList[i]
          /\ socketsList'[Len(socketsList) + 1] = SslSocket(c)
      BY <2>1, <2>2, AppendProperties
    <3>. QED
      BY <2>2, <3>1 DEF ToSet
  <2>4. SslSocket(c) \notin ToSet(socketsList)
    BY <1>1 DEF IInv, Listed
  <2>5. listedConns' = listedConns \union {c} /\ c \notin listedConns
    BY <2>3, <2>4, ObjectFacts DEF listedConns
  <2>6. droppedConns = {} /\ droppedConns' = {}
    BY <1>1, NothingDropped, NothingDroppedNext DEF Receiving
  <2>7. H!Cardinality(listedConns) < MaxSockets - 1
    BY <2>1, <2>2, ListedCount, SocketsAssumption
  <2>. QED
    BY <2>5, <2>6, <2>7 DEF H!Take
<1>. QED
  BY <1>2, <1>3

(* The connection whose handler failed leaves the list, unless that is     *)
(* full, and the list of reported sockets keeps its Socket alive           *)
(* (SocketsList.h:49-54).                                                  *)
LEMMA HoldingDrop ==
  ASSUME IInv, IInv', ReceivesFirst, ReceivesFirst', NEW c \in Conns, Drop(c)
  PROVE  H!Drop(c) \/ UNCHANGED <<listedConns, droppedConns>>
<1>1. /\ pc = "round" /\ reSocketsList' = reSocketsList /\ descriptor' = descriptor
      /\ reSocketsList[at] = SslSocket(c) /\ socketsList' = delSocket(socketsList, SslSocket(c))
  BY DEF Drop, Handling
<1>2. CASE socketsList' = socketsList
  BY <1>1, <1>2, HoldingStutter
<1>3. CASE socketsList' # socketsList
  <2>1. PICK f \in 1 .. Len(socketsList) :
          /\ descriptor[socketsList[f]] = descriptor[SslSocket(c)]
          /\ socketsList' \in Seq(Living) /\ Len(socketsList') = Len(socketsList) - 1
          /\ \A i \in 1 .. Len(socketsList') :
               socketsList'[i] = socketsList[IF i < f THEN i ELSE i + 1]
          /\ Len(socketsList) # MaxSockets
    BY <1>1, <1>3, DelFacts DEF IInv
  <2>2. Len(socketsList) \in Nat /\ Len(socketsList) <= MaxSockets
    BY DEF IInv, TypeOK
  <2>3. SslSocket(c) \in ToSet(reSocketsList) /\ SslSocket(c) \in Living
    BY <1>1, ListsLive DEF IInv, TypeOK, Place
  <2>4. socketsList[f] \in ToSet(socketsList) /\ socketsList[f] \in Living
    BY ListsLive DEF IInv
  <2>5. socketsList[f] = SslSocket(c)
    BY <1>1, <2>1, <2>3, <2>4, OneEach DEF IInv, Stage
  <2>6. SslSocket(c) \notin ToSet(socketsList')
    <3>. SUFFICES ASSUME NEW i \in 1 .. Len(socketsList'), socketsList'[i] = SslSocket(c) PROVE FALSE
      BY <2>1 DEF ToSet
    <3>. DEFINE k == IF i < f THEN i ELSE i + 1
    <3>1. k \in 1 .. Len(socketsList) /\ k # f /\ socketsList[k] = socketsList[f]
      BY <2>1, <2>2, <2>5
    <3>. HIDE DEF k
    <3>. QED
      BY <3>1 DEF IInv, NumbersTrue
  <2>7. ToSet(socketsList') = ToSet(socketsList) \ {SslSocket(c)}
    BY <2>6, DropTakesOne
  <2>8. listedConns' = listedConns \ {c} /\ c \in listedConns
    BY <2>4, <2>5, <2>7, ObjectFacts DEF listedConns
  <2>9. droppedConns' = droppedConns \union {c}
    <3>1. ToSet(reSocketsList') = ToSet(reSocketsList)
      BY <1>1
    <3>. QED
      BY <2>3, <2>7, <3>1, DroppedIs, DroppedIsNext, ObjectFacts DEF ReportedOnly
  <2>10. H!Cardinality(listedConns) < MaxSockets - 1
    BY <2>1, <2>2, ListedCount, SocketsAssumption
  <2>. QED
    BY <2>8, <2>9, <2>10 DEF H!Drop
<1>. QED
  BY <1>2, <1>3

(* From a state of the invariants every step of the objects is a step of   *)
(* the holding or changes nothing of it.                                   *)
LEMMA HoldingStep ==
  ASSUME IInv, IInv', ReceivesFirst, ReceivesFirst', [Next]_vars
  PROVE  [H!Next]_<<listedConns, droppedConns>>
<1>1. CASE UNCHANGED vars
  BY <1>1, HoldingStutter DEF vars
<1>2. CASE Clear
  BY <1>2, HoldingClose DEF H!Next
<1>3. CASE pollSockets
  <2>1. pc = "poll" /\ pc' = "poll" /\ socketsList' = socketsList
    BY <1>3 DEF pollSockets
  <2>2. droppedConns = {} /\ droppedConns' = {}
    BY <2>1, NothingDropped, NothingDroppedNext
  <2>. QED
    BY <2>1, <2>2 DEF listedConns
<1>4. CASE Polled \/ ReceiveOther \/ Return \/ \E c \in Conns : Receive(c) \/ Wrap(c) \/ Move(c) \/ Keep(c)
  BY <1>4, HoldingStutter DEF Polled, ReceiveOther, Return, Receive, Wrap, Wrapped, Move, Keep, Release
<1>5. ASSUME NEW c \in Conns, Put(c) PROVE [H!Next]_<<listedConns, droppedConns>>
  BY <1>5, HoldingTake DEF H!Next
<1>6. ASSUME NEW c \in Conns, Drop(c) PROVE [H!Next]_<<listedConns, droppedConns>>
  BY <1>6, HoldingDrop DEF H!Next
<1>. QED
  BY <1>1, <1>2, <1>3, <1>4, <1>5, <1>6 DEF Next

(* The objects implement the holding: what the dispatcher does in one step *)
(* with a client, shared pointers, a wrapped descriptor and a list         *)
(* searched by number do in several, and the promise is the same           *)
(* (SocketsList.h:43-64, SslSocket.cpp:25-37, mydisp.cpp:237).             *)
THEOREM SocketsHold == Spec => HoldsAsPromised
<1>1. IInv /\ IInv' /\ JInv /\ JInv' /\ [Next]_vars => [H!Next]_<<listedConns, droppedConns>>
  BY HoldingStep DEF JInv
<1>. QED
  BY HoldingInit, SocketsInductive, SocketsFew, <1>1, PTL DEF Spec, HoldsAsPromised, H!Spec
=============================================================================
