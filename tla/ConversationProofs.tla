-------------------------- MODULE ConversationProofs --------------------------
(***************************************************************************)
(* What each client of the dispatcher gets to see, for any set of clients, *)
(* any number of words they type and any size of the list: Talk of         *)
(* DispatcherInvariant.tla is kept by every step of a dispatcher that      *)
(* satisfies IInv, and Conversation follows.                               *)
(***************************************************************************)
EXTENDS DispatcherProofs

Wellformed(c) == \A i \in 1 .. Len(down[c]) : Before(c, i) \in Follows[down[c][i]]

(* Talk, client by client; the bound on the answers follows from Used.     *)
Sound(c) == Wellformed(c) /\ Heard(c) /\ Asked(c) /\ Used(c)

(* The answers are counted by a natural number.                            *)
LEMMA AnswersType ==
  ASSUME TypeOK, NEW c \in Clients
  PROVE  /\ Answers(c) \in Nat
         /\ IsFiniteSet({i \in 1 .. Len(down[c]) : down[c][i] \in {"ECHO", "BYE"}})
<1>1. Len(down[c]) \in Nat
  BY DEF TypeOK, ClientTypeOK
<1>2. IsFiniteSet(1 .. Len(down[c]))
  BY <1>1, FS_Interval
<1>3. IsFiniteSet({i \in 1 .. Len(down[c]) : down[c][i] \in {"ECHO", "BYE"}})
  BY <1>2, FS_Subset
<1>. QED
  BY <1>3, FS_CardinalityType DEF Answers

(* One reply more: it is the latest, it counts when it is an answer, and   *)
(* it may stand where it stands when it may follow the one before.         *)
LEMMA Speaks ==
  ASSUME TypeOK, NEW c \in Clients, NEW m \in Replies, down'[c] = Append(down[c], m)
  PROVE  /\ Latest(c)' = m
         /\ Answers(c)' = IF m \in {"ECHO", "BYE"} THEN Answers(c) + 1 ELSE Answers(c)
         /\ Wellformed(c) /\ Latest(c) \in Follows[m] => Wellformed(c)'
<1>. DEFINE Counted == {i \in 1 .. Len(down[c]) : down[c][i] \in {"ECHO", "BYE"}}
<1>1. down[c] \in Seq(Replies) /\ Len(down[c]) \in Nat
  BY DEF TypeOK, ClientTypeOK
<1>n. PICK n \in Nat : n = Len(down[c]) + 1
  BY <1>1
<1>2. Len(down'[c]) = n /\ down'[c][n] = m /\ \A i \in 1 .. Len(down[c]) : down'[c][i] = down[c][i]
  BY <1>1, <1>n
<1>3. Latest(c)' = m
  <2>1. down'[c] # << >>
    BY <1>1
  <2>. QED
    BY <1>2, <2>1 DEF Latest
<1>4. Answers(c)' = IF m \in {"ECHO", "BYE"} THEN Answers(c) + 1 ELSE Answers(c)
  <2>1. {i \in 1 .. Len(down'[c]) : down'[c][i] \in {"ECHO", "BYE"}} =
          IF m \in {"ECHO", "BYE"} THEN Counted \union {n} ELSE Counted
    BY <1>1, <1>2, <1>n
  <2>2. n \notin Counted
    BY <1>1, <1>n
  <2>3. IsFiniteSet(Counted)
    BY AnswersType
  <2>4. Cardinality(Counted \union {n}) = Cardinality(Counted) + 1
    BY <2>2, <2>3, FS_AddElement
  <2>5. Answers(c)' = Cardinality(IF m \in {"ECHO", "BYE"} THEN Counted \union {n} ELSE Counted) /\ Answers(c) = Cardinality(Counted)
    BY <2>1 DEF Answers
  <2>. QED
    BY <2>4, <2>5
<1>5. ASSUME Wellformed(c), Latest(c) \in Follows[m] PROVE Wellformed(c)'
  <2>1. ASSUME NEW i \in 1 .. Len(down[c]) PROVE Before(c, i)' \in Follows[down'[c][i]]
    <3>1. Before(c, i)' = Before(c, i)
      <4>1. i # 1 => i - 1 \in 1 .. Len(down[c])
        BY <1>1
      <4>. QED
        BY <1>2, <4>1 DEF Before
    <3>. QED
      BY <1>2, <1>5, <3>1 DEF Wellformed
  <2>2. Before(c, n)' = Latest(c)
    <3>1. CASE down[c] = << >>
      <4>1. n = 1
        BY <1>n, <3>1
      <4>. QED
        BY <3>1, <4>1 DEF Before, Latest
    <3>2. CASE down[c] # << >>
      <4>1. Len(down[c]) \in 1 .. Len(down[c]) /\ n # 1 /\ n - 1 = Len(down[c])
        BY <1>1, <1>n, <3>2
      <4>. QED
        BY <1>2, <3>2, <4>1 DEF Before, Latest
    <3>. QED
      BY <3>1, <3>2
  <2>3. \A i \in 1 .. n : i \in 1 .. Len(down[c]) \/ i = n
    BY <1>1, <1>n
  <2>4. Follows' = Follows
    BY DEF Follows
  <2>. QED
    BY <1>2, <1>5, <2>1, <2>2, <2>3, <2>4 DEF Wellformed
<1>. QED
  BY <1>3, <1>4, <1>5

(* A client nobody writes to, and one that starts or ends.                 *)
LEMMA Silence ==
  ASSUME NEW c, down'[c] = down[c]
  PROVE  Latest(c)' = Latest(c) /\ Answers(c)' = Answers(c) /\ Wellformed(c)' = Wellformed(c)
BY DEF Latest, Answers, Wellformed, Before, Follows

LEMMA Fresh ==
  ASSUME NEW c, down'[c] \in {<< >>, <<"TICKET">>}
  PROVE  Latest(c)' \in {"START", "TICKET"} /\ Answers(c)' = 0 /\ Wellformed(c)'
<1>1. {i \in 1 .. Len(down'[c]) : down'[c][i] \in {"ECHO", "BYE"}} = {}
  OBVIOUS
<1>2. Answers(c)' = 0
  BY <1>1, FS_EmptySet DEF Answers
<1>3. Latest(c)' \in {"START", "TICKET"}
  <2>1. CASE down'[c] = << >>
    BY <2>1 DEF Latest
  <2>2. CASE down'[c] = <<"TICKET">>
    <3>1. down'[c] # << >> /\ Len(down'[c]) = 1 /\ down'[c][1] = "TICKET"
      BY <2>2
    <3>. QED
      BY <3>1 DEF Latest
  <2>. QED
    BY <2>1, <2>2
<1>4. Wellformed(c)'
  BY DEF Wellformed, Before, Follows
<1>. QED
  BY <1>2, <1>3, <1>4

-------------------------------------------------------------------------------
(* The requests for POLLOUT are those for the greeting, and the events a   *)
(* handler has seen are not seen again (mydisp.cpp:128, 177-199,           *)
(* SocketsPoller.cpp:49-87).                                               *)
LEMMA AskedStep ==
  ASSUME IInv, IInv', \A c \in Clients : Asked(c), [Next]_vars, NEW c \in Clients
  PROVE  Asked(c)'
<1>0. /\ TypeOK /\ Bookkeeping /\ Ownership /\ Unix \notin Clients /\ c \in Sockets
      /\ revents \in [Sockets -> SUBSET Events]
      /\ clientStatus \in [Clients -> {"NONE", "HELLO", "ECHO", "BYE"}]
  BY DispatcherAssumption DEF IInv, TypeOK, Sockets
<1>1. ASSUME pollOut' = pollOut, revents'[c] \subseteq revents[c], clientStatus'[c] = clientStatus[c] PROVE Asked(c)'
  BY <1>1 DEF Asked
<1>2. CASE ParentStep \/ ClientsStep \/ UNCHANGED vars
  BY <1>1, <1>2, OthersFrame DEF dispatcherVars, vars
<1>3. ASSUME NEW how, Stop(how) PROVE Asked(c)'
  BY <1>0, <1>3 DEF Stop, Asked, NoEvents
<1>4. CASE pollSockets
  <2>1. pollOut' = {} /\ clientStatus' = clientStatus /\ ("OUT" \in revents'[c] => c \in pollOut)
    BY <1>0, <1>4 DEF pollSockets, Ready
  <2>. QED
    BY <2>1 DEF Asked
<1>5. CASE PollIdle
  BY <1>5 DEF PollIdle, Asked
<1>6. \A s \in Sockets : Handled(s) => revents'[c] \subseteq revents[c]
  BY <1>0 DEF Handled
<1>7. Unix \in Sockets
  BY DEF Sockets
<1>8. CASE UnixHangup \/ UnixConfig \/ UnixOther
  BY <1>1, <1>3, <1>6, <1>7, <1>8 DEF UnixHangup, UnixConfig, UnixOther
<1>9. CASE RecvConfig
  <2>1. Stop("exited") \/ (UNCHANGED <<pollOut, clientStatus>> /\ Handled(Unix))
    BY <1>9 DEF RecvConfig
  <2>. QED
    BY <1>1, <1>3, <1>6, <1>7, <2>1
<1>10. ASSUME NEW d \in Clients, UnixClient(d) PROVE Asked(c)'
  <2>1. CASE Admit(d)
    <3>1. d \notin socketsList
      <4>1. 1 \in InFlight(d)
        BY <1>0, <1>10 DEF UnixClient, UnixMessage, InFlight, TypeOK
      <4>. QED
        BY <1>0, <4>1 DEF Ownership, DescriptorsHeld
    <3>2. revents[d] = {}
      BY <1>0, <3>1 DEF Bookkeeping
    <3>3. revents'[c] = revents[c]
      BY <1>0, <2>1 DEF Admit, Handled
    <3>. QED
      BY <1>0, <2>1, <3>2, <3>3 DEF Admit, Asked
  <2>2. CASE Refuse(d)
    BY <1>1, <1>6, <1>7, <2>2 DEF Refuse
  <2>. QED
    BY <1>3, <1>10, <2>1, <2>2 DEF UnixClient
(* A client is handled: it asks for nothing, and its events are used up.   *)
<1>11. ASSUME NEW d \in Clients, ClientReported(d), Remove(d) \/ Keep(d),
              \A e \in Clients \ {d} : clientStatus'[e] = clientStatus[e]
       PROVE  Asked(c)'
  <2>1. pollOut' = pollOut /\ revents' = [revents EXCEPT ![d] = {}]
    BY <1>11 DEF Remove, Keep, Handled
  <2>2. d \notin pollOut
    BY <1>11 DEF Asked, ClientReported
  <2>. QED
    BY <1>0, <1>11, <2>1, <2>2 DEF Asked
<1>12. ASSUME NEW d \in Clients, DropHup(d) \/ ReadEof(d) \/ ReadError(d) PROVE Asked(c)'
  BY <1>0, <1>11, <1>12 DEF DropHup, ReadEof, ReadError, Readable
<1>13. ASSUME NEW d \in Clients, ReadData(d) \/ WriteOnly(d) PROVE Asked(c)'
  BY <1>0, <1>11, <1>13 DEF ReadData, WriteOnly, Readable, Reply
<1>. QED
  BY <1>2, <1>4, <1>5, <1>8, <1>9, <1>10, <1>12, <1>13 DEF Next, DispatcherStep, Terminated

-------------------------------------------------------------------------------
(* Nobody comes into flight but by being passed (mylsnr.cpp:70-78).        *)
LEMMA FlightStep ==
  ASSUME TypeOK, [Next]_vars, NEW c \in Clients
  PROVE  InFlight(c)' # {} => InFlight(c) # {} \/ ParentPass(c)
<1>0. /\ Len(stream) \in Nat /\ stream \in Seq(Messages) /\ Clients \subseteq Messages
      /\ "CONFIG" \in Messages /\ "OPTIONS" \in Messages /\ "EXIT" \in Messages
  BY DEF TypeOK, Messages
<1>1. ASSUME NEW n \in 0 .. Len(stream), Len(stream') = Len(stream) - n,
             \A i \in 1 .. Len(stream) - n : stream'[i] = stream[n + i],
             InFlight(c)' # {}
      PROVE  InFlight(c) # {}
  <2>1. PICK i \in 1 .. Len(stream) - n : stream'[i] = c
    BY <1>1 DEF InFlight
  <2>2. n + i \in 1 .. Len(stream) /\ stream[n + i] = c
    BY <1>0, <1>1, <2>1
  <2>. QED
    BY <2>2 DEF InFlight
<1>2. CASE stream' = stream
  BY <1>2, InFlightSame
<1>3. CASE stream' = << >>
  BY <1>3, InFlightNone
<1>4. CASE ParentStep
  <2>1. ASSUME NEW m \in Messages, stream' = Append(stream, m), m # c PROVE InFlight(c)' = InFlight(c)
    BY <2>1, InFlightAppend
  <2>2. CASE ParentLabel \/ ParentText \/ ParentBye
    <3>1. PICK m \in {"CONFIG", "OPTIONS", "EXIT"} : stream' = Append(stream, m)
      BY <2>2 DEF ParentLabel, ParentText, ParentBye, ParentWrites
    <3>2. m \in Messages /\ m # c
      BY <1>0, <3>1, DispatcherAssumption
    <3>. QED
      BY <2>1, <3>1, <3>2
  <2>3. ASSUME NEW d \in Clients, ParentPass(d), d # c PROVE InFlight(c)' = InFlight(c)
    BY <1>0, <2>1, <2>3 DEF ParentPass, ParentWrites
  <2>. QED
    BY <1>2, <1>4, <2>2, <2>3 DEF ParentStep, ParentClose
<1>5. ASSUME NEW how, Stop(how) PROVE stream' = << >>
  BY <1>5 DEF Stop
<1>6. CASE RecvConfig
  <2>1. CASE Stop("exited")
    BY <1>3, <1>5, <2>1
  <2>2. CASE ~Stop("exited")
    <3>1. PICK n \in 1 .. Len(stream) : stream' = SubSeq(stream, n + 1, Len(stream))
      BY <1>6, <2>2 DEF RecvConfig
    <3>2. Len(stream') = Len(stream) - n /\ \A i \in 1 .. Len(stream) - n : stream'[i] = stream[n + i]
      BY <1>0, <3>1, SubSeqProperties
    <3>. QED
      BY <1>0, <1>1, <3>2
  <2>. QED
    BY <2>1, <2>2
<1>7. ASSUME NEW d \in Clients, UnixClient(d), Admit(d) \/ Refuse(d)
      PROVE  InFlight(c)' # {} => InFlight(c) # {}
  <2>1. stream' = Tail(stream) /\ stream # << >>
    BY <1>7 DEF UnixClient, UnixMessage, Admit, Refuse
  <2>2. 1 \in 0 .. Len(stream) /\ Len(stream') = Len(stream) - 1
        /\ \A i \in 1 .. Len(stream) - 1 : stream'[i] = stream[1 + i]
    BY <1>0, <2>1
  <2>. QED
    BY <1>1, <2>2
<1>8. ASSUME NEW d \in Clients, UnixClient(d)
      PROVE  InFlight(c)' # {} => InFlight(c) # {} \/ ParentPass(c)
  BY <1>3, <1>5, <1>7, <1>8 DEF UnixClient
<1>9. CASE ClientsStep \/ UNCHANGED vars \/ pollSockets \/ PollIdle \/ UnixConfig
  BY <1>2, <1>9 DEF ClientsStep, vars, pollSockets, PollIdle, UnixConfig
<1>10. CASE UnixHangup \/ UnixOther
  BY <1>2, <1>3, <1>5, <1>10 DEF UnixHangup, UnixOther
<1>11. ASSUME NEW d \in Clients, DropHup(d) \/ ReadData(d) \/ ReadEof(d) \/ ReadError(d) \/ WriteOnly(d)
       PROVE  stream' = stream
  BY <1>11 DEF DropHup, ReadData, ReadEof, ReadError, WriteOnly, Reply, Remove, Keep
<1>. QED
  BY <1>2, <1>4, <1>6, <1>8, <1>9, <1>10, <1>11 DEF Next, DispatcherStep, Terminated

-------------------------------------------------------------------------------
(* A step spends at least k pieces of client c: those written before or in *)
(* it that are neither waiting nor were gone before it.                    *)
Spends(c, k) == Len(up'[c]) + sent[c] + k <= Len(up[c]) + sent'[c]

LEMMA Counts ==
  ASSUME TypeOK, TypeOK', NEW c \in Clients
  PROVE  /\ up[c] \in Seq(Pieces) /\ Len(up[c]) \in Nat /\ sent[c] \in Nat
         /\ Len(up'[c]) \in Nat /\ sent'[c] \in Nat
         /\ Answers(c) \in Nat /\ Answers(c)' \in Nat
<1>1. /\ up[c] \in Seq(Pieces) /\ Len(up[c]) \in Nat /\ sent[c] \in Nat /\ sent'[c] \in Nat
      /\ Len(up'[c]) \in Nat
  BY DEF TypeOK, ClientTypeOK
<1>3. Answers(c) \in Nat
  BY AnswersType
<1>4. Answers(c)' \in Nat
  <2>1. Len(down'[c]) \in Nat
    BY DEF TypeOK, ClientTypeOK
  <2>2. IsFiniteSet(1 .. Len(down'[c]))
    BY <2>1, FS_Interval
  <2>3. IsFiniteSet({i \in 1 .. Len(down'[c]) : down'[c][i] \in {"ECHO", "BYE"}})
    BY <2>2, FS_Subset
  <2>. QED
    BY <2>3, FS_CardinalityType DEF Answers
<1>. QED
  BY <1>1, <1>3, <1>4

(* The bound on the answers is kept when each answer spends a piece.       *)
LEMMA UsedKept ==
  ASSUME TypeOK, TypeOK', NEW c \in Clients, Used(c), NEW k \in Nat,
         Spends(c, k), Answers(c)' <= Answers(c) + k
  PROVE  Used(c)'
<1>1. ASSUME NEW a \in Nat, NEW b \in Nat, NEW u \in Nat, NEW v \in Nat, NEW w \in Nat, NEW x \in Nat,
             a + u <= w, v + w + k <= u + x, b <= a + k
      PROVE  b + v <= x
  BY <1>1
<1>2. /\ Len(up[c]) \in Nat /\ sent[c] \in Nat /\ Answers(c) \in Nat
      /\ Len(up'[c]) \in Nat /\ sent'[c] \in Nat /\ Answers(c)' \in Nat
  BY Counts
<1>3. Answers(c) + Len(up[c]) <= sent[c]
  BY DEF Used
<1>4. Len(up'[c]) + sent[c] + k <= Len(up[c]) + sent'[c]
  BY DEF Spends
<1>5. Answers(c)' + Len(up'[c]) <= sent'[c]
  BY ONLY <1>1, <1>2, <1>3, <1>4, Answers(c)' <= Answers(c) + k
<1>. QED
  BY <1>5 DEF Used

LEMMA SpendsAll ==
  ASSUME TypeOK, TypeOK', NEW c \in Clients, NEW k \in Nat, sent'[c] = sent[c],
         Len(up'[c]) + k <= Len(up[c])
  PROVE  Spends(c, k)
<1>1. ASSUME NEW u \in Nat, NEW v \in Nat, NEW w \in Nat, NEW x \in Nat, v + k <= u, w <= x
      PROVE  v + w + k <= u + x
  BY <1>1
<1>2. Len(up[c]) \in Nat /\ sent[c] \in Nat /\ Len(up'[c]) \in Nat /\ sent'[c] \in Nat
  BY Counts
<1>3. sent[c] <= sent'[c]
  BY Counts
<1>4. Len(up'[c]) + sent[c] + k <= Len(up[c]) + sent'[c]
  BY ONLY <1>1, <1>2, <1>3, Len(up'[c]) + k <= Len(up[c])
<1>. QED
  BY <1>4 DEF Spends

-------------------------------------------------------------------------------
(* What a step is to one client c.                                         *)

(* Nothing: it stays where it is, or leaves, with its status.              *)
Quiet(c) ==
  /\ down'[c] = down[c] /\ Spends(c, 0)
  /\ peer'[c] = "open" => /\ peer[c] = "open"
                          /\ clientStatus'[c] = clientStatus[c]
                          /\ c \in socketsList' => c \in socketsList

(* It enters the list.                                                     *)
Admitted(c) ==
  /\ down'[c] = down[c] /\ Spends(c, 0) /\ peer'[c] = peer[c]
  /\ InFlight(c) # {} /\ clientStatus'[c] = "HELLO" /\ c \in socketsList'

(* It has just connected, or it has ended, or it never was there.          *)
Silent(c) ==
  /\ down'[c] \in {<< >>, <<"TICKET">>} /\ Spends(c, 0)
  /\ peer'[c] = "open" => c \notin socketsList'

(* It is refused.                                                          *)
Refused(c) ==
  /\ peer[c] = "open" /\ InFlight(c) # {}
  /\ down'[c] = Append(down[c], "BUSY") /\ Spends(c, 0) /\ peer'[c] # "open"

(* It gets the reply m, and an answer spends a piece.                      *)
Answered(c, m) ==
  /\ peer[c] = "open" /\ c \in socketsList
  /\ m = "BYE" \/ m = clientStatus[c]
  /\ down'[c] = Append(down[c], m)
  /\ clientStatus'[c] = IF m = "HELLO" THEN "ECHO" ELSE m
  /\ Spends(c, IF m = "HELLO" THEN 0 ELSE 1)

Experienced(c) ==
  Quiet(c) \/ Admitted(c) \/ Silent(c) \/ Refused(c) \/ \E m \in {"HELLO", "ECHO", "BYE"} : Answered(c, m)

(* Nothing that concerns c changes.                                        *)
LEMMA Untouched ==
  ASSUME TypeOK, TypeOK', NEW c \in Clients, sent' = sent,
         up'[c] = up[c], down'[c] = down[c], peer'[c] = peer[c],
         clientStatus'[c] = clientStatus[c], c \in socketsList' => c \in socketsList
  PROVE  Experienced(c)
<1>1. Spends(c, 0)
  BY Counts, SpendsAll
<1>. QED
  BY <1>1 DEF Experienced, Quiet

(* The pieces a closed connection held are lost, others stay.              *)
LEMMA ClosedSpends ==
  ASSUME TypeOK, TypeOK', NEW T \in SUBSET Clients, ServerClose(T), sent' = sent, NEW c \in Clients
  PROVE  Spends(c, 0) /\ (peer'[c] = "open" => peer[c] = "open" /\ c \notin T)
<1>1. up'[c] = IF c \in T THEN << >> ELSE up[c]
  BY DEF ServerClose, Emptied
<1>2. Len(up[c]) \in Nat /\ Len(up'[c]) + 0 <= Len(up[c])
  BY <1>1, Counts
<1>3. Spends(c, 0)
  BY <1>2, SpendsAll
<1>4. peer'[c] = IF c \in T THEN "none" ELSE peer[c]
  BY DEF ServerClose, Forgotten
<1>. QED
  BY <1>3, <1>4

(* The client's own steps (myclnt.cpp:36-54).                              *)
LEMMA ClientsExperience ==
  ASSUME IInv, IInv', ClientsStep, NEW c \in Clients PROVE Experienced(c)
<1>0. TypeOK /\ TypeOK' /\ ClientTypeOK /\ Ownership'
  BY DEF IInv, TypeOK
<1>1. PICK d \in Clients : ClientStep(d) /\ UNCHANGED <<dispatcherVars, stream, parent>>
  BY DEF ClientsStep
<1>2. UNCHANGED <<clientStatus, socketsList>>
  BY <1>1 DEF dispatcherVars
<1>3. CASE ClientRead(d) \/ RstArrives(d)
  <2>1. UNCHANGED <<down, sent, up>> /\ (peer'[c] = "open" => peer[c] = "open")
    BY <1>0, <1>3 DEF ClientRead, RstArrives, TypeOK, ClientTypeOK
  <2>2. Spends(c, 0)
    BY <1>0, <2>1, Counts, SpendsAll
  <2>. QED
    BY <1>2, <2>1, <2>2 DEF Experienced, Quiet
<1>4. CASE (ClientSend(d) \/ ClientQuit(d)) /\ c # d
  <2>1. down' = down /\ peer' = peer
    BY <1>4 DEF ClientSend, ClientQuit
  <2>2. sent'[c] = sent[c] /\ up'[c] = up[c]
    BY <1>0, <1>4, WordWritten, WritesEffect
  <2>3. Spends(c, 0)
    BY <1>0, <2>2, Counts, SpendsAll
  <2>. QED
    BY <1>2, <2>1, <2>3 DEF Experienced, Quiet
<1>5. CASE (ClientSend(d) \/ ClientQuit(d)) /\ c = d
  <2>1. down' = down /\ peer' = peer
    BY <1>5 DEF ClientSend, ClientQuit
  <2>2. PICK word \in Seq(Pieces) : Writes(c, word)
    BY <1>0, <1>5, WordWritten
  <2>3. Len(up'[c]) <= Len(up[c]) + Len(word) /\ sent'[c] = sent[c] + Len(word)
    BY <1>0, <2>2, WritesEffect
  <2>4. PICK n \in Nat : n = Len(word)
    OBVIOUS
  <2>5. ASSUME NEW u \in Nat, NEW v \in Nat, NEW w \in Nat, NEW x \in Nat, v <= u + n, x = w + n
        PROVE  v + w + 0 <= u + x
    BY <2>5
  <2>6. Len(up[c]) \in Nat /\ sent[c] \in Nat /\ Len(up'[c]) \in Nat /\ sent'[c] \in Nat
    BY <1>0, Counts
  <2>7. Len(up'[c]) + sent[c] + 0 <= Len(up[c]) + sent'[c]
    BY ONLY <2>3, <2>4, <2>5, <2>6
  <2>8. Spends(c, 0)
    BY <2>7 DEF Spends
  <2>. QED
    BY <1>2, <2>1, <2>8 DEF Experienced, Quiet
<1>6. CASE ClientClose(d)
  <2>1. UNCHANGED <<sent, up>>
    BY <1>6 DEF ClientClose
  <2>2. Spends(c, 0)
    BY <1>0, <2>1, Counts, SpendsAll
  <2>3. CASE c = d
    <3>1. down'[c] = << >> /\ cpc'[c] = "done" /\ srv' = srv
      BY <1>0, <1>6, <2>3 DEF ClientClose, TypeOK, ClientTypeOK
    <3>2. peer'[c] # "open"
      BY <1>0, <3>1 DEF Ownership, Gone
    <3>. QED
      BY <2>2, <3>1, <3>2 DEF Experienced, Silent
  <2>4. CASE c # d
    <3>1. down'[c] = down[c] /\ peer'[c] = peer[c]
      BY <1>0, <1>6, <2>4 DEF ClientClose, TypeOK, ClientTypeOK
    <3>. QED
      BY <1>2, <2>2, <3>1 DEF Experienced, Quiet
  <2>. QED
    BY <2>3, <2>4
<1>. QED
  BY <1>1, <1>3, <1>4, <1>5, <1>6 DEF ClientStep
(* The parent's steps (mylsnr.cpp:33-78).                                  *)
LEMMA ParentExperiences ==
  ASSUME IInv, IInv', ParentStep, NEW c \in Clients PROVE Experienced(c)
<1>0. TypeOK /\ TypeOK' /\ Ownership
  BY DEF IInv
<1>1. CASE \E d \in Clients : ParentPass(d)
  <2>1. PICK d \in Clients : ParentPass(d)
    BY <1>1
  <2>2. UNCHANGED <<sent, up, clientStatus, socketsList>>
    BY <2>1 DEF ParentPass, Connect, dispatcherVars
  <2>3. CASE c = d
    <3>1. cpc[c] = "idle" /\ cpc'[c] = "read" /\ down'[c] \in {<< >>, <<"TICKET">>}
      BY <1>0, <2>1, <2>3 DEF ParentPass, Connect, TypeOK, ClientTypeOK
    <3>2. c \notin socketsList
      BY <1>0, <3>1 DEF Ownership, DescriptorsHeld
    <3>3. Spends(c, 0)
      BY <1>0, <2>2, <3>1, Counts, SpendsAll
    <3>. QED
      BY <2>2, <3>1, <3>2, <3>3 DEF Experienced, Silent
  <2>4. CASE c # d
    <3>1. down'[c] = down[c] /\ peer'[c] = peer[c] /\ cpc'[c] = cpc[c]
      BY <1>0, <2>1, <2>4 DEF ParentPass, Connect, TypeOK, ClientTypeOK
    <3>2. Spends(c, 0)
      BY <1>0, <2>2, <3>1, Counts, SpendsAll
    <3>. QED
      BY <2>2, <3>1, <3>2 DEF Experienced, Quiet
  <2>. QED
    BY <2>3, <2>4
<1>2. CASE ParentLabel \/ ParentText \/ ParentBye \/ ParentClose
  <2>1. UNCHANGED <<clientVars, dispatcherVars>>
    BY <1>2 DEF ParentLabel, ParentText, ParentBye, ParentClose
  <2>. QED
    BY <1>0, <2>1, Untouched DEF clientVars, dispatcherVars
<1>. QED
  BY <1>1, <1>2 DEF ParentStep

(* Connections are closed, some or none, and nobody is written to.         *)
LEMMA ClosingExperience ==
  ASSUME TypeOK, TypeOK', NEW T \in SUBSET Clients, ServerClose(T), UNCHANGED <<cpc, sent, down>>,
         NEW c \in Clients, c \notin T => clientStatus'[c] = clientStatus[c],
         c \in socketsList' => c \in socketsList
  PROVE  Experienced(c)
<1>1. Spends(c, 0) /\ (peer'[c] = "open" => peer[c] = "open" /\ c \notin T)
  BY ClosedSpends
<1>. QED
  BY <1>1 DEF Experienced, Quiet

LEMMA StopExperience ==
  ASSUME TypeOK, TypeOK', Ownership, NEW how, Stop(how), NEW c \in Clients PROVE Experienced(c)
<1>1. PICK T \in SUBSET Clients : T = {d \in Clients : srv[d] = "open"}
  OBVIOUS
<1>2. ServerClose(T) /\ UNCHANGED <<cpc, sent, down>> /\ socketsList' = {}
  BY <1>1 DEF Stop
<1>3. Spends(c, 0) /\ (peer'[c] = "open" => peer[c] = "open" /\ c \notin T)
  BY <1>2, ClosedSpends
<1>4. peer'[c] # "open"
  BY <1>1, <1>3 DEF Ownership
<1>. QED
  BY <1>2, <1>3, <1>4 DEF Experienced, Quiet

(* The unix socket and poll() (mydisp.cpp:86-146, SocketsPoller.cpp:40-87). *)
LEMMA UnixExperience ==
  ASSUME IInv, IInv', NEW c \in Clients,
         \/ pollSockets \/ PollIdle \/ UnixHangup \/ UnixConfig \/ RecvConfig \/ UnixOther
         \/ \E d \in Clients : UnixClient(d)
  PROVE  Experienced(c)
<1>0. TypeOK /\ TypeOK' /\ Ownership /\ Unix \notin Clients
  BY DispatcherAssumption DEF IInv
<1>1. CASE pollSockets \/ PollIdle
  <2>1. ServerClose(Dropped) /\ UNCHANGED <<cpc, sent, down, clientStatus, socketsList>>
    BY <1>1 DEF pollSockets, PollIdle
  <2>2. Dropped \in SUBSET Clients
    BY DEF Dropped
  <2>. QED
    BY <1>0, <2>1, <2>2, ClosingExperience
<1>2. ASSUME NEW how, Stop(how) PROVE Experienced(c)
  BY <1>0, <1>2, StopExperience
<1>3. CASE UnixHangup
  BY <1>2, <1>3 DEF UnixHangup
<1>4. CASE UnixConfig
  <2>1. UNCHANGED <<clientVars, clientStatus, socketsList>>
    BY <1>4 DEF UnixConfig
  <2>. QED
    BY <1>0, <2>1, Untouched DEF clientVars
<1>5. CASE UnixOther
  <2>1. Stop("exited") \/ UNCHANGED <<clientVars, clientStatus, socketsList>>
    BY <1>5 DEF UnixOther
  <2>. QED
    BY <1>0, <1>2, <2>1, Untouched DEF clientVars
<1>6. CASE RecvConfig
  <2>1. CASE Stop("exited")
    BY <1>2, <2>1
  <2>2. CASE ~Stop("exited")
    <3>1. PICK n \in 1 .. Len(stream) : ServerClose({stream[n]} \intersect Clients)
                                      /\ UNCHANGED <<cpc, sent, down, clientStatus, socketsList>>
      BY <1>6, <2>2 DEF RecvConfig
    <3>2. {stream[n]} \intersect Clients \in SUBSET Clients
      OBVIOUS
    <3>. QED
      BY <1>0, <3>1, <3>2, ClosingExperience
  <2>. QED
    BY <2>1, <2>2
<1>7. ASSUME NEW d \in Clients, UnixClient(d) PROVE Experienced(c)
  <2>1. InFlight(d) # {}
    <3>1. 1 \in InFlight(d)
      BY <1>0, <1>7 DEF UnixClient, UnixMessage, InFlight, TypeOK
    <3>. QED
      BY <3>1
  <2>2. CASE Admit(d)
    <3>1. UNCHANGED clientVars /\ socketsList' = socketsList \union {d}
          /\ clientStatus' = [clientStatus EXCEPT ![d] = "HELLO"]
      BY <2>2 DEF Admit, putSocket
    <3>2. Spends(c, 0)
      BY <1>0, <3>1, Counts, SpendsAll DEF clientVars
    <3>3. CASE c = d
      BY <1>0, <2>1, <3>1, <3>2, <3>3 DEF Experienced, Admitted, clientVars, TypeOK
    <3>4. CASE c # d
      BY <1>0, <3>1, <3>2, <3>4 DEF Experienced, Quiet, clientVars, TypeOK
    <3>. QED
      BY <3>3, <3>4
  <2>3. CASE Refuse(d)
    <3>1. ServerClose({d}) /\ UNCHANGED <<cpc, sent, clientStatus, socketsList>>
          /\ down' = IF peer[d] = "open" THEN [down EXCEPT ![d] = Append(@, "BUSY")] ELSE down
      BY <2>3 DEF Refuse
    <3>2. Spends(c, 0) /\ (peer'[c] = "open" => peer[c] = "open" /\ c # d)
      BY <1>0, <3>1, ClosedSpends
    <3>3. CASE c = d /\ peer[d] = "open"
      BY <1>0, <2>1, <3>1, <3>2, <3>3 DEF Experienced, Refused, TypeOK, ClientTypeOK
    <3>4. CASE ~(c = d /\ peer[d] = "open")
      BY <1>0, <3>1, <3>2, <3>4 DEF Experienced, Quiet, TypeOK, ClientTypeOK
    <3>. QED
      BY <3>3, <3>4
  <2>. QED
    BY <1>2, <1>7, <2>2, <2>3 DEF UnixClient
<1>. QED
  BY <1>1, <1>3, <1>4, <1>5, <1>6, <1>7
(* The handler of a client writes its reply (mydisp.cpp:167-199).          *)
LEMMA ReplyExperience ==
  ASSUME IInv, IInv', NEW d \in Clients, ClientReported(d), NEW m, Reply(d, m),
         m = "BYE" \/ m = clientStatus[d], Spends(d, IF m = "HELLO" THEN 0 ELSE 1)
  PROVE  Experienced(d)
<1>0. TypeOK /\ TypeOK' /\ Bookkeeping
  BY DEF IInv
<1>1. d \in socketsList /\ clientStatus[d] \in {"HELLO", "ECHO", "BYE"}
  BY <1>0 DEF Bookkeeping, ClientReported, TypeOK
<1>2. clientStatus'[d] = IF m = "HELLO" THEN "ECHO" ELSE m
  BY <1>0 DEF Reply, TypeOK
<1>3. CASE peer[d] = "open"
  <2>1. down'[d] = Append(down[d], m)
    BY <1>0, <1>3 DEF Reply, ServerWrite, TypeOK, ClientTypeOK
  <2>2. Answered(d, m) /\ m \in {"HELLO", "ECHO", "BYE"}
    BY <1>1, <1>2, <1>3, <2>1 DEF Answered
  <2>. QED
    BY <2>2 DEF Experienced
<1>4. CASE peer[d] # "open"
  <2>1. down' = down /\ peer'[d] # "open"
    BY <1>0, <1>4 DEF Reply, ServerWrite, TypeOK, ClientTypeOK
  <2>2. Spends(d, 0)
    <3>1. ASSUME NEW u \in Nat, NEW v \in Nat, NEW w \in Nat, NEW x \in Nat, NEW k \in Nat, v + w + k <= u + x
          PROVE  v + w + 0 <= u + x
      BY <3>1
    <3>2. Len(up[d]) \in Nat /\ sent[d] \in Nat /\ Len(up'[d]) \in Nat /\ sent'[d] \in Nat
      BY <1>0, Counts
    <3>3. PICK k \in Nat : k = IF m = "HELLO" THEN 0 ELSE 1
      OBVIOUS
    <3>4. Len(up'[d]) + sent[d] + k <= Len(up[d]) + sent'[d]
      BY <3>3 DEF Spends
    <3>5. Len(up'[d]) + sent[d] + 0 <= Len(up[d]) + sent'[d]
      BY ONLY <3>1, <3>2, <3>3, <3>4
    <3>. QED
      BY <3>5 DEF Spends
  <2>. QED
    BY <2>1, <2>2 DEF Experienced, Quiet
<1>. QED
  BY <1>3, <1>4

(* The handler of a client (mydisp.cpp:148-199).                           *)
LEMMA HandlerExperience ==
  ASSUME IInv, IInv', \A e \in Clients : Asked(e), NEW c \in Clients, NEW d \in Clients,
         DropHup(d) \/ ReadData(d) \/ ReadEof(d) \/ ReadError(d) \/ WriteOnly(d)
  PROVE  Experienced(c)
<1>0. TypeOK /\ TypeOK' /\ Ownership /\ ClientReported(d)
  BY DEF IInv, DropHup, ReadData, ReadEof, ReadError, WriteOnly, Readable
<1>1. Remove(d) \/ Keep(d)
  BY DEF DropHup, ReadData, ReadEof, ReadError, WriteOnly, Reply
<1>2. UNCHANGED <<cpc, sent>> /\ socketsList' \subseteq socketsList
  BY <1>1 DEF Remove, Keep, delSocket
<1>3. CASE c # d
  <2>1. down'[c] = down[c] /\ peer'[c] = peer[c] /\ up'[c] = up[c] /\ clientStatus'[c] = clientStatus[c]
    <3>0. c \in Clients /\ DOMAIN up = Clients /\ DOMAIN down = Clients /\ DOMAIN peer = Clients /\ DOMAIN clientStatus = Clients
      BY <1>0 DEF TypeOK, ClientTypeOK
    <3>1. ASSUME NEW m, Reply(d, m)
          PROVE  down'[c] = down[c] /\ peer'[c] = peer[c] /\ clientStatus'[c] = clientStatus[c]
      BY <1>3, <3>0, <3>1 DEF Reply, ServerWrite
    <3>2. CASE DropHup(d) \/ ReadError(d)
      BY <3>2 DEF DropHup, ReadError
    <3>3. CASE ReadEof(d)
      BY <1>3, <3>0, <3>3 DEF ReadEof
    <3>4. CASE WriteOnly(d)
      BY <3>1, <3>4 DEF WriteOnly
    <3>5. CASE ReadData(d)
      <4>1. up'[c] = up[c]
        BY <1>3, <3>0, <3>5 DEF ReadData
      <4>2. \E m : Reply(d, m)
        BY <3>5 DEF ReadData
      <4>. QED
        BY <3>1, <4>1, <4>2
    <3>. QED
      BY <3>2, <3>3, <3>4, <3>5
  <2>. QED
    BY <1>0, <1>2, <2>1, Untouched
<1>4. CASE c = d /\ (DropHup(d) \/ ReadEof(d) \/ ReadError(d))
  <2>1. UNCHANGED <<up, down>> /\ peer[d] # "open" /\ peer'[d] # "open"
    BY <1>0, <1>4 DEF DropHup, ReadEof, ReadError, Ownership, TypeOK, ClientTypeOK
  <2>2. Spends(c, 0)
    BY <1>0, <1>2, <2>1, Counts, SpendsAll
  <2>. QED
    BY <1>4, <2>1, <2>2 DEF Experienced, Quiet
<1>5. CASE c = d /\ WriteOnly(d)
  <2>1. clientStatus[d] = "HELLO" /\ Reply(d, "HELLO") /\ up' = up
    BY <1>5 DEF WriteOnly, Asked
  <2>2. Spends(d, 0)
    BY <1>0, <1>2, <2>1, Counts, SpendsAll
  <2>. QED
    BY <1>0, <1>5, <2>1, <2>2, ReplyExperience
<1>6. CASE c = d /\ ReadData(d)
  <2>1. PICK m : Reply(d, m) /\ (m = "BYE" \/ m = clientStatus[d])
    BY <1>6 DEF ReadData
  <2>2. PICK n \in 1 .. Len(up[d]) : up' = [up EXCEPT ![d] = SubSeq(@, n + 1, Len(@))]
    BY <1>6 DEF ReadData
  <2>3. up'[d] = SubSeq(up[d], n + 1, Len(up[d])) /\ up[d] \in Seq(Pieces) /\ Len(up[d]) \in Nat
    BY <1>0, <2>2, Counts DEF TypeOK, ClientTypeOK
  <2>4. Len(up'[d]) + 1 <= Len(up[d])
    BY <2>3, SubSeqProperties
  <2>5. PICK k \in {0, 1} : k = IF m = "HELLO" THEN 0 ELSE 1
    OBVIOUS
  <2>6. Len(up'[d]) + k <= Len(up[d])
    <3>1. Len(up'[d]) \in Nat /\ Len(up[d]) \in Nat
      BY <1>0, Counts
    <3>. QED
      BY <2>4, <3>1
  <2>7. Spends(d, k)
    BY <1>0, <1>2, <2>6, SpendsAll
  <2>. QED
    BY <1>0, <1>6, <2>1, <2>5, <2>7, ReplyExperience
<1>. QED
  BY <1>3, <1>4, <1>5, <1>6

LEMMA EachExperience ==
  ASSUME IInv, IInv', \A e \in Clients : Asked(e), [Next]_vars, NEW c \in Clients
  PROVE  Experienced(c)
<1>1. CASE ParentStep \/ ClientsStep
  BY <1>1, ParentExperiences, ClientsExperience
<1>2. CASE UNCHANGED vars
  BY <1>2, Untouched DEF IInv, vars, clientVars, dispatcherVars
<1>3. CASE DispatcherStep
  <2>1. CASE \E d \in Clients : DropHup(d) \/ ReadData(d) \/ ReadEof(d) \/ ReadError(d) \/ WriteOnly(d)
    BY <2>1, HandlerExperience
  <2>2. CASE \/ pollSockets \/ PollIdle \/ UnixHangup \/ UnixConfig \/ RecvConfig \/ UnixOther
             \/ \E d \in Clients : UnixClient(d)
    BY <2>2, UnixExperience
  <2>. QED
    BY <1>3, <2>1, <2>2 DEF DispatcherStep
<1>. QED
  BY <1>1, <1>2, <1>3 DEF Next, Terminated

-------------------------------------------------------------------------------
(* What each kind of step leaves of the client's part of Talk.             *)
LEMMA SoundKept ==
  ASSUME IInv, IInv', [Next]_vars, NEW c \in Clients, Sound(c), Asked(c)', Experienced(c)
  PROVE  Sound(c)'
<1>0. /\ TypeOK /\ TypeOK' /\ Ownership /\ Ownership'
      /\ Follows = Follows'
      /\ InFlight(c) # {} => c \notin socketsList
      /\ InFlight(c)' # {} => c \notin socketsList'
  BY DEF IInv, Ownership, DescriptorsHeld, Follows
<1>a. Answers(c) \in Nat
  BY <1>0, AnswersType
<1>1. InFlight(c)' # {} => InFlight(c) # {} \/ ParentPass(c)
  BY <1>0, FlightStep
<1>2. ParentPass(c) => down'[c] \in {<< >>, <<"TICKET">>} /\ peer'[c] = "open" /\ cpc[c] = "idle"
  BY <1>0 DEF ParentPass, Connect, TypeOK, ClientTypeOK
<1>3. ParentPass(c) => peer[c] # "open"
  BY <1>0, <1>2 DEF Ownership
<1>4. ASSUME NEW k \in Nat, Spends(c, k), Answers(c)' <= Answers(c) + k PROVE Used(c)'
  BY <1>0, <1>4, UsedKept DEF Sound
<1>5. ASSUME down'[c] = down[c], Spends(c, 0), Heard(c)' PROVE Sound(c)'
  <2>1. Answers(c)' = Answers(c) /\ Wellformed(c)' = Wellformed(c) /\ Answers(c) \in Nat
    BY <1>0, <1>5, Silence, AnswersType
  <2>2. Used(c)'
    BY <1>4, <1>5, <2>1
  <2>. QED
    BY <1>5, <2>1, <2>2 DEF Sound
<1>6. CASE Quiet(c)
  <2>1. Latest(c)' = Latest(c)
    BY <1>6, Silence DEF Quiet
  <2>2. Heard(c)'
    BY <1>0, <1>1, <1>3, <1>6, <2>1 DEF Quiet, Heard, Sound
  <2>. QED
    BY <1>5, <1>6, <2>2 DEF Quiet
<1>7. CASE Admitted(c)
  <2>1. Latest(c)' = Latest(c)
    BY <1>7, Silence DEF Admitted
  <2>2. peer[c] = "open" => Latest(c) \in Follows["HELLO"]
    BY <1>7 DEF Admitted, Heard, Sound
  <2>3. Heard(c)'
    BY <1>0, <1>7, <2>1, <2>2 DEF Admitted, Heard, Follows
  <2>. QED
    BY <1>5, <1>7, <2>3 DEF Admitted
<1>8. CASE Silent(c)
  <2>1. Latest(c)' \in {"START", "TICKET"} /\ Answers(c)' = 0 /\ Wellformed(c)'
    BY <1>8, Fresh DEF Silent
  <2>2. Heard(c)'
    BY <1>0, <1>8, <2>1 DEF Silent, Heard, Follows
  <2>3. Answers(c)' <= Answers(c) + 0
    BY <1>a, <2>1
  <2>4. Used(c)'
    BY <1>4, <1>8, <2>3 DEF Silent
  <2>. QED
    BY <2>1, <2>2, <2>4 DEF Sound
<1>9. CASE Refused(c)
  <2>1. Latest(c) \in Follows["BUSY"]
    BY <1>9 DEF Refused, Heard, Sound, Follows
  <2>2. Answers(c)' = Answers(c) /\ Wellformed(c)'
    BY <1>0, <1>9, <2>1, Speaks DEF Refused, Sound, Replies
  <2>3. Heard(c)'
    BY <1>9 DEF Refused, Heard
  <2>4. Answers(c)' <= Answers(c) + 0
    BY <1>a, <2>2
  <2>5. Used(c)'
    BY <1>4, <1>9, <2>4 DEF Refused
  <2>. QED
    BY <2>2, <2>3, <2>5 DEF Sound
<1>10. ASSUME NEW m \in {"HELLO", "ECHO", "BYE"}, Answered(c, m) PROVE Sound(c)'
  <2>1. Latest(c) \in Replies \union {"START"}
    BY <1>0 DEF TypeOK, ClientTypeOK, Latest
  <2>2. Latest(c) \in Follows[m]
    BY <1>10, <2>1 DEF Answered, Heard, Sound, Follows, Replies
  <2>3. /\ Latest(c)' = m /\ Wellformed(c)'
        /\ Answers(c)' = IF m \in {"ECHO", "BYE"} THEN Answers(c) + 1 ELSE Answers(c)
    BY <1>0, <1>10, <2>2, Speaks DEF Answered, Sound, Replies
  <2>4. Heard(c)'
    <3>1. InFlight(c)' = {}
      BY <1>0, <1>1, <1>3, <1>10 DEF Answered
    <3>. QED
      BY <1>0, <1>10, <2>3, <3>1 DEF Answered, Heard, Follows
  <2>5. PICK k \in {0, 1} : k = IF m = "HELLO" THEN 0 ELSE 1
    OBVIOUS
  <2>6. Spends(c, k) /\ Answers(c)' <= Answers(c) + k
    BY <1>a, <1>10, <2>3, <2>5 DEF Answered
  <2>7. Used(c)'
    BY <1>4, <2>6
  <2>. QED
    BY <2>3, <2>4, <2>7 DEF Sound
<1>. QED
  BY <1>6, <1>7, <1>8, <1>9, <1>10 DEF Experienced

-------------------------------------------------------------------------------
LEMMA TalkStep == IInv /\ IInv' /\ Talk /\ [Next]_vars => Talk'
<1>. SUFFICES ASSUME IInv, IInv', Talk, [Next]_vars PROVE Talk'
  OBVIOUS
<1>1. \A c \in Clients : Asked(c)
  BY DEF Talk
<1>2. ASSUME NEW c \in Clients PROVE Sound(c)'
  <2>1. Asked(c)'
    BY <1>1, AskedStep
  <2>2. Experienced(c)
    BY <1>1, EachExperience
  <2>3. Sound(c)
    BY DEF Talk, Conversation, Sound, Wellformed
  <2>. QED
    BY <2>1, <2>2, <2>3, SoundKept
<1>3. ASSUME NEW c \in Clients PROVE Answers(c)' <= sent'[c]
  <2>1. Answers(c)' + Len(up'[c]) <= sent'[c]
    BY <1>2 DEF Sound, Used
  <2>2. TypeOK /\ TypeOK'
    BY DEF IInv
  <2>3. Len(up'[c]) \in Nat /\ Answers(c)' \in Nat /\ sent'[c] \in Nat
    BY <2>2, Counts
  <2>4. ASSUME NEW a \in Nat, NEW u \in Nat, NEW s \in Nat, a + u <= s PROVE a <= s
    BY <2>4
  <2>. QED
    BY ONLY <2>1, <2>3, <2>4
<1>4. Follows' = Follows
  BY DEF Follows
<1>5. Conversation'
  BY <1>2, <1>3, <1>4 DEF Conversation, Sound, Wellformed
<1>. QED
  BY <1>2, <1>5 DEF Talk, Sound

LEMMA TalkInit == Init => Talk
<1>. SUFFICES ASSUME Init, NEW c \in Clients
              PROVE  Wellformed(c) /\ Answers(c) <= sent[c] /\ Heard(c) /\ Asked(c) /\ Used(c)
  BY DEF Talk, Conversation, Wellformed
<1>1. down[c] = << >> /\ up[c] = << >> /\ sent[c] = 0 /\ cpc[c] = "idle" /\ peer[c] = "none"
      /\ pollOut = {} /\ revents[c] = {}
  BY DEF Init, ClientInit, NoEvents, Sockets
<1>2. {i \in 1 .. Len(down[c]) : down[c][i] \in {"ECHO", "BYE"}} = {}
  BY <1>1
<1>3. Answers(c) = 0
  BY <1>2, FS_EmptySet DEF Answers
<1>. QED
  BY <1>1, <1>3 DEF Wellformed, Heard, Asked, Used

(* What each client sees agrees with the status the dispatcher keeps of it *)
(* and with what it wrote (mydisp.cpp:125-128, 148-199).                   *)
THEOREM Talking == Spec => []Talk
<1>1. Init => Talk
  BY TalkInit
<1>2. IInv /\ IInv' /\ Talk /\ [Next]_vars => Talk'
  BY TalkStep
<1>3. Spec => []IInv
  BY Inductive
<1>. QED
  BY <1>1, <1>2, <1>3, PTL DEF Spec

(* A client is refused at once, or greeted first, then answered, never     *)
(* twice for the same bytes however its words are cut, and hears nothing   *)
(* after its dismissal but dismissals.                                     *)
THEOREM ConversationHolds == Spec => []Conversation
<1>1. Talk => Conversation
  BY DEF Talk
<1>. QED
  BY <1>1, Talking, PTL
=============================================================================
