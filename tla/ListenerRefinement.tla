-------------------------- MODULE ListenerRefinement --------------------------
(***************************************************************************)
(* The listener implements Links.tla, for any set of dispatchers, any      *)
(* number of clients and of restarts: it is the parent that Dispatcher.tla *)
(* assumes.                                                                *)
(***************************************************************************)
EXTENDS ListenerProofs

(* The clients among what was said are counted by a natural number.        *)
LEMMA ClientsType ==
  ASSUME NEW words \in Seq(Words) PROVE clientsIn(words) \in Nat
<1>1. Len(words) \in Nat
  OBVIOUS
<1>2. IsFiniteSet(1 .. Len(words))
  BY <1>1, FS_Interval
<1>3. IsFiniteSet({i \in 1 .. Len(words) : words[i] = "client"})
  BY <1>2, FS_Subset
<1>. QED
  BY <1>3, FS_CardinalityType DEF clientsIn

(* One more word counts when it is a client.                               *)
LEMMA ClientsGrow ==
  ASSUME NEW words \in Seq(Words), NEW w \in Words
  PROVE  clientsIn(Append(words, w)) = IF w = "client" THEN clientsIn(words) + 1 ELSE clientsIn(words)
<1>. DEFINE S == {i \in 1 .. Len(words) : words[i] = "client"}
            more == Append(words, w)
            n == Len(words) + 1
<1>1. Len(words) \in Nat
  OBVIOUS
<1>2. Len(more) = n /\ more[n] = w /\ \A i \in 1 .. Len(words) : more[i] = words[i]
  OBVIOUS
<1>3. {i \in 1 .. Len(more) : more[i] = "client"} = IF w = "client" THEN S \union {n} ELSE S
  BY <1>1, <1>2
<1>4. n \notin S
  BY <1>1
<1>5. IsFiniteSet(S)
  <2>1. IsFiniteSet(1 .. Len(words))
    BY <1>1, FS_Interval
  <2>. QED
    BY <2>1, FS_Subset
<1>6. Cardinality(S \union {n}) = Cardinality(S) + 1
  BY <1>4, <1>5, FS_AddElement
<1>7. clientsIn(more) = Cardinality(IF w = "client" THEN S \union {n} ELSE S) /\ clientsIn(words) = Cardinality(S)
  BY <1>3 DEF clientsIn
<1>. QED
  BY <1>6, <1>7

(* Where the end of a link is: what the number of words and the last say.  *)
LEMMA PlaceCases ==
  ASSUME NEW words \in Seq(Words)
  PROVE  /\ placeOf(TRUE, words) = "closed"
         /\ Len(words) = 0 => placeOf(FALSE, words) = "label"
         /\ Len(words) = 1 => placeOf(FALSE, words) = "text"
         /\ Len(words) >= 2 /\ words[Len(words)] = "EXIT" => placeOf(FALSE, words) = "bye"
         /\ Len(words) >= 2 /\ words[Len(words)] # "EXIT" => placeOf(FALSE, words) = "serve"
         /\ placeOf(FALSE, words) \in {"label", "text", "serve", "bye"}
<1>1. Len(words) \in Nat
  OBVIOUS
<1>2. \A n \in Nat : n >= 2 => n # 0 /\ n # 1
  OBVIOUS
<1>3. placeOf(TRUE, words) = "closed"
  BY DEF placeOf
<1>4. Len(words) = 0 => placeOf(FALSE, words) = "label"
  BY DEF placeOf
<1>5. Len(words) = 1 => placeOf(FALSE, words) = "text"
  BY DEF placeOf
<1>6. Len(words) # 0 /\ Len(words) # 1 =>
        placeOf(FALSE, words) = IF words[Len(words)] = "EXIT" THEN "bye" ELSE "serve"
  BY DEF placeOf
<1>. QED
  BY <1>1, <1>2, <1>3, <1>4, <1>5, <1>6

(* One word more, or none: who is told what in a step, and where his link  *)
(* was (mylsnr.cpp:71-77, 93-112, 138-147).                                *)
Tells(d, w) == said'[d] = Append(said[d], w)

LEMMA Saying ==
  ASSUME IInv, [Next]_vars, NEW d \in Dispatchers
  PROVE  \/ said'[d] = said[d]
         \/ said[d] = << >> /\ Tells(d, "CONFIG") /\ link'[d] = "accepted" /\ d \in links' /\ link[d] = "waiting"
            /\ target[d] = life /\ Running
         \/ said[d] = <<"CONFIG">> /\ Tells(d, "OPTIONS") /\ d \in links /\ d \in links' /\ link' = link
         \/ Len(said[d]) >= 2 /\ Tells(d, "client") /\ d \in links /\ said[d][Len(said[d])] # "EXIT"
         \/ Len(said[d]) >= 2 /\ Tells(d, "EXIT") /\ d \in links /\ said[d][Len(said[d])] # "EXIT"
<1>0. TypeOK /\ Told /\ LinkContract /\ links \subseteq Dispatchers
  BY DEF IInv, TypeOK, RoundType
<1>1. ASSUME NEW e \in Dispatchers, AcceptDispatcher(e), said'[d] # said[d]
      PROVE  said[d] = << >> /\ Tells(d, "CONFIG") /\ link'[d] = "accepted" /\ d \in links' /\ link[d] = "waiting"
             /\ target[d] = life /\ Running
  <2>1. said' = Tell({e}, "CONFIG") /\ links' = links \union {e} /\ link' = [link EXCEPT ![e] = "accepted"]
    BY <1>1 DEF AcceptDispatcher
  <2>2. d = e
    BY <1>1, <2>1 DEF Tell
  <2>3. link[d] = "waiting" /\ target[d] = life /\ lpc = "run"
    BY <1>1, <2>2 DEF AcceptDispatcher, Waiting
  <2>4. said'[d] = Append(said[d], "CONFIG")
    BY <2>1, <2>2 DEF Tell
  <2>5. link'[d] = "accepted"
    BY <1>0, <2>1, <2>2 DEF TypeOK, LinkType
  <2>6. said[d] = << >>
    BY <1>0, <2>3 DEF Told
  <2>. QED
    BY <2>1, <2>2, <2>3, <2>4, <2>5, <2>6 DEF Tells, Running, Ended
<1>2. ASSUME NEW e \in Dispatchers, SendText(e), said'[d] # said[d]
      PROVE  said[d] = <<"CONFIG">> /\ Tells(d, "OPTIONS") /\ d \in links /\ d \in links' /\ link' = link
  <2>1. said' = Tell({e}, "OPTIONS") /\ links' = links /\ e \in links /\ said[e] = <<"CONFIG">> /\ link' = link
    BY <1>2 DEF SendText
  <2>2. d = e
    BY <1>2, <2>1 DEF Tell
  <2>. QED
    BY <2>1, <2>2 DEF Tell, Tells
<1>3. ASSUME NEW w, NEW next, TellAll(w, next), lpc # "text", lpc # "linger", said'[d] # said[d]
      PROVE  Len(said[d]) >= 2 /\ Tells(d, w) /\ d \in links /\ said[d][Len(said[d])] # "EXIT"
  <2>1. PICK D \in SUBSET links : said' = Tell(D, w)
    <3>1. CASE links \subseteq Live
      BY <1>3, <3>1 DEF TellAll
    <3>2. CASE ~(links \subseteq Live)
      BY <1>3, <3>2 DEF TellAll
    <3>. QED
      BY <3>1, <3>2
  <2>2. d \in D /\ said'[d] = Append(said[d], w)
    BY <1>3, <2>1 DEF Tell
  <2>. QED
    BY <1>0, <1>3, <2>2 DEF Told, LinkContract, Tells
<1>4. CASE Goodbye \/ HandshakeOk
  <2>1. lpc # "text" /\ lpc # "linger" /\ (TellAll("EXIT", "linger") \/ TellAll("client", "run"))
    BY <1>4 DEF Goodbye, HandshakeOk, RoundOver
  <2>. QED
    BY <1>3, <2>1
<1>5. CASE said' = said
  BY <1>5
<1>6. CASE \/ UNCHANGED vars \/ Start \/ Boot \/ Sigint \/ Loop \/ pollSockets \/ PollInterrupted \/ PollTimeout
           \/ HandshakeFail \/ AcceptClient \/ ClientArrives \/ Linger \/ Terminate \/ HandshakeKills
  BY <1>5, <1>6 DEF vars, Start, Boot, Sigint, Loop, pollSockets, PollInterrupted, PollTimeout, HandshakeFail,
                    AcceptClient, ClientArrives, Linger, Terminate, HandshakeKills, linkVars
<1>7. ASSUME NEW e \in Dispatchers, DropLink(e) \/ DispatcherStep(e) \/ Die(e) PROVE said' = said
  BY <1>7 DEF DropLink, DispatcherStep, Die, Connect, ConnectFails, Obey, DispatcherEnds, linkVars
<1>. QED
  BY <1>1, <1>2, <1>4, <1>5, <1>6, <1>7 DEF Next, ListenerStep, HandshakeStep, Terminated

-------------------------------------------------------------------------------
(* Processes and sockets after a step: a dispatcher that lives has lived   *)
(* or was forked with copies of the listed links; a link that is listed    *)
(* was, or waited for the running listener.                                *)
LEMMA Processes ==
  ASSUME IInv, [Next]_vars
  PROVE  \/ /\ Live' \subseteq Live /\ born' = born /\ copies' = copies
            /\ (Running' => Running \/ life' = life + 1) /\ (Running /\ Running' => life' = life)
         \/ \E x \in Dispatchers :
              /\ dstate[x] = "free" /\ Running /\ life' = life
              /\ Live' \subseteq Live \union {x}
              /\ born' = [born EXCEPT ![x] = life]
              /\ copies' = [e \in Dispatchers |-> IF e \in links THEN copies[e] \union {x} ELSE copies[e]]
<1>0. TypeOK
  BY DEF IInv
<1>1. ASSUME UNCHANGED <<dstate, born, copies, life>>, Running' => Running
      PROVE  /\ Live' \subseteq Live /\ born' = born /\ copies' = copies
             /\ (Running' => Running \/ life' = life + 1) /\ (Running /\ Running' => life' = life)
  BY <1>1 DEF Live
<1>2. CASE Start
  BY <1>2 DEF Start, Live
<1>3. ASSUME NEW ds, create_dispatcher(ds), Running, life' = life, {d \in Dispatchers : ds[d] = "alive"} \subseteq Live,
             ds \in [Dispatchers -> {"free", "alive", "zombie", "reaped"}]
      PROVE  \/ /\ Live' \subseteq Live /\ born' = born /\ copies' = copies
                /\ (Running' => Running \/ life' = life + 1) /\ (Running /\ Running' => life' = life)
             \/ \E x \in Dispatchers :
                  /\ dstate[x] = "free" /\ Running /\ life' = life
                  /\ Live' \subseteq Live \union {x}
                  /\ born' = [born EXCEPT ![x] = life]
                  /\ copies' = [e \in Dispatchers |-> IF e \in links THEN copies[e] \union {x} ELSE copies[e]]
  <2>1. CASE dstate' = ds /\ UNCHANGED <<born, copies>>
    BY <1>3, <2>1 DEF Live
  <2>2. ASSUME NEW x \in Dispatchers, dstate[x] = "free", dstate' = [ds EXCEPT ![x] = "alive"],
               born' = [born EXCEPT ![x] = life],
               copies' = [e \in Dispatchers |-> IF e \in links THEN copies[e] \union {x} ELSE copies[e]]
        PROVE  Live' \subseteq Live \union {x}
    BY <1>3, <2>2 DEF Live
  <2>. QED
    BY <1>3, <2>1, <2>2 DEF create_dispatcher
<1>4. CASE Boot
  <2>1. create_dispatcher(dstate) /\ Running /\ life' = life
    BY <1>4 DEF Boot, Running, Ended
  <2>. QED
    BY <1>0, <1>3, <2>1 DEF Live, TypeOK, ProcessType
<1>5. CASE PollTimeout
  <2>1. Running /\ life' = life
    BY <1>5 DEF PollTimeout, Running, Ended, listenVars
  <2>2. CASE Zombies = {}
    BY <1>1, <1>5, <2>1, <2>2 DEF PollTimeout, processVars
  <2>3. CASE Zombies # {}
    <3>1. PICK z \in Zombies : create_dispatcher([dstate EXCEPT ![z] = "reaped"])
      BY <1>5, <2>3 DEF PollTimeout
    <3>2. [dstate EXCEPT ![z] = "reaped"] \in [Dispatchers -> {"free", "alive", "zombie", "reaped"}]
      BY <1>0 DEF TypeOK, ProcessType
    <3>3. {d \in Dispatchers : [dstate EXCEPT ![z] = "reaped"][d] = "alive"} \subseteq Live
      BY <1>0 DEF TypeOK, ProcessType, Live
    <3>. QED
      BY <1>3, <2>1, <3>1, <3>2, <3>3
  <2>. QED
    BY <2>2, <2>3
<1>6. ASSUME NEW d \in Dispatchers, DispatcherEnds(d)
      PROVE  /\ Live' \subseteq Live /\ born' = born /\ copies' = copies
             /\ (Running' => Running \/ life' = life + 1) /\ (Running /\ Running' => life' = life)
  BY <1>0, <1>6 DEF DispatcherEnds, Live, TypeOK, ProcessType, listenVars, roundVars, Running
<1>7. CASE Sigint \/ Loop \/ pollSockets \/ PollInterrupted \/ HandshakeFail \/ AcceptClient \/ ClientArrives
  <2>1. Running /\ UNCHANGED <<dstate, born, copies, life>>
    BY <1>7 DEF Sigint, Loop, RoundOver, pollSockets, PollInterrupted, HandshakeFail, AcceptClient, ClientArrives,
                Running, Ended, listenVars, processVars
  <2>. QED
    BY <1>1, <2>1
<1>8. CASE Linger \/ Terminate \/ HandshakeKills \/ Goodbye \/ HandshakeOk
  <2>1. Running /\ UNCHANGED <<dstate, born, copies, life>>
    BY <1>8 DEF Linger, Terminate, HandshakeKills, Goodbye, HandshakeOk, RoundOver, Running, Ended,
                listenVars, processVars
  <2>. QED
    BY <1>1, <2>1
<1>9. ASSUME NEW d \in Dispatchers, AcceptDispatcher(d) \/ SendText(d) \/ DropLink(d)
      PROVE  Running /\ UNCHANGED <<dstate, born, copies, life>>
  BY <1>9 DEF AcceptDispatcher, SendText, DropLink, Running, Ended, listenVars, processVars
<1>10. ASSUME NEW d \in Dispatchers, Connect(d) PROVE UNCHANGED <<dstate, born, copies, life, lpc>>
  BY <1>10 DEF Connect, listenVars, roundVars, processVars
<1>11. CASE UNCHANGED vars
  BY <1>1, <1>11 DEF vars, listenVars, roundVars, processVars, Running
<1>12. ASSUME UNCHANGED lpc PROVE Running' = Running
  BY <1>12 DEF Running, Ended
<1>. QED
  BY <1>1, <1>2, <1>4, <1>5, <1>6, <1>7, <1>8, <1>9, <1>10, <1>11, <1>12
     DEF Next, ListenerStep, HandshakeStep, DispatcherStep, Die, Obey, ConnectFails, Terminated

(* A link enters the list, and leaves the queue of accept(), only when it  *)
(* waits for the listener that runs (mylsnr.cpp:82-92).                    *)
LEMMA Listing ==
  ASSUME IInv, [Next]_vars, NEW d \in Dispatchers
  PROVE  /\ d \in links' => d \in links \/ (link[d] = "waiting" /\ target[d] = life /\ Running)
         /\ link'[d] = "waiting" => link[d] = "waiting" \/ link[d] = "none"
         /\ link[d] = "accepted" => link'[d] = "accepted"
         /\ link[d] = "waiting" => /\ target'[d] = target[d]
                                   /\ link'[d] = "waiting" \/ (target[d] = life /\ Running)
<1>0. TypeOK /\ link \in [Dispatchers -> {"none", "waiting", "accepted"}] /\ target \in [Dispatchers -> 0 .. MaxLives]
  BY DEF IInv, TypeOK, LinkType
<1>1. CASE UNCHANGED <<link, target>> /\ links' \subseteq links
  BY <1>1
<1>2. ASSUME NEW e \in Dispatchers, AcceptDispatcher(e)
      PROVE  /\ links' \subseteq links \union {e} /\ link' = [link EXCEPT ![e] = "accepted"] /\ target' = target
             /\ link[e] = "waiting" /\ target[e] = life /\ Running
  BY <1>2 DEF AcceptDispatcher, Waiting, Dies, Running, Ended
<1>3. ASSUME NEW e \in Dispatchers, Connect(e)
      PROVE  /\ links' = links /\ link[e] = "none" /\ link' = [link EXCEPT ![e] = "waiting"]
             /\ target' = [target EXCEPT ![e] = path]
  BY <1>3 DEF Connect, roundVars
<1>4. CASE Goodbye \/ HandshakeOk \/ Linger \/ Terminate \/ HandshakeKills
  BY <1>1, <1>4 DEF Goodbye, HandshakeOk, Linger, Terminate, HandshakeKills, TellAll, Dies, linkVars
<1>5. CASE \/ UNCHANGED vars \/ Start \/ Boot \/ Sigint \/ Loop \/ pollSockets \/ PollInterrupted \/ PollTimeout
           \/ HandshakeFail \/ AcceptClient \/ ClientArrives
  BY <1>1, <1>5 DEF vars, Start, Boot, Sigint, Loop, pollSockets, PollInterrupted, PollTimeout, HandshakeFail,
                    AcceptClient, ClientArrives, linkVars, roundVars
<1>6. ASSUME NEW e \in Dispatchers, DropLink(e) \/ SendText(e)
      PROVE  UNCHANGED <<link, target>> /\ links' \subseteq links
  BY <1>6 DEF DropLink, SendText, Dies, linkVars
<1>7. ASSUME NEW e \in Dispatchers, DispatcherEnds(e)
      PROVE  UNCHANGED <<link, target>> /\ links' \subseteq links
  BY <1>7 DEF DispatcherEnds, linkVars, roundVars
<1>8. ASSUME NEW e \in Dispatchers, AcceptDispatcher(e)
      PROVE  /\ d \in links' => d \in links \/ (link[d] = "waiting" /\ target[d] = life /\ Running)
             /\ link'[d] = "waiting" => link[d] = "waiting" \/ link[d] = "none"
             /\ link[d] = "accepted" => link'[d] = "accepted"
             /\ link[d] = "waiting" => /\ target'[d] = target[d]
                                       /\ link'[d] = "waiting" \/ (target[d] = life /\ Running)
  BY <1>0, <1>2, <1>8
<1>9. ASSUME NEW e \in Dispatchers, Connect(e)
      PROVE  /\ d \in links' => d \in links \/ (link[d] = "waiting" /\ target[d] = life /\ Running)
             /\ link'[d] = "waiting" => link[d] = "waiting" \/ link[d] = "none"
             /\ link[d] = "accepted" => link'[d] = "accepted"
             /\ link[d] = "waiting" => /\ target'[d] = target[d]
                                       /\ link'[d] = "waiting" \/ (target[d] = life /\ Running)
  BY <1>0, <1>3, <1>9
<1>. QED
  BY <1>1, <1>4, <1>5, <1>6, <1>7, <1>8, <1>9
     DEF Next, ListenerStep, HandshakeStep, DispatcherStep, Die, Obey, ConnectFails, Terminated

(* A link that was hung up stays so: nobody who lives holds the other end, *)
(* and nobody inherits what the listener does not hold.                    *)
LEMMA StaysHungUp ==
  ASSUME IInv, [Next]_vars, NEW d \in Dispatchers, HungUp(d)
  PROVE  HungUp(d)' /\ said'[d] = said[d]
<1>0. /\ TypeOK /\ Told /\ Past /\ life \in Nat /\ target[d] \in Nat /\ target[d] <= life
      /\ copies[d] \subseteq Dispatchers /\ born \in [Dispatchers -> 0 .. MaxLives]
      /\ copies \in [Dispatchers -> SUBSET Dispatchers]
  BY DEF IInv, TypeOK, ListenType, LinkType, ProcessType, Past
<1>1. d \notin links /\ ~(link[d] = "waiting" /\ target[d] = life /\ Running)
  BY <1>0 DEF HungUp, Told, SocketOpen
<1>2. said'[d] = said[d]
  BY <1>1, Saying
<1>3. d \notin links'
  BY <1>1, Listing
<1>4. CASE link[d] = "accepted"
  <2>1. link'[d] = "accepted"
    BY <1>4, Listing
  <2>2. copies[d] \intersect Live = {}
    BY <1>4 DEF HungUp
  <2>3. copies'[d] = copies[d]
    BY <1>0, <1>1, Processes
  <2>4. copies'[d] \intersect Live' = {}
    <3>1. CASE Live' \subseteq Live
      BY <2>2, <2>3, <3>1
    <3>2. ASSUME NEW x \in Dispatchers, dstate[x] = "free", Live' \subseteq Live \union {x}
          PROVE  copies'[d] \intersect Live' = {}
      <4>1. x \notin copies[d]
        BY <1>0, <3>2 DEF Past
      <4>. QED
        BY <2>2, <2>3, <3>2, <4>1
    <3>. QED
      BY <3>1, <3>2, Processes
  <2>. QED
    BY <1>2, <1>3, <2>1, <2>4 DEF HungUp
<1>5. CASE link[d] = "waiting"
  <2>1. link'[d] = "waiting" /\ target'[d] = target[d]
    BY <1>1, <1>5, Listing
  <2>2. ~(Running /\ life = target[d]) /\ \A e \in Live : born[e] # target[d]
    BY <1>5 DEF HungUp, SocketOpen
  <2>3. ~(Running' /\ life' = target[d]) /\ \A e \in Live' : born'[e] # target[d]
    <3>1. CASE /\ Live' \subseteq Live /\ born' = born
               /\ (Running' => Running \/ life' = life + 1) /\ (Running /\ Running' => life' = life)
      BY <1>0, <2>2, <3>1
    <3>2. ASSUME NEW x \in Dispatchers, Running, life' = life, Live' \subseteq Live \union {x},
                 born' = [born EXCEPT ![x] = life]
          PROVE  ~(Running' /\ life' = target[d]) /\ \A e \in Live' : born'[e] # target[d]
      <4>1. target[d] # life
        BY <2>2, <3>2
      <4>2. \A e \in Live' : e \in Dispatchers /\ born'[e] = IF e = x THEN life ELSE born[e]
        BY <1>0, <3>2 DEF Live
      <4>. QED
        BY <2>2, <3>2, <4>1, <4>2
    <3>. QED
      BY <3>1, <3>2, Processes
  <2>. QED
    BY <1>2, <2>1, <2>3 DEF HungUp, SocketOpen
<1>. QED
  BY <1>4, <1>5 DEF HungUp

-------------------------------------------------------------------------------
(* How one link moves, by the words of Links.tla.                          *)
Moved(d) ==
  LET from == placeOf(HungUp(d), said[d])
      to   == placeOf(HungUp(d)', said'[d])
      same == clientsIn(said'[d]) = clientsIn(said[d])
      more == clientsIn(said'[d]) = clientsIn(said[d]) + 1
  IN  \/ from = "label" /\ to = "text" /\ same
      \/ from = "text" /\ to = "serve" /\ same
      \/ from = "serve" /\ to = "serve" /\ more
      \/ from = "serve" /\ to = "bye" /\ same
      \/ from # "closed" /\ to = "closed" /\ (same \/ (from = "serve" /\ more))
      \/ to = from /\ same

(* Each link moves as Links.tla says, or rests.                            *)
LEMMA LinkMoves ==
  ASSUME IInv, TypeOK', [Next]_vars, NEW d \in Dispatchers
  PROVE  Moved(d)
<1>0. /\ TypeOK /\ Told /\ said[d] \in Seq(Words) /\ said'[d] \in Seq(Words)
      /\ Len(said[d]) \in Nat /\ Len(said'[d]) \in Nat
      /\ "CONFIG" \in Words /\ "OPTIONS" \in Words /\ "client" \in Words /\ "EXIT" \in Words
      /\ HungUp(d) \in BOOLEAN /\ HungUp(d)' \in BOOLEAN
  BY DEF IInv, TypeOK, LinkType, Words, HungUp
<1>c. \A n \in Nat : n >= 2 => n + 1 >= 2
  OBVIOUS
<1>1. CASE HungUp(d)
  <2>1. HungUp(d)' /\ said'[d] = said[d]
    BY <1>1, StaysHungUp
  <2>2. placeOf(HungUp(d), said[d]) = "closed" /\ placeOf(HungUp(d)', said'[d]) = "closed"
    BY <1>1, <2>1 DEF placeOf
  <2>. QED
    BY <2>1, <2>2 DEF Moved
<1>2. CASE ~HungUp(d) /\ said'[d] = said[d]
  <2>1. CASE HungUp(d)'
    <3>1. placeOf(HungUp(d)', said'[d]) = "closed"
      BY <2>1 DEF placeOf
    <3>2. HungUp(d) = FALSE
      BY <1>0, <1>2
    <3>3. placeOf(FALSE, said[d]) # "closed"
      BY <1>0, PlaceCases
    <3>. QED
      BY <1>2, <3>1, <3>2, <3>3 DEF Moved
  <2>2. CASE ~(HungUp(d)')
    BY <1>0, <1>2, <2>2 DEF Moved
  <2>. QED
    BY <2>1, <2>2
<1>3. CASE ~HungUp(d) /\ said[d] = << >> /\ Tells(d, "CONFIG") /\ link'[d] = "accepted" /\ d \in links'
  <2>1. ~(HungUp(d)')
    BY <1>3 DEF HungUp
  <2>2. Len(said[d]) = 0 /\ Len(said'[d]) = 1
    BY <1>0, <1>3 DEF Tells
  <2>3. HungUp(d) = FALSE /\ HungUp(d)' = FALSE
    BY <1>0, <1>3, <2>1
  <2>4. placeOf(FALSE, said[d]) = "label" /\ placeOf(FALSE, said'[d]) = "text"
    BY <1>0, <2>2, PlaceCases
  <2>5. clientsIn(said'[d]) = clientsIn(said[d])
    BY <1>0, <1>3, ClientsGrow DEF Tells
  <2>. QED
    BY <2>3, <2>4, <2>5 DEF Moved
<1>4. CASE ~HungUp(d) /\ said[d] = <<"CONFIG">> /\ Tells(d, "OPTIONS") /\ d \in links /\ d \in links' /\ link' = link
  <2>1. ~(HungUp(d)')
    BY <1>0, <1>4 DEF HungUp, Told
  <2>2. Len(said[d]) = 1 /\ Len(said'[d]) = 2 /\ said'[d][2] = "OPTIONS"
    BY <1>0, <1>4 DEF Tells
  <2>3. HungUp(d) = FALSE /\ HungUp(d)' = FALSE
    BY <1>0, <1>4, <2>1
  <2>4. placeOf(FALSE, said[d]) = "text" /\ placeOf(FALSE, said'[d]) = "serve"
    <3>1. placeOf(FALSE, said[d]) = "text"
      BY <1>0, <2>2, PlaceCases
    <3>2. Len(said'[d]) >= 2 /\ said'[d][Len(said'[d])] # "EXIT"
      BY <2>2
    <3>3. placeOf(FALSE, said'[d]) = "serve"
      BY <1>0, <3>2, PlaceCases
    <3>. QED
      BY <3>1, <3>3
  <2>5. clientsIn(said'[d]) = clientsIn(said[d])
    BY <1>0, <1>4, ClientsGrow DEF Tells
  <2>. QED
    BY <2>3, <2>4, <2>5 DEF Moved
<1>5. ASSUME NEW w \in {"client", "EXIT"}, ~HungUp(d), Len(said[d]) >= 2, said[d][Len(said[d])] # "EXIT", Tells(d, w)
      PROVE  Moved(d)
  <2>1. Len(said'[d]) = Len(said[d]) + 1 /\ said'[d][Len(said'[d])] = w /\ Len(said'[d]) >= 2
    BY <1>0, <1>5 DEF Tells
  <2>2. HungUp(d) = FALSE
    BY <1>0, <1>5
  <2>3. placeOf(FALSE, said[d]) = "serve"
    BY <1>0, <1>5, PlaceCases
  <2>4. placeOf(FALSE, said'[d]) = IF w = "EXIT" THEN "bye" ELSE "serve"
    BY <1>0, <1>5, <2>1, PlaceCases
  <2>5. placeOf(TRUE, said'[d]) = "closed"
    BY <1>0, PlaceCases
  <2>6. HungUp(d)' = TRUE \/ HungUp(d)' = FALSE
    BY <1>0
  <2>7. clientsIn(said'[d]) = IF w = "client" THEN clientsIn(said[d]) + 1 ELSE clientsIn(said[d])
    BY <1>0, <1>5, ClientsGrow DEF Tells
  <2>. QED
    BY <2>2, <2>3, <2>4, <2>5, <2>6, <2>7 DEF Moved
<1>. QED
  BY <1>1, <1>2, <1>3, <1>4, <1>5, Saying

(* The listener implements Links.tla: to each of its dispatchers it is the *)
(* parent that Dispatcher.tla assumes (mylsnr.cpp:42-57, 82-147).          *)
THEOREM LinksImplemented == Spec => LinksKept
<1>1. Init => L!Init
  <2>. SUFFICES ASSUME Init PROVE L!Init
    OBVIOUS
  <2>1. ASSUME NEW d \in Dispatchers PROVE placeOf(HungUp(d), said[d]) = "label" /\ clientsIn(said[d]) = 0
    <3>1. said[d] = << >> /\ link[d] = "none"
      BY DEF Init
    <3>2. ~HungUp(d) /\ Len(said[d]) = 0
      BY <3>1 DEF HungUp
    <3>3. {i \in 1 .. Len(said[d]) : said[d][i] = "client"} = {}
      BY <3>2
    <3>. QED
      BY <3>2, <3>3, FS_EmptySet DEF placeOf, clientsIn
  <2>. QED
    BY <2>1 DEF L!Init, linkPlace, linkPassed
<1>2. IInv /\ IInv' /\ [Next]_vars => [L!Next]_<<linkPlace, linkPassed>>
  <2>. SUFFICES ASSUME IInv, IInv', [Next]_vars PROVE L!Next
    OBVIOUS
  <2>0. TypeOK /\ TypeOK'
    BY DEF IInv
  <2>1. \A d \in Dispatchers : Moved(d)
    BY <2>0, LinkMoves
  <2>2. \A d \in Dispatchers :
          /\ linkPlace[d] = placeOf(HungUp(d), said[d]) /\ linkPlace'[d] = placeOf(HungUp(d)', said'[d])
          /\ linkPassed[d] = clientsIn(said[d]) /\ linkPassed'[d] = clientsIn(said'[d])
    BY DEF linkPlace, linkPassed
  <2>3. \A d \in Dispatchers : said'[d] \in Seq(Words) /\ HungUp(d)' \in BOOLEAN
    BY <2>0 DEF TypeOK, LinkType, Words, HungUp
  <2>4. linkPlace' \in [Dispatchers -> L!Places]
    <3>1. \A d \in Dispatchers : placeOf(HungUp(d)', said'[d]) \in L!Places
      BY <2>3, PlaceCases DEF L!Places
    <3>. QED
      BY <3>1 DEF linkPlace
  <2>5. linkPassed' \in [Dispatchers -> Nat]
    <3>1. \A d \in Dispatchers : clientsIn(said'[d]) \in Nat
      BY <2>3, ClientsType
    <3>. QED
      BY <3>1 DEF linkPassed
  <2>6. \A d \in Dispatchers : L!Label(d) \/ L!Text(d) \/ L!Pass(d) \/ L!Bye(d) \/ L!Close(d) \/ L!Rest(d)
    BY <2>1, <2>2 DEF Moved, L!Label, L!Text, L!Pass, L!Bye, L!Close, L!Rest, L!Moves
  <2>. QED
    BY <2>4, <2>5, <2>6 DEF L!Next
<1>. QED
  BY <1>1, <1>2, ListenerInductive, PTL DEF Spec, LinksKept, L!Spec
=============================================================================
