---------------------------- MODULE ListenerProofs ----------------------------
(***************************************************************************)
(* The listener's safety for any set of dispatchers, any number of clients *)
(* and of restarts: IInv of ListenerInvariant.tla holds at first and is    *)
(* kept by every step.                                                     *)
(***************************************************************************)
EXTENDS ListenerInvariant, SequenceTheorems, FiniteSetTheorems, TLAPS

(* Words are only ever appended to what a dispatcher was told.             *)
LEMMA TellType ==
  ASSUME TypeOK, NEW D \in SUBSET Dispatchers, NEW w \in Words
  PROVE  /\ Tell(D, w) \in [Dispatchers -> Seq(Words)]
         /\ \A d \in Dispatchers \ D : Tell(D, w)[d] = said[d]
         /\ \A d \in D : /\ Len(Tell(D, w)[d]) = Len(said[d]) + 1
                         /\ Tell(D, w)[d][Len(said[d]) + 1] = w
                         /\ \A i \in 1 .. Len(said[d]) : Tell(D, w)[d][i] = said[d][i]
<1>1. \A d \in Dispatchers : said[d] \in Seq(Words) /\ Append(said[d], w) \in Seq(Words)
  BY DEF TypeOK, LinkType
<1>2. \A d \in Dispatchers : Tell(D, w)[d] = IF d \in D THEN Append(said[d], w) ELSE said[d]
  BY DEF Tell
<1>3. Tell(D, w) \in [Dispatchers -> Seq(Words)]
  BY <1>1 DEF Tell
<1>4. ASSUME NEW d \in D
      PROVE  /\ Len(Tell(D, w)[d]) = Len(said[d]) + 1
             /\ Tell(D, w)[d][Len(said[d]) + 1] = w
             /\ \A i \in 1 .. Len(said[d]) : Tell(D, w)[d][i] = said[d][i]
  <2>1. said[d] \in Seq(Words) /\ Tell(D, w)[d] = Append(said[d], w)
    BY <1>1, <1>2
  <2>. QED
    BY <2>1
<1>. QED
  BY <1>2, <1>3, <1>4

(* A word to some dispatchers, as a step says it.                          *)
LEMMA TellSaid ==
  ASSUME TypeOK, NEW D \in SUBSET Dispatchers, NEW w \in Words
  PROVE  said' = Tell(D, w) =>
           /\ \A d \in Dispatchers \ D : said'[d] = said[d]
           /\ \A d \in D : /\ Len(said'[d]) = Len(said[d]) + 1
                           /\ said'[d][Len(said[d]) + 1] = w
                           /\ \A i \in 1 .. Len(said[d]) : said'[d][i] = said[d][i]
<1>1. \A d \in Dispatchers \ D : Tell(D, w)[d] = said[d]
  BY TellType
<1>2. \A e \in D : /\ Len(Tell(D, w)[e]) = Len(said[e]) + 1
                  /\ Tell(D, w)[e][Len(said[e]) + 1] = w
                  /\ \A i \in 1 .. Len(said[e]) : Tell(D, w)[e][i] = said[e][i]
  BY TellType
<1>. QED
  BY <1>1, <1>2

(* A word to one dispatcher.                                               *)
LEMMA TellOne ==
  ASSUME TypeOK, NEW d \in Dispatchers, NEW w \in Words, said' = Tell({d}, w)
  PROVE  /\ \A e \in Dispatchers \ {d} : said'[e] = said[e]
         /\ Len(said'[d]) = Len(said[d]) + 1
         /\ said'[d][Len(said[d]) + 1] = w
         /\ \A i \in 1 .. Len(said[d]) : said'[d][i] = said[d][i]
<1>1. PICK D \in SUBSET Dispatchers : D = {d}
  OBVIOUS
<1>2. said' = Tell(D, w)
  BY <1>1
<1>. QED
  BY <1>1, <1>2, TellSaid

(* A step keeps the types of the variables it leaves alone.                *)
LEMMA Frame ==
  ASSUME TypeOK
  PROVE  /\ UNCHANGED listenVars => ListenType'
         /\ UNCHANGED roundVars => RoundType'
         /\ UNCHANGED processVars => ProcessType'
         /\ UNCHANGED linkVars => LinkType'
<1>1. UNCHANGED listenVars => ListenType'
  BY DEF TypeOK, ListenType, listenVars
<1>2. UNCHANGED roundVars => RoundType'
  BY DEF TypeOK, RoundType, roundVars, Ended
<1>3. UNCHANGED processVars => ProcessType'
  BY DEF TypeOK, ProcessType, processVars
<1>4. UNCHANGED linkVars => LinkType'
  BY DEF TypeOK, LinkType, linkVars, Words
<1>. QED
  BY <1>1, <1>2, <1>3, <1>4

(* fork() keeps the types (mylsnr.cpp:42-57).                              *)
LEMMA ForkType ==
  ASSUME TypeOK, NEW ds \in [Dispatchers -> {"free", "alive", "zombie", "reaped"}], create_dispatcher(ds)
  PROVE  ProcessType'
<1>1. CASE dstate' = ds /\ forkFailed' = TRUE /\ UNCHANGED <<born, copies>>
  BY <1>1 DEF TypeOK, ProcessType
<1>2. ASSUME NEW d \in Dispatchers,
             dstate' = [ds EXCEPT ![d] = "alive"],
             born' = [born EXCEPT ![d] = life],
             copies' = [e \in Dispatchers |-> IF e \in links THEN copies[e] \union {d} ELSE copies[e]],
             UNCHANGED forkFailed
      PROVE  ProcessType'
  <2>1. \A e \in Dispatchers : copies[e] \in SUBSET Dispatchers /\ copies[e] \union {d} \in SUBSET Dispatchers
    BY DEF TypeOK, ProcessType
  <2>2. copies' \in [Dispatchers -> SUBSET Dispatchers]
    BY <1>2, <2>1
  <2>3. dstate' \in [Dispatchers -> {"free", "alive", "zombie", "reaped"}]
    BY <1>2
  <2>4. born' \in [Dispatchers -> 0 .. MaxLives]
    BY <1>2 DEF TypeOK, ProcessType, ListenType
  <2>. QED
    BY <1>2, <2>2, <2>3, <2>4 DEF TypeOK, ProcessType
<1>. QED
  BY <1>1, <1>2 DEF create_dispatcher

(* The end of the listener keeps the types of what it holds.               *)
LEMMA DiesType ==
  ASSUME NEW how \in Ended, Dies(how) PROVE RoundType'
BY ListenerAssumption DEF Dies, RoundType

(* The same word to all the links, or the end of the listener.             *)
LEMMA TellAllType ==
  ASSUME TypeOK, NEW w \in Words, NEW next \in {"run", "linger"}, TellAll(w, next), UNCHANGED <<link, target>>
  PROVE  RoundType' /\ LinkType'
<1>1. CASE links \subseteq Live
  <2>1. links \in SUBSET Dispatchers /\ said' = Tell(links, w)
    BY <1>1 DEF TellAll, TypeOK, RoundType
  <2>2. LinkType'
    BY <2>1, TellType DEF TypeOK, LinkType
  <2>3. RoundType'
    BY <1>1 DEF TellAll, TypeOK, RoundType
  <2>. QED
    BY <2>2, <2>3
<1>2. CASE ~(links \subseteq Live)
  <2>1. PICK D \in SUBSET (links \intersect Live) : said' = Tell(D, w)
    BY <1>2 DEF TellAll
  <2>2. D \in SUBSET Dispatchers
    BY DEF Live
  <2>3. LinkType'
    BY <2>1, <2>2, TellType DEF TypeOK, LinkType
  <2>4. RoundType'
    BY <1>2, DiesType DEF TellAll, Ended
  <2>. QED
    BY <2>3, <2>4
<1>. QED
  BY <1>1, <1>2

(* Every step of the listener, of the world and of a dispatcher keeps the  *)
(* types; a connection is accepted only when one is waiting.               *)
LEMMA TypeStep ==
  ASSUME TypeOK, Queue, Births, [Next]_vars PROVE TypeOK'
<1>0. "CONFIG" \in Words /\ "OPTIONS" \in Words /\ "client" \in Words /\ "EXIT" \in Words
  BY DEF Words
<1>1. CASE UNCHANGED vars
  BY <1>1, Frame DEF vars, TypeOK
<1>2. CASE Start
  <2>0. life' \in 0 .. MaxLives
    BY <1>2, ListenerAssumption DEF Start, TypeOK, ListenType
  <2>1. ListenType'
    BY <1>2, <2>0 DEF Start, TypeOK, ListenType
  <2>2. RoundType' /\ ProcessType'
    BY <1>2 DEF Start, TypeOK, RoundType, ProcessType
  <2>. QED
    BY <1>2, <2>1, <2>2, Frame DEF Start, TypeOK
<1>3. CASE Boot
  <2>1. create_dispatcher(dstate) /\ dstate \in [Dispatchers -> {"free", "alive", "zombie", "reaped"}]
    BY <1>3 DEF Boot, TypeOK, ProcessType
  <2>2. life \in 1 .. MaxLives
    BY <1>3, ListenerAssumption DEF Boot, TypeOK, ListenType, Births, Running, Ended
  <2>3. ListenType'
    BY <1>3, <2>2 DEF Boot, TypeOK, ListenType
  <2>4. RoundType'
    BY <1>3 DEF Boot, TypeOK, RoundType, Ended
  <2>. QED
    BY <1>3, <2>1, <2>3, <2>4, ForkType, Frame DEF Boot, TypeOK
<1>4. CASE Sigint \/ Loop \/ PollInterrupted \/ HandshakeFail
  <2>1. ListenType' /\ RoundType'
    BY <1>4 DEF Sigint, Loop, PollInterrupted, HandshakeFail, TypeOK, ListenType, RoundType, listenVars, roundVars
  <2>. QED
    BY <1>4, <2>1, Frame DEF Sigint, Loop, PollInterrupted, HandshakeFail, TypeOK
<1>5. CASE pollSockets
  <2>1. Ready \in SUBSET (Dispatchers \union {"tcp", "unix"})
    BY DEF Ready, TypeOK, RoundType
  <2>2. RoundType'
    BY <1>5, <2>1 DEF pollSockets, TypeOK, RoundType
  <2>. QED
    BY <1>5, <2>2, Frame DEF pollSockets, TypeOK
<1>6. CASE PollTimeout
  <2>0. RoundType'
    BY <1>6 DEF PollTimeout, TypeOK, RoundType
  <2>1. ProcessType'
    <3>1. CASE Zombies = {}
      BY <1>6, <3>1, Frame DEF PollTimeout
    <3>2. CASE Zombies # {}
      <4>1. PICK d \in Zombies : create_dispatcher([dstate EXCEPT ![d] = "reaped"])
        BY <1>6, <3>2 DEF PollTimeout
      <4>2. [dstate EXCEPT ![d] = "reaped"] \in [Dispatchers -> {"free", "alive", "zombie", "reaped"}]
        BY DEF TypeOK, ProcessType
      <4>. QED
        BY <4>1, <4>2, ForkType
    <3>. QED
      BY <3>1, <3>2
  <2>. QED
    BY <1>6, <2>0, <2>1, Frame DEF PollTimeout, TypeOK
<1>7. CASE AcceptClient
  <2>1. RoundType'
    BY <1>7, ListenerAssumption DEF AcceptClient, Queue, TypeOK, RoundType
  <2>. QED
    BY <1>7, <2>1, Frame DEF AcceptClient, TypeOK
<1>8. CASE Goodbye \/ HandshakeOk
  <2>1. (TellAll("EXIT", "linger") \/ TellAll("client", "run")) /\ UNCHANGED <<link, target>>
    BY <1>8 DEF Goodbye, HandshakeOk
  <2>2. RoundType' /\ LinkType'
    BY <1>0, <2>1, TellAllType
  <2>. QED
    BY <1>8, <2>2, Frame DEF Goodbye, HandshakeOk, TypeOK
<1>9. CASE Linger \/ Terminate \/ HandshakeKills
  <2>1. RoundType'
    BY <1>9, DiesType DEF Linger, Terminate, HandshakeKills, Ended
  <2>2. ListenType'
    <3>1. 0 \in 0 .. MaxLives
      BY ListenerAssumption
    <3>2. CASE Linger
      BY <3>1, <3>2 DEF Linger, TypeOK, ListenType
    <3>. QED
      BY <1>9, <3>2, Frame DEF Terminate, HandshakeKills
  <2>. QED
    BY <1>9, <2>1, <2>2, Frame DEF Linger, Terminate, HandshakeKills, TypeOK
<1>10. ASSUME NEW d \in Dispatchers, AcceptDispatcher(d) \/ SendText(d)
       PROVE  TypeOK'
  <2>1. RoundType'
    <3>1. CASE d \in Live
      BY <1>10, <3>1 DEF AcceptDispatcher, SendText, TypeOK, RoundType
    <3>2. CASE d \notin Live
      <4>1. Dies("sigpipe") /\ "sigpipe" \in Ended
        BY <1>10, <3>2 DEF AcceptDispatcher, SendText, Ended
      <4>. QED
        BY <4>1, DiesType
    <3>. QED
      BY <3>1, <3>2
  <2>2. said' \in [Dispatchers -> Seq(Words)]
    <3>1. said' = said \/ said' = Tell({d}, "CONFIG") \/ said' = Tell({d}, "OPTIONS")
      BY <1>10 DEF AcceptDispatcher, SendText
    <3>2. Tell({d}, "CONFIG") \in [Dispatchers -> Seq(Words)] /\ Tell({d}, "OPTIONS") \in [Dispatchers -> Seq(Words)]
      BY <1>0, TellType
    <3>. QED
      BY <3>1, <3>2 DEF TypeOK, LinkType
  <2>3. LinkType'
    BY <1>10, <2>2 DEF AcceptDispatcher, SendText, TypeOK, LinkType
  <2>. QED
    BY <1>10, <2>1, <2>3, Frame DEF AcceptDispatcher, SendText, TypeOK
<1>11. ASSUME NEW d \in Dispatchers, DropLink(d)
       PROVE  TypeOK'
  <2>1. RoundType'
    BY <1>11 DEF DropLink, TypeOK, RoundType
  <2>. QED
    BY <1>11, <2>1, Frame DEF DropLink, TypeOK
<1>12. CASE ClientArrives
  <2>1. RoundType' /\ ListenType'
    BY <1>12, ListenerAssumption DEF ClientArrives, Queue, TypeOK, RoundType, ListenType
  <2>. QED
    BY <1>12, <2>1, Frame DEF ClientArrives, TypeOK
<1>13. ASSUME NEW d \in Dispatchers, Connect(d)
       PROVE  TypeOK'
  <2>1. LinkType'
    BY <1>13 DEF Connect, TypeOK, LinkType, ListenType
  <2>. QED
    BY <1>13, <2>1, Frame DEF Connect, TypeOK
<1>14. ASSUME NEW d \in Dispatchers, ConnectFails(d) \/ Obey(d) \/ Die(d)
       PROVE  TypeOK'
  <2>1. DispatcherEnds(d)
    BY <1>14 DEF ConnectFails, Obey, Die
  <2>2. ProcessType'
    BY <2>1 DEF DispatcherEnds, TypeOK, ProcessType
  <2>. QED
    BY <2>1, <2>2, Frame DEF DispatcherEnds, TypeOK
<1>. QED
  BY <1>1, <1>2, <1>3, <1>4, <1>5, <1>6, <1>7, <1>8, <1>9, <1>10, <1>11, <1>12, <1>13, <1>14
     DEF Next, ListenerStep, HandshakeStep, DispatcherStep, Terminated

(* A connection is taken from the queue only after poll has seen it there, *)
(* and only once (mylsnr.cpp:195-197, 120-136).                            *)
LEMMA QueueStep ==
  ASSUME TypeOK, Queue, [Next]_vars PROVE Queue'
<1>0. pending \in Nat /\ arrived \in Nat /\ "tcp" \notin Dispatchers
  BY ListenerAssumption DEF TypeOK, RoundType, ListenType
<1>1. ASSUME UNCHANGED arrived, UNCHANGED <<pending, reported>> PROVE Queue'
  BY <1>1 DEF Queue
<1>2. ASSUME NEW how, Dies(how), UNCHANGED arrived PROVE Queue'
  BY <1>0, <1>2 DEF Queue, Dies
<1>3. CASE pollSockets
  BY <1>0, <1>3 DEF pollSockets, Ready, Queue, listenVars, TypeOK, RoundType
<1>4. CASE AcceptClient
  BY <1>0, <1>4 DEF AcceptClient, Queue, listenVars
<1>5. CASE ClientArrives
  BY <1>0, <1>5 DEF ClientArrives, Queue
<1>6. ASSUME NEW d \in Dispatchers, DropLink(d) PROVE Queue'
  BY <1>6 DEF DropLink, Queue, listenVars
<1>7. ASSUME NEW w, NEW next, TellAll(w, next), UNCHANGED arrived PROVE Queue'
  BY <1>1, <1>2, <1>7 DEF TellAll
<1>8. ASSUME NEW d \in Dispatchers, AcceptDispatcher(d) PROVE Queue'
  BY <1>2, <1>8 DEF AcceptDispatcher, Queue, listenVars
<1>9. ASSUME NEW d \in Dispatchers, SendText(d) PROVE Queue'
  BY <1>1, <1>2, <1>9 DEF SendText, listenVars
<1>10. CASE Goodbye \/ HandshakeOk
  BY <1>7, <1>10 DEF Goodbye, HandshakeOk, listenVars
<1>11. CASE Linger \/ Terminate \/ HandshakeKills
  BY <1>2, <1>11 DEF Linger, Terminate, HandshakeKills, listenVars
<1>12. CASE Start \/ Boot \/ Sigint \/ Loop \/ PollInterrupted \/ PollTimeout \/ HandshakeFail
  BY <1>1, <1>12 DEF Start, Boot, Sigint, Loop, PollInterrupted, PollTimeout, HandshakeFail, listenVars, roundVars
<1>13. ASSUME NEW d \in Dispatchers, DispatcherStep(d) \/ Die(d) PROVE Queue'
  BY <1>1, <1>13 DEF DispatcherStep, Die, Connect, ConnectFails, Obey, DispatcherEnds, listenVars, roundVars
<1>14. CASE UNCHANGED vars
  BY <1>1, <1>14 DEF vars, listenVars, roundVars
<1>. QED
  BY <1>3, <1>4, <1>5, <1>6, <1>8, <1>9, <1>10, <1>11, <1>12, <1>13, <1>14
     DEF Next, ListenerStep, HandshakeStep, Terminated

(* A fork that takes the place of the one unreaped child, if there is one, *)
(* leaves one unreaped child at most (mylsnr.cpp:179, 198-203).            *)
LEMMA ForkBirths ==
  ASSUME TypeOK, Births, Running, lpc' # "boot", life' = life,
         NEW ds \in [Dispatchers -> {"free", "alive", "zombie", "reaped"}],
         create_dispatcher(ds),
         \A d \in Dispatchers : dstate[d] = "free" <=> ds[d] = "free",
         \A d \in Children : ds[d] \notin {"alive", "zombie"}
  PROVE  Births'
<1>0. life \in Nat /\ life > 0 /\ \A d \in Dispatchers : born[d] \in Nat
  BY DEF TypeOK, ListenType, ProcessType, Births
<1>1. CASE dstate' = ds /\ UNCHANGED born
  BY <1>0, <1>1 DEF Births, Children, Unreaped
<1>2. ASSUME NEW d \in Dispatchers, dstate[d] = "free",
             dstate' = [ds EXCEPT ![d] = "alive"], born' = [born EXCEPT ![d] = life]
      PROVE  Births'
  <2>1. \A e \in Dispatchers : /\ born'[e] = IF e = d THEN life ELSE born[e]
                               /\ dstate'[e] = IF e = d THEN "alive" ELSE ds[e]
    BY <1>2 DEF TypeOK, ProcessType
  <2>2. \A e \in Children' : Unreaped(e)' => e = d
    BY <2>1 DEF Children, Unreaped
  <2>. QED
    BY <1>0, <2>1, <2>2 DEF Births
<1>. QED
  BY <1>1, <1>2 DEF create_dispatcher

(* Nobody is born before main() reaches the fork, and the listener never   *)
(* has two unreaped children.                                              *)
LEMMA BirthsStep ==
  ASSUME TypeOK, Births, [Next]_vars PROVE Births'
<1>0. life \in Nat /\ \A d \in Dispatchers : born[d] \in Nat
  BY DEF TypeOK, ListenType, ProcessType
<1>1. ASSUME UNCHANGED <<life, dstate, born>>, lpc' = "boot" => lpc = "boot", Running' => Running
      PROVE  Births'
  BY <1>1 DEF Births, Children, Unreaped
<1>2. CASE Start
  BY <1>0, <1>2 DEF Start, Births, Children
<1>3. CASE Boot
  <2>1. \A d \in Children : dstate[d] \notin {"alive", "zombie"}
    BY <1>0, <1>3 DEF Boot, Births, Children
  <2>2. Running /\ lpc' # "boot"
    BY <1>3 DEF Boot, Running, Ended
  <2>. QED
    BY <1>3, <2>1, <2>2, ForkBirths DEF Boot, TypeOK, ProcessType
<1>4. CASE PollTimeout
  <2>1. CASE Zombies = {}
    BY <1>1, <1>4, <2>1 DEF PollTimeout, processVars, listenVars, Running, Ended
  <2>2. CASE Zombies # {}
    <3>1. PICK z \in Zombies : create_dispatcher([dstate EXCEPT ![z] = "reaped"])
      BY <1>4, <2>2 DEF PollTimeout
    <3>2. z \in Children /\ z \in Dispatchers /\ dstate[z] = "zombie"
      BY DEF Zombies, Children
    <3>3. \A d \in Dispatchers : [dstate EXCEPT ![z] = "reaped"][d] = IF d = z THEN "reaped" ELSE dstate[d]
      BY DEF TypeOK, ProcessType
    <3>4. \A d \in Children : [dstate EXCEPT ![z] = "reaped"][d] \notin {"alive", "zombie"}
      BY <3>2, <3>3 DEF Births, Children, Unreaped
    <3>5. \A d \in Dispatchers : dstate[d] = "free" <=> [dstate EXCEPT ![z] = "reaped"][d] = "free"
      BY <3>2, <3>3
    <3>6. [dstate EXCEPT ![z] = "reaped"] \in [Dispatchers -> {"free", "alive", "zombie", "reaped"}]
      BY DEF TypeOK, ProcessType
    <3>7. Running /\ lpc' # "boot" /\ life' = life
      BY <1>4 DEF PollTimeout, Running, Ended, listenVars
    <3>. QED
      BY <3>1, <3>4, <3>5, <3>6, <3>7, ForkBirths
  <2>. QED
    BY <2>1, <2>2
<1>5. ASSUME NEW d \in Dispatchers, d \in Live, DispatcherEnds(d) PROVE Births'
  <2>1. \A e \in Dispatchers : dstate'[e] = IF e = d THEN "zombie" ELSE dstate[e]
    BY <1>5 DEF DispatcherEnds, TypeOK, ProcessType
  <2>2. \A e \in Dispatchers : Unreaped(e)' = Unreaped(e)
    BY <1>5, <2>1 DEF Unreaped, Live
  <2>. QED
    BY <1>5, <2>1, <2>2 DEF DispatcherEnds, Births, Children, listenVars, roundVars, Running, Live
<1>6. CASE Sigint \/ Loop \/ pollSockets \/ PollInterrupted \/ HandshakeFail \/ AcceptClient \/ ClientArrives
  <2>1. Running /\ lpc # "boot" /\ (lpc' = lpc \/ lpc' \in {"poll", "run", "ssl"})
    BY <1>6 DEF Sigint, Loop, RoundOver, pollSockets, PollInterrupted, HandshakeFail, AcceptClient, ClientArrives,
                roundVars, Running, Ended
  <2>2. UNCHANGED <<life, dstate, born>>
    BY <1>6 DEF Sigint, Loop, pollSockets, PollInterrupted, HandshakeFail, AcceptClient, ClientArrives,
                listenVars, processVars
  <2>. QED
    BY <1>1, <2>1, <2>2
<1>7. CASE Linger \/ Terminate \/ HandshakeKills
  BY <1>1, <1>7 DEF Linger, Terminate, HandshakeKills, Dies, listenVars, processVars, Running, Ended
<1>8. CASE Goodbye \/ HandshakeOk
  <2>1. lpc' \in {"run", "linger", "sigpipe"} /\ lpc \in {"run", "ssl"}
    BY <1>8 DEF Goodbye, HandshakeOk, TellAll, Dies, RoundOver
  <2>. QED
    BY <1>1, <1>8, <2>1 DEF Goodbye, HandshakeOk, listenVars, processVars, Running, Ended
<1>9. ASSUME NEW d \in Dispatchers, AcceptDispatcher(d) \/ SendText(d) \/ DropLink(d) PROVE Births'
  <2>1. lpc' \in {"run", "text", "sigpipe"} /\ lpc \in {"run", "text"}
    BY <1>9 DEF AcceptDispatcher, SendText, DropLink, Dies
  <2>. QED
    BY <1>1, <1>9, <2>1 DEF AcceptDispatcher, SendText, DropLink, listenVars, processVars, Running, Ended
<1>10. ASSUME NEW d \in Dispatchers, Connect(d) PROVE Births'
  BY <1>1, <1>10 DEF Connect, listenVars, roundVars, processVars, Running
<1>11. CASE UNCHANGED vars
  BY <1>1, <1>11 DEF vars, listenVars, roundVars, processVars, Running
<1>. QED
  BY <1>2, <1>3, <1>4, <1>5, <1>6, <1>7, <1>8, <1>9, <1>10, <1>11
     DEF Next, ListenerStep, HandshakeStep, DispatcherStep, Die, Obey, ConnectFails, Terminated

-------------------------------------------------------------------------------
(* What dispatchers are told.  A step that tells nobody anything, accepts  *)
(* nobody, and leaves a state of the loop only with the links it may have  *)
(* there.                                                                  *)
LEMMA ToldFrame ==
  ASSUME Told, LinkContract, UNCHANGED <<link, said>>, links' \subseteq links,
         lpc' \in Ended \union {"boot"} => links' = {},
         lpc = "text" => lpc' = "text" \/ links' = {},
         lpc = "linger" => lpc' = "linger" \/ links' = {}
  PROVE  Told' /\ LinkContract'
<1>1. /\ \A d \in links' : d \in links
      /\ link' = link /\ said' = said
  OBVIOUS
<1>2. lpc' # "text" => lpc # "text" \/ links' = {}
  OBVIOUS
<1>3. lpc' # "linger" => lpc # "linger" \/ links' = {}
  OBVIOUS
<1>4. Told'
  <2>1. lpc' \in (Ended \union {"boot"})' => links' = {}
    BY DEF Ended
  <2>2. \A d \in Dispatchers :
          /\ d \in links' => link'[d] = "accepted" /\ said'[d] # << >>
          /\ link'[d] # "accepted" => said'[d] = << >>
          /\ d \in links' /\ lpc' # "linger" => said'[d][Len(said'[d])] # "EXIT"
    BY <1>1, <1>3 DEF Told
  <2>3. \A d, e \in links' : Len(said'[d]) = 1 /\ Len(said'[e]) = 1 => d = e
    BY <1>1 DEF Told
  <2>. QED
    BY <2>1, <2>2, <2>3 DEF Told
<1>5. LinkContract'
  <2>1. Form' = Form
    BY DEF Form
  <2>2. \A d \in Dispatchers : d \in links' /\ lpc' # "text" => Len(said'[d]) >= 2
    BY <1>1, <1>2 DEF LinkContract
  <2>. QED
    BY <1>1, <2>1, <2>2 DEF LinkContract
<1>. QED
  BY <1>4, <1>5

(* The listener dies in the middle of a word to all, or of none.           *)
LEMMA ToldDies ==
  ASSUME TypeOK, Told, LinkContract, NEW D \in SUBSET links, NEW w \in {"client", "EXIT"},
         lpc \in {"run", "ssl"}, said' = Tell(D, w), link' = link, links' \subseteq links,
         lpc' \in Ended \union {"boot"} => links' = {},
         w = "EXIT" => lpc' = "linger" \/ links' = {},
         lpc' # "text"
  PROVE  Told' /\ LinkContract'
<1>0. w \in Words /\ D \in SUBSET Dispatchers
  BY DEF Words, TypeOK, RoundType
<1>told. /\ said' \in [Dispatchers -> Seq(Words)]
         /\ \A d \in Dispatchers \ D : said'[d] = said[d]
         /\ \A d \in D : /\ Len(said'[d]) = Len(said[d]) + 1
                         /\ said'[d][Len(said[d]) + 1] = w
                         /\ \A i \in 1 .. Len(said[d]) : said'[d][i] = said[d][i]
  <2>1. said' = Tell(D, w)
    OBVIOUS
  <2>2. Tell(D, w) \in [Dispatchers -> Seq(Words)]
    BY ONLY TypeOK, <1>0, TellType
  <2>3. \A d \in Dispatchers \ D : Tell(D, w)[d] = said[d]
    BY ONLY TypeOK, <1>0, TellType
  <2>4. \A d \in D : /\ Len(Tell(D, w)[d]) = Len(said[d]) + 1
                    /\ Tell(D, w)[d][Len(said[d]) + 1] = w
                    /\ \A i \in 1 .. Len(said[d]) : Tell(D, w)[d][i] = said[d][i]
    BY ONLY TypeOK, <1>0, TellType
  <2>. QED
    BY ONLY <2>1, <2>2, <2>3, <2>4
<1>1. \A d \in Dispatchers : said[d] \in Seq(Words) /\ said'[d] \in Seq(Words)
  BY <1>told DEF TypeOK, LinkType
<1>2. \A d \in Dispatchers \ D : said'[d] = said[d]
  BY <1>told
<1>3. \A d \in D : /\ Len(said[d]) >= 2 /\ said[d][Len(said[d])] # "EXIT"
                   /\ Len(said'[d]) = Len(said[d]) + 1
                   /\ said'[d][Len(said[d]) + 1] = w
                   /\ \A i \in 1 .. Len(said[d]) : said'[d][i] = said[d][i]
  BY <1>0, <1>told DEF Told, LinkContract
<1>4. \A d \in links : Len(said[d]) >= 2 /\ d \in Dispatchers
  BY DEF LinkContract, TypeOK, RoundType
<1>5. LinkContract'
  <2>1. ASSUME NEW d \in D, NEW i \in 1 .. Len(said'[d])
        PROVE  IF i <= 2 THEN said'[d][i] = Form[i]
               ELSE said'[d][i] = "client" \/ (said'[d][i] = "EXIT" /\ i = Len(said'[d]))
    <3>1. d \in Dispatchers /\ Len(said[d]) \in Nat
      BY <1>0, <1>1
    <3>2. CASE i \in 1 .. Len(said[d])
      <4>1. i = Len(said[d]) => said[d][i] # "EXIT"
        BY <1>3
      <4>. QED
        BY <1>3, <3>1, <3>2, <4>1 DEF LinkContract
    <3>3. CASE i = Len(said[d]) + 1
      BY <1>3, <3>1, <3>3
    <3>. QED
      BY <1>3, <3>1, <3>2, <3>3
  <2>2. \A d \in links : Len(said'[d]) >= 2
    BY <1>1, <1>2, <1>3, <1>4
  <2>3. ASSUME NEW d \in Dispatchers \ D, NEW i \in 1 .. Len(said'[d])
        PROVE  IF i <= 2 THEN said'[d][i] = Form[i]
               ELSE said'[d][i] = "client" \/ (said'[d][i] = "EXIT" /\ i = Len(said'[d]))
    BY <1>2, <2>3 DEF LinkContract
  <2>4. Form' = Form
    BY DEF Form
  <2>. QED
    BY <2>1, <2>2, <2>3, <2>4 DEF LinkContract
<1>6. Told'
  <2>1. \A d \in Dispatchers : d \in links' => link'[d] = "accepted" /\ said'[d] # << >>
    BY <1>1, <1>2, <1>3 DEF Told
  <2>2. \A d \in Dispatchers : link'[d] # "accepted" => said'[d] = << >>
    BY <1>0, <1>2 DEF Told
  <2>3. \A d \in Dispatchers : d \in links' /\ lpc' # "linger" => said'[d][Len(said'[d])] # "EXIT"
    BY <1>1, <1>2, <1>3 DEF Told
  <2>4. \A d, e \in links' : Len(said'[d]) = 1 /\ Len(said'[e]) = 1 => d = e
    BY <1>1, <1>2, <1>3, <1>4
  <2>. QED
    BY <2>1, <2>2, <2>3, <2>4 DEF Told
<1>. QED
  BY <1>5, <1>6

(* sayGoodbye and processClientConnection: a word to every link, or to     *)
(* some and the end of the listener (mylsnr.cpp:71-77, 138-147).           *)
LEMMA ToldAll ==
  ASSUME TypeOK, Told, LinkContract, Goodbye \/ HandshakeOk
  PROVE  Told' /\ LinkContract'
<1>1. PICK w \in {"client", "EXIT"}, next \in {"run", "linger"} :
        /\ TellAll(w, next) /\ link' = link /\ lpc \in {"run", "ssl"}
        /\ w = "EXIT" => next = "linger"
  BY DEF Goodbye, HandshakeOk, RoundOver
<1>2. CASE links \subseteq Live
  <2>1. said' = Tell(links, w) /\ lpc' = next /\ links' = links
    BY <1>1, <1>2 DEF TellAll
  <2>2. lpc' \notin Ended \union {"boot"} /\ lpc' # "text"
    BY <2>1 DEF Ended
  <2>3. links \in SUBSET links
    OBVIOUS
  <2>. QED
    BY <1>1, <2>1, <2>2, <2>3, ToldDies
<1>3. CASE ~(links \subseteq Live)
  <2>1. PICK D \in SUBSET (links \intersect Live) : said' = Tell(D, w)
    BY <1>1, <1>3 DEF TellAll
  <2>2. links' = {} /\ lpc' # "text"
    BY <1>1, <1>3 DEF TellAll, Dies
  <2>3. D \in SUBSET links
    OBVIOUS
  <2>. QED
    BY <1>1, <2>1, <2>2, <2>3, ToldDies
<1>. QED
  BY <1>2, <1>3

(* A connection is accepted and the label written, or the listener dies of *)
(* the write (mylsnr.cpp:82-93).                                           *)
LEMMA ToldAccept ==
  ASSUME TypeOK, Told, LinkContract, NEW d \in Dispatchers, AcceptDispatcher(d)
  PROVE  Told' /\ LinkContract'
<1>1. /\ link' = [link EXCEPT ![d] = "accepted"] /\ lpc = "run"
      /\ link \in [Dispatchers -> {"none", "waiting", "accepted"}]
      /\ said \in [Dispatchers -> Seq(Words)] /\ links \subseteq Dispatchers
      /\ said[d] = << >> /\ d \notin links
  BY DEF AcceptDispatcher, Waiting, Told, TypeOK, LinkType, RoundType
<1>2. \A e \in links : Len(said[e]) >= 2 /\ said[e][Len(said[e])] # "EXIT"
  BY <1>1 DEF Told, LinkContract
<1>3. CASE d \in Live
  <2>1. lpc' = "text" /\ links' = links \union {d} /\ said' = Tell({d}, "CONFIG")
    BY <1>3 DEF AcceptDispatcher
  <2>2. /\ \A e \in Dispatchers \ {d} : said'[e] = said[e]
        /\ Len(said'[d]) = 1 /\ said'[d][1] = "CONFIG"
    <3>1. "CONFIG" \in Words /\ Len(said[d]) = 0
      BY <1>1 DEF Words
    <3>2. /\ \A e \in Dispatchers \ {d} : said'[e] = said[e]
          /\ Len(said'[d]) = Len(said[d]) + 1
          /\ said'[d][Len(said[d]) + 1] = "CONFIG"
          /\ \A i \in 1 .. Len(said[d]) : said'[d][i] = said[d][i]
      BY <2>1, <3>1, TellOne
    <3>. QED
      BY <3>1, <3>2
  <2>3. Told'
    <3>1. \A e \in Dispatchers :
            /\ e \in links' => link'[e] = "accepted" /\ said'[e] # << >>
            /\ link'[e] # "accepted" => said'[e] = << >>
            /\ e \in links' => said'[e][Len(said'[e])] # "EXIT"
      <4>1. said'[d] # << >> /\ said'[d][Len(said'[d])] # "EXIT" /\ link'[d] = "accepted" /\ d \in links'
        BY <1>1, <2>1, <2>2, EmptySeq
      <4>2. \A e \in Dispatchers \ {d} : said'[e] = said[e] /\ link'[e] = link[e] /\ (e \in links' <=> e \in links)
        BY <1>1, <2>1, <2>2
      <4>3. \A e \in Dispatchers \ {d} :
              /\ e \in links' => link'[e] = "accepted" /\ said'[e] # << >>
              /\ link'[e] # "accepted" => said'[e] = << >>
              /\ e \in links' => said'[e][Len(said'[e])] # "EXIT"
        BY <1>2, <4>2 DEF Told
      <4>. QED
        BY <4>1, <4>3
    <3>2. \A e \in links' : Len(said'[e]) = 1 => e = d
      <4>1. ASSUME NEW e \in links', e # d PROVE Len(said'[e]) # 1
        <5>1. e \in links /\ e \in Dispatchers \ {d}
          BY <1>1, <2>1, <4>1
        <5>2. said'[e] = said[e] /\ Len(said'[e]) = Len(said[e])
          BY <2>2, <5>1
        <5>3. Len(said[e]) >= 2 /\ Len(said[e]) \in Nat
          BY <1>1, <1>2, <5>1
        <5>4. \A n \in Nat : n >= 2 => n # 1
          OBVIOUS
        <5>. QED
          BY ONLY <5>2, <5>3, <5>4, Zenon
      <4>. QED
        BY <4>1
    <3>3. lpc' \notin Ended \union {"boot"}
      BY <2>1 DEF Ended
    <3>. QED
      BY <3>1, <3>2, <3>3 DEF Told, Ended
  <2>4. LinkContract'
    <3>1. ASSUME NEW e \in Dispatchers, NEW i \in 1 .. Len(said'[e])
          PROVE  IF i <= 2 THEN said'[e][i] = Form[i]
                 ELSE said'[e][i] = "client" \/ (said'[e][i] = "EXIT" /\ i = Len(said'[e]))
      <4>1. CASE e = d
        BY <2>2, <3>1, <4>1 DEF Form
      <4>2. CASE e # d
        BY <2>2, <3>1, <4>2 DEF LinkContract
      <4>. QED
        BY <4>1, <4>2
    <3>2. Form' = Form
      BY DEF Form
    <3>. QED
      BY <2>1, <3>1, <3>2 DEF LinkContract
  <2>. QED
    BY <2>3, <2>4
<1>4. CASE d \notin Live
  <2>1. links' = {} /\ lpc' = "sigpipe" /\ said' = said
    BY <1>4 DEF AcceptDispatcher, Dies
  <2>2. \A e \in Dispatchers : link'[e] # "accepted" => said[e] = << >>
    BY <1>1 DEF Told
  <2>3. Told'
    BY <2>1, <2>2 DEF Told
  <2>4. Form' = Form
    BY DEF Form
  <2>. QED
    BY <2>1, <2>3, <2>4 DEF LinkContract
<1>. QED
  BY <1>3, <1>4

(* The text follows the label of the one link that waits for it            *)
(* (mylsnr.cpp:112).                                                       *)
LEMMA ToldText ==
  ASSUME TypeOK, Told, LinkContract, NEW d \in Dispatchers, SendText(d)
  PROVE  Told' /\ LinkContract'
<1>1. /\ link' = link /\ lpc = "text" /\ d \in links /\ said[d] = <<"CONFIG">>
      /\ said \in [Dispatchers -> Seq(Words)] /\ links \subseteq Dispatchers
  BY DEF SendText, TypeOK, LinkType, RoundType
<1>2. CASE d \notin Live
  <2>1. links' = {} /\ said' = said
    BY <1>2 DEF SendText, Dies
  <2>. QED
    BY <1>1, <2>1, ToldFrame
<1>3. CASE d \in Live
  <2>1. lpc' = "run" /\ links' = links /\ said' = Tell({d}, "OPTIONS")
    BY <1>3 DEF SendText
  <2>2. /\ \A e \in Dispatchers \ {d} : said'[e] = said[e]
        /\ Len(said'[d]) = 2 /\ said'[d][1] = "CONFIG" /\ said'[d][2] = "OPTIONS"
    <3>1. "OPTIONS" \in Words /\ Len(said[d]) = 1 /\ said[d][1] = "CONFIG"
      BY <1>1 DEF Words
    <3>2. /\ \A e \in Dispatchers \ {d} : said'[e] = said[e]
          /\ Len(said'[d]) = Len(said[d]) + 1
          /\ said'[d][Len(said[d]) + 1] = "OPTIONS"
          /\ \A i \in 1 .. Len(said[d]) : said'[d][i] = said[d][i]
      BY <2>1, <3>1, TellOne
    <3>. QED
      BY <3>1, <3>2
  <2>3. \A e \in links \ {d} : Len(said[e]) >= 2
    <3>1. ASSUME NEW e \in links \ {d} PROVE Len(said[e]) >= 2
      <4>1. e \in links /\ d \in links /\ e # d /\ Len(said[d]) = 1 /\ said[e] # << >>
        BY <1>1, <3>1 DEF Told
      <4>2. Len(said[e]) # 1
        BY <4>1 DEF Told
      <4>3. said[e] \in Seq(Words)
        BY <1>1, <4>1
      <4>4. Len(said[e]) \in Nat /\ Len(said[e]) # 0
        BY <4>1, <4>3, EmptySeq
      <4>5. \A n \in Nat : n # 0 /\ n # 1 => n >= 2
        OBVIOUS
      <4>. QED
        BY ONLY <4>2, <4>4, <4>5, Zenon
    <3>. QED
      BY <3>1
  <2>4. Told'
    <3>1. \A e \in Dispatchers :
            /\ e \in links' => link'[e] = "accepted" /\ said'[e] # << >>
            /\ link'[e] # "accepted" => said'[e] = << >>
            /\ e \in links' => said'[e][Len(said'[e])] # "EXIT"
      <4>1. said'[d] # << >> /\ said'[d][Len(said'[d])] # "EXIT" /\ link'[d] = "accepted"
        BY <1>1, <2>2, EmptySeq DEF Told
      <4>2. \A e \in Dispatchers \ {d} :
              /\ e \in links' => link'[e] = "accepted" /\ said'[e] # << >>
              /\ link'[e] # "accepted" => said'[e] = << >>
              /\ e \in links' => said'[e][Len(said'[e])] # "EXIT"
        BY <1>1, <2>1, <2>2 DEF Told
      <4>. QED
        BY <4>1, <4>2
    <3>2. \A e \in links' : Len(said'[e]) # 1
      <4>1. ASSUME NEW e \in links', e # d PROVE Len(said'[e]) # 1
        <5>1. e \in links /\ e \in Dispatchers \ {d}
          BY <1>1, <2>1, <4>1
        <5>2. said'[e] = said[e] /\ Len(said'[e]) = Len(said[e])
          BY <2>2, <5>1
        <5>3. Len(said[e]) >= 2 /\ Len(said[e]) \in Nat
          BY <1>1, <2>3, <5>1
        <5>4. \A n \in Nat : n >= 2 => n # 1
          OBVIOUS
        <5>. QED
          BY ONLY <5>2, <5>3, <5>4, Zenon
      <4>. QED
        BY <2>2, <4>1
    <3>3. lpc' \notin Ended \union {"boot"}
      BY <2>1 DEF Ended
    <3>. QED
      BY <3>1, <3>2, <3>3 DEF Told, Ended
  <2>5. LinkContract'
    <3>1. ASSUME NEW e \in Dispatchers, NEW i \in 1 .. Len(said'[e])
          PROVE  IF i <= 2 THEN said'[e][i] = Form[i]
                 ELSE said'[e][i] = "client" \/ (said'[e][i] = "EXIT" /\ i = Len(said'[e]))
      <4>1. CASE e = d
        BY <2>2, <3>1, <4>1 DEF Form
      <4>2. CASE e # d
        BY <2>2, <3>1, <4>2 DEF LinkContract
      <4>. QED
        BY <4>1, <4>2
    <3>2. Form' = Form
      BY DEF Form
    <3>3. \A e \in links' : Len(said'[e]) >= 2
      <4>1. ASSUME NEW e \in links', e # d PROVE Len(said'[e]) >= 2
        <5>1. e \in links /\ e \in Dispatchers \ {d}
          BY <1>1, <2>1, <4>1
        <5>2. said'[e] = said[e] /\ Len(said'[e]) = Len(said[e])
          BY <2>2, <5>1
        <5>3. Len(said[e]) >= 2 /\ Len(said[e]) \in Nat
          BY <1>1, <2>3, <5>1
        <5>. QED
          BY <5>2, <5>3
      <4>. QED
        BY <2>2, <4>1
    <3>. QED
      BY <3>1, <3>2, <3>3 DEF LinkContract
  <2>. QED
    BY <2>4, <2>5
<1>. QED
  BY <1>2, <1>3

(* Every step of the listener and of the dispatchers keeps what is said    *)
(* true of the links.                                                      *)
LEMMA ToldStep ==
  ASSUME TypeOK, Births, Told, LinkContract, [Next]_vars
  PROVE  Told' /\ LinkContract'
<1>1. CASE Start
  <2>1. links = {} /\ links' = links /\ UNCHANGED <<link, said>>
    BY <1>1 DEF Start, Told, Running, linkVars
  <2>. QED
    BY <2>1, ToldFrame
<1>2. CASE Boot
  <2>1. links = {} /\ links' = links /\ UNCHANGED <<link, said>>
    BY <1>2 DEF Boot, Told, linkVars
  <2>. QED
    BY <2>1, ToldFrame
<1>3. CASE Loop \/ pollSockets \/ PollInterrupted \/ PollTimeout \/ AcceptClient \/ HandshakeFail
  <2>1. lpc' \in {"poll", "run", "ssl"} /\ lpc \in {"poll", "run", "ssl"} /\ links' = links
    BY <1>3 DEF Loop, RoundOver, pollSockets, PollInterrupted, PollTimeout, AcceptClient, HandshakeFail
  <2>2. UNCHANGED <<link, said>>
    BY <1>3 DEF Loop, pollSockets, PollInterrupted, PollTimeout, AcceptClient, HandshakeFail, linkVars
  <2>3. lpc' \notin Ended \union {"boot"} /\ lpc # "text" /\ lpc # "linger"
    BY <2>1 DEF Ended
  <2>. QED
    BY <2>1, <2>2, <2>3, ToldFrame
<1>4. CASE HandshakeKills \/ Terminate \/ Linger
  <2>1. links' = {} /\ UNCHANGED <<link, said>>
    BY <1>4 DEF HandshakeKills, Terminate, Linger, Dies, linkVars
  <2>. QED
    BY <2>1, ToldFrame
<1>5. CASE Sigint \/ ClientArrives
  <2>1. lpc' = lpc /\ links' = links /\ UNCHANGED <<link, said>>
    BY <1>5 DEF Sigint, ClientArrives, roundVars, linkVars
  <2>. QED
    BY <2>1, ToldFrame DEF Told
<1>6. CASE Goodbye \/ HandshakeOk
  BY <1>6, ToldAll
<1>7. ASSUME NEW d \in Dispatchers, AcceptDispatcher(d) PROVE Told' /\ LinkContract'
  BY <1>7, ToldAccept
<1>8. ASSUME NEW d \in Dispatchers, SendText(d) PROVE Told' /\ LinkContract'
  BY <1>8, ToldText
<1>9. ASSUME NEW d \in Dispatchers, DropLink(d) PROVE Told' /\ LinkContract'
  <2>1. lpc = "run" /\ lpc' = "run" /\ links' \subseteq links /\ UNCHANGED <<link, said>>
    BY <1>9 DEF DropLink, linkVars
  <2>2. "run" \notin Ended \union {"boot"}
    BY DEF Ended
  <2>. QED
    BY <2>1, <2>2, ToldFrame
<1>10. ASSUME NEW d \in Dispatchers, Connect(d) PROVE Told' /\ LinkContract'
  <2>1. /\ link[d] = "none" /\ link' = [link EXCEPT ![d] = "waiting"]
        /\ lpc' = lpc /\ links' = links /\ said' = said
    BY <1>10 DEF Connect, roundVars
  <2>2. said[d] = << >> /\ d \notin links
    BY <2>1 DEF Told
  <2>3. \A e \in Dispatchers : link'[e] = IF e = d THEN "waiting" ELSE link[e]
    BY <2>1 DEF TypeOK, LinkType
  <2>4. Told'
    BY <2>1, <2>2, <2>3 DEF Told, Ended
  <2>5. LinkContract'
    BY <2>1 DEF LinkContract, Form
  <2>. QED
    BY <2>4, <2>5
<1>11. ASSUME NEW d \in Dispatchers, DispatcherEnds(d) PROVE Told' /\ LinkContract'
  <2>1. lpc' = lpc /\ links' = links /\ UNCHANGED <<link, said>>
    BY <1>11 DEF DispatcherEnds, roundVars, linkVars
  <2>. QED
    BY <2>1, ToldFrame DEF Told
<1>12. CASE UNCHANGED vars
  <2>1. lpc' = lpc /\ links' = links /\ UNCHANGED <<link, said>>
    BY <1>12 DEF vars, roundVars, linkVars
  <2>. QED
    BY <2>1, ToldFrame DEF Told
<1>. QED
  BY <1>1, <1>2, <1>3, <1>4, <1>5, <1>6, <1>7, <1>8, <1>9, <1>10, <1>11, <1>12
     DEF Next, ListenerStep, HandshakeStep, DispatcherStep, Die, Obey, ConnectFails, Terminated

(* A step that forks nobody and starts no listener brings no foreigner.    *)
LEMMA ForeignFrame ==
  ASSUME NoForeigner, UNCHANGED <<life, tcpBound, born>>, Live' \subseteq Live,
         Running' /\ lpc' # "boot" => Running /\ lpc # "boot"
  PROVE  NoForeigner'
BY DEF NoForeigner

(* A dispatcher forked after the port was bound is the listener's own.     *)
LEMMA ForeignFork ==
  ASSUME TypeOK, Births, Running, UNCHANGED life,
         tcpBound' \subseteq tcpBound \union {life},
         \A d \in Live : born[d] > 0 /\ (born[d] = life \/ born[d] \notin tcpBound),
         NEW ds \in [Dispatchers -> {"free", "alive", "zombie", "reaped"}],
         \A d \in Dispatchers : ds[d] = "alive" <=> dstate[d] = "alive",
         create_dispatcher(ds)
  PROVE  NoForeigner'
<1>0. life \in Nat /\ life > 0 /\ born \in [Dispatchers -> 0 .. MaxLives]
  BY DEF TypeOK, ListenType, ProcessType, Births
<1>1. CASE dstate' = ds /\ UNCHANGED born
  <2>1. Live' = Live
    BY <1>1 DEF Live
  <2>. QED
    BY <1>1, <2>1 DEF NoForeigner
<1>2. ASSUME NEW d \in Dispatchers,
             dstate' = [ds EXCEPT ![d] = "alive"], born' = [born EXCEPT ![d] = life]
      PROVE  NoForeigner'
  <2>1. \A e \in Live' : e = d \/ e \in Live
    BY <1>2 DEF Live
  <2>2. \A e \in Dispatchers : born'[e] = IF e = d THEN life ELSE born[e]
    BY <1>0, <1>2
  <2>. QED
    BY <1>0, <2>1, <2>2 DEF NoForeigner, Live
<1>. QED
  BY <1>1, <1>2 DEF create_dispatcher

(* bind() fails while a dispatcher of an earlier life keeps that life's    *)
(* socket (mylsnr.cpp:170-174).                                            *)
LEMMA ForeignStep ==
  ASSUME TypeOK, Births, NoForeigner, [Next]_vars PROVE NoForeigner'
<1>1. CASE Start
  BY <1>1 DEF Start, NoForeigner, Live
<1>2. CASE Boot
  <2>0. create_dispatcher(dstate) /\ Running /\ life' = life
    BY <1>2 DEF Boot, Running, Ended
  <2>1. dstate \in [Dispatchers -> {"free", "alive", "zombie", "reaped"}]
    BY DEF TypeOK, ProcessType
  <2>2. CASE \E n \in tcpBound : SocketOpen(n)
    <3>1. lpc' = "segv" /\ ~Running'
      BY <1>2, <2>2 DEF Boot, Running, Ended
    <3>2. \A d \in Live' : born'[d] > 0
      BY <2>0, <2>1 DEF create_dispatcher, NoForeigner, Live, Births, TypeOK, ProcessType, ListenType
    <3>. QED
      BY <3>1, <3>2 DEF NoForeigner
  <2>3. CASE ~\E n \in tcpBound : SocketOpen(n)
    <3>1. tcpBound' = tcpBound \union {life}
      BY <1>2, <2>3 DEF Boot
    <3>2. \A d \in Live : born[d] > 0 /\ born[d] \notin tcpBound
      BY <2>3 DEF SocketOpen, NoForeigner
    <3>. QED
      BY <2>0, <2>1, <3>1, <3>2, ForeignFork
  <2>. QED
    BY <2>2, <2>3
<1>3. CASE PollTimeout
  <2>1. Running /\ lpc # "boot" /\ UNCHANGED <<life, tcpBound>>
    BY <1>3 DEF PollTimeout, Running, Ended, listenVars
  <2>2. CASE Zombies = {}
    BY <1>3, <2>1, <2>2, ForeignFrame DEF PollTimeout, processVars, Live
  <2>3. CASE Zombies # {}
    <3>1. PICK z \in Zombies : create_dispatcher([dstate EXCEPT ![z] = "reaped"])
      BY <1>3, <2>3 DEF PollTimeout
    <3>2. [dstate EXCEPT ![z] = "reaped"] \in [Dispatchers -> {"free", "alive", "zombie", "reaped"}]
      BY DEF TypeOK, ProcessType
    <3>3. \A d \in Dispatchers : [dstate EXCEPT ![z] = "reaped"][d] = "alive" <=> dstate[d] = "alive"
      BY DEF TypeOK, ProcessType, Zombies
    <3>. QED
      BY <2>1, <3>1, <3>2, <3>3, ForeignFork DEF NoForeigner
  <2>. QED
    BY <2>2, <2>3
<1>4. ASSUME NEW d \in Dispatchers, DispatcherEnds(d) PROVE NoForeigner'
  <2>1. Live' \subseteq Live
    BY <1>4 DEF DispatcherEnds, Live, TypeOK, ProcessType
  <2>. QED
    BY <1>4, <2>1, ForeignFrame DEF DispatcherEnds, listenVars, roundVars, Running
<1>5. ASSUME UNCHANGED <<life, tcpBound, born, dstate>>, Running' /\ lpc' # "boot" => Running /\ lpc # "boot"
      PROVE  NoForeigner'
  BY <1>5, ForeignFrame DEF Live
<1>6. CASE Sigint \/ Loop \/ pollSockets \/ PollInterrupted \/ HandshakeFail \/ AcceptClient \/ ClientArrives
  <2>1. Running /\ lpc # "boot"
    BY <1>6 DEF Sigint, Loop, RoundOver, pollSockets, PollInterrupted, HandshakeFail, AcceptClient, ClientArrives,
                Running, Ended
  <2>2. UNCHANGED <<life, tcpBound, born, dstate>>
    BY <1>6 DEF Sigint, Loop, pollSockets, PollInterrupted, HandshakeFail, AcceptClient, ClientArrives,
                listenVars, processVars
  <2>. QED
    BY <1>5, <2>1, <2>2
<1>7. CASE Linger \/ Terminate \/ HandshakeKills
  BY <1>5, <1>7 DEF Linger, Terminate, HandshakeKills, Dies, listenVars, processVars, Running, Ended
<1>8. CASE Goodbye \/ HandshakeOk
  <2>1. Running /\ lpc # "boot"
    BY <1>8 DEF Goodbye, HandshakeOk, RoundOver, Running, Ended
  <2>2. UNCHANGED <<life, tcpBound, born, dstate>>
    BY <1>8 DEF Goodbye, HandshakeOk, listenVars, processVars
  <2>. QED
    BY <1>5, <2>1, <2>2
<1>9. ASSUME NEW d \in Dispatchers, AcceptDispatcher(d) \/ SendText(d) \/ DropLink(d) PROVE NoForeigner'
  <2>1. Running /\ lpc # "boot"
    BY <1>9 DEF AcceptDispatcher, SendText, DropLink, Running, Ended
  <2>2. UNCHANGED <<life, tcpBound, born, dstate>>
    BY <1>9 DEF AcceptDispatcher, SendText, DropLink, listenVars, processVars
  <2>. QED
    BY <1>5, <2>1, <2>2
<1>10. ASSUME NEW d \in Dispatchers, Connect(d) PROVE NoForeigner'
  BY <1>5, <1>10 DEF Connect, listenVars, roundVars, processVars, Running
<1>11. CASE UNCHANGED vars
  BY <1>5, <1>11 DEF vars, listenVars, roundVars, processVars, Running
<1>. QED
  BY <1>1, <1>2, <1>3, <1>4, <1>6, <1>7, <1>8, <1>9, <1>10, <1>11
     DEF Next, ListenerStep, HandshakeStep, DispatcherStep, Die, Obey, ConnectFails, Terminated

(* A step that forks nobody and connects nobody leaves the past alone.     *)
LEMMA PastFrame ==
  ASSUME Past, TypeOK, UNCHANGED <<target, copies>>,
         life' = life \/ life' = life + 1, path' = path \/ path' = 0 \/ path' = life',
         \A d \in Dispatchers : dstate'[d] = "free" => dstate[d] = "free"
  PROVE  Past'
<1>1. life \in Nat /\ path \in Nat /\ \A d \in Dispatchers : target[d] \in Nat /\ copies[d] \subseteq Dispatchers
  BY DEF TypeOK, ListenType, LinkType, ProcessType
<1>2. path' <= life'
  BY <1>1 DEF Past
<1>3. \A d \in Dispatchers : target'[d] <= life' /\ \A e \in copies'[d] : dstate'[e] # "free"
  BY <1>1 DEF Past
<1>. QED
  BY <1>2, <1>3 DEF Past

(* fork() copies the links to a process that has just begun to be.         *)
LEMMA PastFork ==
  ASSUME Past, TypeOK, UNCHANGED <<target, life>>, path' = path \/ path' = life,
         NEW ds \in [Dispatchers -> {"free", "alive", "zombie", "reaped"}],
         \A d \in Dispatchers : ds[d] = "free" => dstate[d] = "free",
         create_dispatcher(ds)
  PROVE  Past'
<1>1. CASE dstate' = ds /\ UNCHANGED <<born, copies>>
  BY <1>1, PastFrame
<1>2. ASSUME NEW d \in Dispatchers, dstate' = [ds EXCEPT ![d] = "alive"],
             copies' = [e \in Dispatchers |-> IF e \in links THEN copies[e] \union {d} ELSE copies[e]]
      PROVE  Past'
  <2>1. \A e \in Dispatchers : copies[e] \subseteq Dispatchers
    BY DEF TypeOK, ProcessType
  <2>2. \A e \in Dispatchers : \A x \in copies'[e] : x \in copies[e] \/ x = d
    BY <1>2
  <2>3. \A x \in Dispatchers : dstate'[x] = IF x = d THEN "alive" ELSE ds[x]
    BY <1>2
  <2>4. \A e \in Dispatchers : \A x \in copies'[e] : dstate'[x] # "free"
    BY <2>1, <2>2, <2>3 DEF Past
  <2>5. path' <= life' /\ \A e \in Dispatchers : target'[e] <= life'
    BY DEF Past, TypeOK, ListenType
  <2>. QED
    BY <2>4, <2>5 DEF Past
<1>. QED
  BY <1>1, <1>2 DEF create_dispatcher

(* What is connected to or inherited has been there (mydisp.cpp:215,       *)
(* mylsnr.cpp:45).                                                         *)
LEMMA PastStep ==
  ASSUME TypeOK, Past, [Next]_vars PROVE Past'
<1>1. ASSUME UNCHANGED <<target, copies, dstate, life>>, path' = path \/ path' = 0 PROVE Past'
  BY <1>1, PastFrame
<1>2. CASE Start
  BY <1>2, PastFrame DEF Start, linkVars
<1>3. CASE Boot
  <2>1. create_dispatcher(dstate) /\ UNCHANGED <<target, life>> /\ path' = life
    BY <1>3 DEF Boot, linkVars
  <2>2. dstate \in [Dispatchers -> {"free", "alive", "zombie", "reaped"}]
    BY DEF TypeOK, ProcessType
  <2>. QED
    BY <2>1, <2>2, PastFork
<1>4. CASE PollTimeout
  <2>1. UNCHANGED <<target, life, path>>
    BY <1>4 DEF PollTimeout, listenVars, linkVars
  <2>2. CASE Zombies = {}
    BY <1>1, <1>4, <2>1, <2>2 DEF PollTimeout, processVars
  <2>3. CASE Zombies # {}
    <3>1. PICK z \in Zombies : create_dispatcher([dstate EXCEPT ![z] = "reaped"])
      BY <1>4, <2>3 DEF PollTimeout
    <3>2. [dstate EXCEPT ![z] = "reaped"] \in [Dispatchers -> {"free", "alive", "zombie", "reaped"}]
      BY DEF TypeOK, ProcessType
    <3>3. \A d \in Dispatchers : [dstate EXCEPT ![z] = "reaped"][d] = "free" => dstate[d] = "free"
      BY DEF TypeOK, ProcessType
    <3>. QED
      BY <2>1, <3>1, <3>2, <3>3, PastFork
  <2>. QED
    BY <2>2, <2>3
<1>5. ASSUME NEW d \in Dispatchers, DispatcherEnds(d) PROVE Past'
  <2>1. \A e \in Dispatchers : dstate'[e] = "free" => dstate[e] = "free"
    BY <1>5 DEF DispatcherEnds, TypeOK, ProcessType
  <2>. QED
    BY <1>5, <2>1, PastFrame DEF DispatcherEnds, listenVars, linkVars
<1>6. ASSUME NEW d \in Dispatchers, Connect(d) PROVE Past'
  <2>1. \A e \in Dispatchers : target'[e] = IF e = d THEN path ELSE target[e]
    BY <1>6 DEF Connect, TypeOK, LinkType
  <2>. QED
    BY <1>6, <2>1 DEF Connect, Past, listenVars, processVars
<1>7. CASE Sigint \/ Loop \/ pollSockets \/ PollInterrupted \/ HandshakeFail \/ AcceptClient \/ ClientArrives
  BY <1>1, <1>7 DEF Sigint, Loop, pollSockets, PollInterrupted, HandshakeFail, AcceptClient, ClientArrives,
                    listenVars, processVars, linkVars
<1>8. CASE Linger \/ Terminate \/ HandshakeKills
  BY <1>1, <1>8 DEF Linger, Terminate, HandshakeKills, listenVars, processVars, linkVars
<1>9. CASE Goodbye \/ HandshakeOk
  BY <1>1, <1>9 DEF Goodbye, HandshakeOk, listenVars, processVars
<1>10. ASSUME NEW d \in Dispatchers, AcceptDispatcher(d) \/ SendText(d) \/ DropLink(d) PROVE Past'
  BY <1>1, <1>10 DEF AcceptDispatcher, SendText, DropLink, listenVars, processVars, linkVars
<1>11. CASE UNCHANGED vars
  BY <1>1, <1>11 DEF vars, listenVars, processVars, linkVars
<1>. QED
  BY <1>2, <1>3, <1>4, <1>5, <1>6, <1>7, <1>8, <1>9, <1>10, <1>11
     DEF Next, ListenerStep, HandshakeStep, DispatcherStep, Die, Obey, ConnectFails, Terminated

-------------------------------------------------------------------------------
(* Counting the clients passed on.                                         *)

(* A listener past its boot is linked with one living dispatcher at most,  *)
(* if every listener so far has its port (mylsnr.cpp:170-174, 198-203).    *)
LEMMA OneLinked ==
  ASSUME TypeOK, Births, Told, NoForeigner, (1 .. life) \subseteq tcpBound
  PROVE  \A d, e \in links \intersect Live : d = e
<1>. SUFFICES ASSUME NEW d \in links \intersect Live, NEW e \in links \intersect Live
              PROVE  d = e
  OBVIOUS
<1>1. Running /\ lpc # "boot"
  BY DEF Told, Running
<1>2. life \in Nat /\ \A x \in Dispatchers : born[x] \in Nat /\ born[x] <= life
  BY DEF TypeOK, ListenType, ProcessType, Births
<1>3. \A x \in Live : born[x] = life
  BY <1>1, <1>2 DEF NoForeigner, Live
<1>. QED
  BY <1>3 DEF Births, Children, Live, Unreaped

(* What a place in what was said is.                                       *)
LEMMA PassedIs ==
  \A w : w \in Passed <=>
    \E d \in Dispatchers : \E i \in 1 .. Len(said[d]) : said[d][i] = "client" /\ w = <<d, i>>
BY DEF Passed

LEMMA PassedIsNext ==
  \A w : w \in Passed' <=>
    \E d \in Dispatchers : \E i \in 1 .. Len(said'[d]) : said'[d][i] = "client" /\ w = <<d, i>>
BY DEF Passed

(* Any other word passes nobody on.                                        *)
LEMMA TellOther ==
  ASSUME TypeOK, NEW D \in SUBSET Dispatchers, NEW w \in Words, w # "client", said' = Tell(D, w)
  PROVE  Passed' = Passed
<1>1. \A d \in Dispatchers : Len(said[d]) \in Nat
  BY DEF TypeOK, LinkType
<1>2. \A d \in Dispatchers \ D : said'[d] = said[d]
  BY TellSaid
<1>3. \A d \in D : /\ Len(said'[d]) = Len(said[d]) + 1
                  /\ said'[d][Len(said[d]) + 1] = w
                  /\ \A i \in 1 .. Len(said[d]) : said'[d][i] = said[d][i]
  BY TellSaid
<1>4. ASSUME NEW d \in Dispatchers, NEW i
      PROVE  (i \in 1 .. Len(said'[d]) /\ said'[d][i] = "client")
             <=> (i \in 1 .. Len(said[d]) /\ said[d][i] = "client")
  <2>1. CASE d \notin D
    BY <1>2, <2>1
  <2>2. CASE d \in D
    <3>1. CASE i = Len(said[d]) + 1
      BY <1>1, <1>3, <2>2, <3>1
    <3>2. CASE i # Len(said[d]) + 1
      BY <1>1, <1>3, <2>2, <3>2
    <3>. QED
      BY <3>1, <3>2
  <2>. QED
    BY <2>1, <2>2
<1>5. \A v : v \in Passed' <=> v \in Passed
  BY <1>4, PassedIs, PassedIsNext
<1>. QED
  BY <1>5

(* A client told to one dispatcher, or to none, is passed on once.         *)
LEMMA TellClient ==
  ASSUME TypeOK, NEW D \in SUBSET Dispatchers, \A d, e \in D : d = e, said' = Tell(D, "client"),
         IsFiniteSet(Passed)
  PROVE  IsFiniteSet(Passed') /\ Cardinality(Passed') <= Cardinality(Passed) + 1
<1>0. "client" \in Words /\ Cardinality(Passed) \in Nat
  BY FS_CardinalityType DEF Words
<1>1. CASE D = {}
  <2>1. \A d \in Dispatchers : said'[d] = said[d]
    BY <1>0, <1>1, TellSaid
  <2>2. \A w : w \in Passed' <=> w \in Passed
    BY <2>1, PassedIs, PassedIsNext
  <2>3. Passed' = Passed
    BY <2>2
  <2>. QED
    BY <1>0, <2>3
<1>2. ASSUME NEW d \in D PROVE IsFiniteSet(Passed') /\ Cardinality(Passed') <= Cardinality(Passed) + 1
  <2>. DEFINE new == <<d, Len(said[d]) + 1>>
  <2>1. \A e \in Dispatchers : Len(said[e]) \in Nat
    BY DEF TypeOK, LinkType
  <2>2. \A e \in Dispatchers \ {d} : said'[e] = said[e]
    BY <1>0, <1>2, TellSaid
  <2>3. /\ Len(said'[d]) = Len(said[d]) + 1
        /\ \A i \in 1 .. Len(said[d]) : said'[d][i] = said[d][i]
    BY <1>0, <1>2, TellSaid
  <2>4. Passed' \subseteq Passed \union {new}
    <3>. SUFFICES ASSUME NEW w \in Passed', w \notin Passed PROVE w = new
      OBVIOUS
    <3>0. PICK e \in Dispatchers : \E i \in 1 .. Len(said'[e]) : said'[e][i] = "client" /\ w = <<e, i>>
      BY PassedIsNext
    <3>1. PICK i \in 1 .. Len(said'[e]) : said'[e][i] = "client" /\ w = <<e, i>>
      BY <3>0
    <3>2. e = d
      BY <2>2, <3>1, PassedIs
    <3>3. i \notin 1 .. Len(said[d])
      BY <2>3, <3>1, <3>2, PassedIs
    <3>. QED
      BY <2>1, <2>3, <3>1, <3>2, <3>3
  <2>. HIDE DEF new
  <2>5. IsFiniteSet(Passed \union {new}) /\ Cardinality(Passed \union {new}) <= Cardinality(Passed) + 1
    <3>1. /\ IsFiniteSet(Passed \union {new})
          /\ \/ Cardinality(Passed \union {new}) = Cardinality(Passed)
             \/ Cardinality(Passed \union {new}) = Cardinality(Passed) + 1
      BY FS_AddElement
    <3>. QED
      BY <1>0, <3>1
  <2>6. IsFiniteSet(Passed') /\ Cardinality(Passed') <= Cardinality(Passed \union {new})
    BY <2>4, <2>5, FS_Subset
  <2>. QED
    BY <1>0, <2>5, <2>6, FS_CardinalityType
<1>. QED
  BY <1>1, <1>2

(* A listener without its port is never forgotten.                         *)
LEMMA PortedBefore ==
  ASSUME TypeOK, [Next]_vars, Ported' PROVE Ported
<1>0. life \in Nat
  BY DEF TypeOK, ListenType
<1>1. ASSUME UNCHANGED <<life, tcpBound>>, lpc' # "boot" \/ lpc' = lpc PROVE Ported
  BY <1>1 DEF Ported
<1>2. CASE Start
  <2>1. life' = life + 1 /\ tcpBound' = tcpBound
    BY <1>2 DEF Start
  <2>. QED
    BY <1>0, <2>1 DEF Ported
<1>3. CASE Boot
  <2>1. life' = life /\ lpc = "boot" /\ lpc' # "boot" /\ tcpBound' \subseteq tcpBound \union {life}
    BY <1>3 DEF Boot
  <2>. QED
    BY <2>1 DEF Ported
<1>4. CASE Sigint \/ Loop \/ pollSockets \/ PollInterrupted \/ PollTimeout \/ HandshakeFail \/ AcceptClient \/ ClientArrives
  BY <1>1, <1>4 DEF Sigint, Loop, pollSockets, PollInterrupted, PollTimeout, HandshakeFail, AcceptClient,
                    ClientArrives, listenVars, roundVars
<1>5. CASE Linger \/ Terminate \/ HandshakeKills
  BY <1>1, <1>5 DEF Linger, Terminate, HandshakeKills, Dies, listenVars
<1>6. CASE Goodbye \/ HandshakeOk
  BY <1>1, <1>6 DEF Goodbye, HandshakeOk, TellAll, Dies, listenVars
<1>7. ASSUME NEW d \in Dispatchers, AcceptDispatcher(d) \/ SendText(d) \/ DropLink(d) PROVE Ported
  BY <1>1, <1>7 DEF AcceptDispatcher, SendText, DropLink, Dies, listenVars
<1>8. ASSUME NEW d \in Dispatchers, DispatcherEnds(d) \/ Connect(d) PROVE Ported
  BY <1>1, <1>8 DEF DispatcherEnds, Connect, listenVars, roundVars
<1>9. CASE UNCHANGED vars
  BY <1>1, <1>9 DEF vars, listenVars, roundVars
<1>. QED
  BY <1>2, <1>3, <1>4, <1>5, <1>6, <1>7, <1>8, <1>9
     DEF Next, ListenerStep, HandshakeStep, DispatcherStep, Die, Obey, ConnectFails, Terminated

(* The count stays within what was accepted: a client leaves the queue     *)
(* before its handshake and is passed on after it (mylsnr.cpp:59-80).      *)
LEMMA CountStep ==
  ASSUME TypeOK, TypeOK', Queue, Births, Told, NoForeigner, Counted, [Next]_vars
  PROVE  Counted'
<1>. SUFFICES ASSUME Ported' PROVE Counted'
  BY DEF Counted
<1>. DEFINE shaking == IF lpc = "ssl" THEN 1 ELSE 0
            spent == arrived - pending - shaking
<1>0. /\ IsFiniteSet(Passed) /\ Cardinality(Passed) \in Nat /\ Cardinality(Passed) <= spent
      /\ arrived \in Nat /\ pending \in Nat /\ arrived' \in Nat /\ pending' \in Nat /\ pending <= arrived
  BY PortedBefore, FS_CardinalityType DEF Counted, TypeOK, ListenType, RoundType, Queue
<1>1. ASSUME Passed' = Passed, spent <= spent' PROVE Counted'
  <2>1. IsFiniteSet(Passed')
    BY <1>0, <1>1
  <2>2. Cardinality(Passed') = Cardinality(Passed)
    BY <1>1
  <2>3. Cardinality(Passed') <= spent'
    <3>1. Cardinality(Passed) \in Int /\ spent \in Int /\ spent' \in Int
      BY <1>0
    <3>2. Cardinality(Passed) <= spent /\ spent <= spent'
      BY <1>0, <1>1
    <3>. HIDE DEF spent
    <3>3. \A a, b, c \in Int : a <= b /\ b <= c => a <= c
      OBVIOUS
    <3>4. Cardinality(Passed) <= spent'
      BY <3>1, <3>2, <3>3
    <3>. QED
      BY <2>2, <3>4
  <2>4. Cardinality(Passed') + (IF lpc' = "ssl" THEN 1 ELSE 0) <= arrived' - pending'
    BY <1>0, <2>2, <2>3
  <2>. QED
    BY <2>1, <2>4 DEF Counted
<1>2. ASSUME said' = said PROVE Passed' = Passed
  BY <1>2 DEF Passed
<1>3. ASSUME NEW how, Dies(how), how # "ssl", arrived' = arrived PROVE spent <= spent'
  BY <1>0, <1>3 DEF Dies
<1>4. ASSUME UNCHANGED <<said, arrived, pending>>, lpc' # "ssl" \/ lpc' = lpc PROVE Counted'
  BY <1>0, <1>1, <1>2, <1>4
<1>5. CASE Start \/ Boot \/ Sigint \/ Loop \/ pollSockets \/ PollInterrupted \/ PollTimeout \/ HandshakeFail
  BY <1>4, <1>5 DEF Start, Boot, Sigint, Loop, pollSockets, PollInterrupted, PollTimeout, HandshakeFail,
                    listenVars, roundVars, linkVars
<1>6. CASE AcceptClient
  <2>1. UNCHANGED <<said, arrived>> /\ lpc = "run" /\ lpc' = "ssl" /\ pending' = pending - 1
    BY <1>6 DEF AcceptClient, listenVars, linkVars
  <2>. QED
    BY <1>0, <1>1, <1>2, <2>1
<1>7. CASE ClientArrives
  <2>1. UNCHANGED <<said, lpc>> /\ arrived' = arrived + 1 /\ pending' = pending + 1
    BY <1>7 DEF ClientArrives, linkVars
  <2>. QED
    BY <1>0, <1>1, <1>2, <2>1
<1>8. CASE Linger \/ Terminate \/ HandshakeKills
  <2>1. UNCHANGED <<said, arrived>> /\ \E how \in Ended : Dies(how)
    BY <1>8 DEF Linger, Terminate, HandshakeKills, Ended, listenVars, linkVars
  <2>. QED
    BY <1>1, <1>2, <1>3, <2>1 DEF Ended
<1>9. CASE HandshakeOk
  <2>1. PICK D \in SUBSET (links \intersect Live) : said' = Tell(D, "client")
    BY <1>9 DEF HandshakeOk, TellAll
  <2>2. lpc = "ssl" /\ lpc' # "ssl" /\ arrived' = arrived /\ (pending' = pending \/ pending' = 0)
    BY <1>9 DEF HandshakeOk, TellAll, Dies, listenVars
  <2>3. \A d, e \in D : d = e
    <3>1. (1 .. life) \subseteq tcpBound
      BY <2>2, PortedBefore DEF Ported
    <3>. QED
      BY <2>1, <3>1, OneLinked
  <2>4. IsFiniteSet(Passed') /\ Cardinality(Passed') <= Cardinality(Passed) + 1
    <3>1. D \in SUBSET Dispatchers
      BY <2>1 DEF Live
    <3>. QED
      BY <1>0, <2>1, <2>3, <3>1, TellClient
  <2>5. Cardinality(Passed') \in Nat
    BY <2>4, FS_CardinalityType
  <2>. QED
    BY <1>0, <2>2, <2>4, <2>5 DEF Counted
<1>10. CASE Goodbye
  <2>1. PICK D \in SUBSET Dispatchers : said' = Tell(D, "EXIT")
    BY <1>10 DEF Goodbye, TellAll, TypeOK, RoundType
  <2>2. Passed' = Passed
    BY <2>1, TellOther DEF Words
  <2>3. lpc = "run" /\ lpc' # "ssl" /\ arrived' = arrived /\ (pending' = pending \/ pending' = 0)
    BY <1>10 DEF Goodbye, RoundOver, TellAll, Dies, listenVars
  <2>4. spent <= spent'
    <3>1. lpc # "ssl" /\ lpc' # "ssl" /\ arrived' = arrived
      BY <2>3
    <3>2. pending' <= pending
      BY <1>0, <2>3
    <3>3. spent = arrived - pending /\ spent' = arrived - pending'
      BY <1>0, <3>1
    <3>. HIDE DEF spent
    <3>4. \A a, p, q \in Nat : q <= p => a - p <= a - q
      OBVIOUS
    <3>. QED
      BY <1>0, <3>1, <3>2, <3>3, <3>4
  <2>. QED
    BY <1>1, <2>2, <2>4
<1>11. ASSUME NEW d \in Dispatchers, AcceptDispatcher(d) \/ SendText(d) PROVE Counted'
  <2>1. /\ lpc \in {"run", "text"} /\ lpc' # "ssl" /\ arrived' = arrived
        /\ pending' = pending \/ pending' = 0
        /\ said' = said \/ said' = Tell({d}, "CONFIG") \/ said' = Tell({d}, "OPTIONS")
    BY <1>11 DEF AcceptDispatcher, SendText, Dies, listenVars
  <2>2. PICK D \in SUBSET Dispatchers : D = {d}
    OBVIOUS
  <2>3. Passed' = Passed
    BY <1>2, <2>1, <2>2, TellOther DEF Words
  <2>4. spent <= spent'
    <3>1. lpc # "ssl" /\ lpc' # "ssl" /\ arrived' = arrived
      BY <2>1
    <3>2. pending' <= pending
      BY <1>0, <2>1
    <3>3. spent = arrived - pending /\ spent' = arrived - pending'
      BY <1>0, <3>1
    <3>. HIDE DEF spent
    <3>4. \A a, p, q \in Nat : q <= p => a - p <= a - q
      OBVIOUS
    <3>. QED
      BY <1>0, <3>1, <3>2, <3>3, <3>4
  <2>. QED
    BY <1>1, <2>3, <2>4
<1>12. ASSUME NEW d \in Dispatchers, DropLink(d) \/ DispatcherEnds(d) \/ Connect(d) PROVE Counted'
  BY <1>4, <1>12 DEF DropLink, DispatcherEnds, Connect, listenVars, roundVars, linkVars
<1>13. CASE UNCHANGED vars
  BY <1>4, <1>13 DEF vars, listenVars, roundVars, linkVars
<1>. QED
  BY <1>5, <1>6, <1>7, <1>8, <1>9, <1>10, <1>11, <1>12, <1>13
     DEF Next, ListenerStep, HandshakeStep, DispatcherStep, Die, Obey, ConnectFails, Terminated

(* Before the first start nothing has been forked or said.                 *)
LEMMA InitIInv == Init => IInv
<1>. SUFFICES ASSUME Init PROVE IInv
  OBVIOUS
<1>1. TypeOK
  <2>1. 0 \in 0 .. MaxLives /\ 0 \in 0 .. MaxClients /\ << >> \in Seq(Words)
    BY ListenerAssumption
  <2>2. ListenType /\ RoundType
    BY <2>1 DEF Init, ListenType, RoundType, Ended
  <2>3. ProcessType
    BY <2>1 DEF Init, ProcessType
  <2>4. LinkType
    BY <2>1 DEF Init, LinkType
  <2>. QED
    BY <2>2, <2>3, <2>4 DEF TypeOK
<1>2. Queue
  BY ListenerAssumption DEF Init, Queue
<1>3. Births
  BY DEF Init, Births, Children, Unreaped, Running, Ended
<1>4. Told
  BY DEF Init, Told
<1>5. LinkContract
  BY DEF Init, LinkContract
<1>6. NoForeigner
  BY DEF Init, NoForeigner, Live, Running, Ended
<1>7. Past
  BY DEF Init, Past
<1>8. Counted
  <2>1. Passed = {}
    BY DEF Init, Passed
  <2>. QED
    BY <2>1, FS_EmptySet DEF Init, Counted
<1>. QED
  BY <1>1, <1>2, <1>3, <1>4, <1>5, <1>6, <1>7, <1>8 DEF IInv

-------------------------------------------------------------------------------
(* IInv is an invariant of the listener (mylsnr.cpp:149-225), for every    *)
(* set of dispatchers, every number of clients and of starts.              *)
THEOREM ListenerInductive == Spec => []IInv
<1>1. IInv /\ [Next]_vars => IInv'
  BY TypeStep, QueueStep, BirthsStep, ToldStep, ForeignStep, PastStep, CountStep DEF IInv
<1>. QED
  BY InitIInv, <1>1, PTL DEF Spec

(* The variables keep their types: no counter leaves its range, and no     *)
(* connection is accepted when none is waiting (mylsnr.cpp:59-64, 120-136).*)
THEOREM ListenerTypeCorrect == Spec => []TypeOK
<1>1. IInv => TypeOK
  BY DEF IInv
<1>. QED
  BY <1>1, ListenerInductive, PTL

(* What a dispatcher reads from its parent is what Dispatcher.tla lets its *)
(* parent write (mylsnr.cpp:93-112, 71-77, 142-146).                       *)
THEOREM LinkContractHolds == Spec => []LinkContract
<1>1. IInv => LinkContract
  BY DEF IInv
<1>. QED
  BY <1>1, ListenerInductive, PTL

(* However often dispatchers die and fork() fails, the listener never has  *)
(* two live children (mylsnr.cpp:179, 198-203).                            *)
THEOREM OneChildHolds == Spec => []OneChild
<1>1. IInv => OneChild
  BY DEF IInv, Births, OneChild, Live, Unreaped
<1>. QED
  BY <1>1, ListenerInductive, PTL

(* As long as every listener got its port, no client is passed to two      *)
(* dispatchers (mylsnr.cpp:70-78, 170-174).                                *)
THEOREM OneServerHolds == Spec => []OneServer
<1>1. IInv => OneServer
  BY OneLinked DEF IInv, OneServer
<1>. QED
  BY <1>1, ListenerInductive, PTL

(* As long as every listener got its port, no client is passed on twice,   *)
(* to whomever (mylsnr.cpp:59-80).                                         *)
THEOREM PassedOnceHolds == Spec => []PassedOnce
<1>1. ASSUME IInv PROVE PassedOnce
  <2>1. (1 .. life) \subseteq tcpBound => Ported
    BY DEF Ported
  <2>. QED
    BY <1>1, <2>1 DEF IInv, Counted, PassedOnce
<1>. QED
  BY <1>1, ListenerInductive, PTL
=============================================================================
