---------------------------- MODULE SocketsProofs ----------------------------
(***************************************************************************)
(* Proofs about Sockets.tla, for any connections, numbers and list size.   *)
(* IInv is inductive; the ownership of descriptors follows from it.        *)
(***************************************************************************)
EXTENDS SocketsInvariant, SequenceTheorems, FiniteSetTheorems, TLAPS

-------------------------------------------------------------------------------
(* Numbers and lists.                                                      *)

(* The lowest number of a set is in it.                                    *)
LEMMA MinIsLowest ==
  ASSUME NEW S, S \subseteq Nat, S # {}
  PROVE  Min(S) \in S /\ \A m \in S : Min(S) <= m
<1>. DEFINE R == {ss \in Nat \X Nat : ss[1] < ss[2]}
<1>1. IsWellFoundedOn(R, Nat)
  BY NatLessThanWellFounded DEF OpToRel
<1>2. PICK n \in S : \A m \in S : <<m, n>> \notin R
  BY <1>1, WFMin
<1>3. ASSUME NEW m \in S
      PROVE  n <= m
  <2>1. m \in Nat /\ n \in Nat
    OBVIOUS
  <2>2. m < n => <<m, n>> \in R
    BY <2>1
  <2>. QED
    BY <1>2, <2>1, <2>2
<1>. QED
  BY <1>2, <1>3 DEF Min

(* delSocket takes out one socket, with the number of the one it was given,*)
(* or leaves the list alone.                                               *)
LEMMA DelFacts ==
  ASSUME TypeOK, NEW s, socketsList' = delSocket(socketsList, s)
  PROVE  \/ socketsList' = socketsList
         \/ \E f \in 1 .. Len(socketsList) :
              /\ descriptor[socketsList[f]] = descriptor[s]
              /\ socketsList' \in Seq(Living) /\ Len(socketsList') = Len(socketsList) - 1
              /\ \A i \in 1 .. Len(socketsList') : socketsList'[i] = socketsList[IF i < f THEN i ELSE i + 1]
              /\ Len(socketsList) # MaxSockets
<1>. DEFINE I == {i \in 1 .. Len(socketsList) : descriptor[socketsList[i]] = descriptor[s]}
            f == Min(I)
<1>. socketsList \in Seq(Living)
  BY DEF TypeOK
<1>1. CASE Len(socketsList) = MaxSockets \/ I = {}
  <2>1. I = {} => Find(socketsList, s) = 0
    BY Zenon DEF Find, SelectInSeq
  <2>. QED
    BY <1>1, <2>1 DEF delSocket
<1>2. CASE Len(socketsList) # MaxSockets /\ I # {}
  <2>1. Find(socketsList, s) = f
    BY <1>2 DEF Find, SelectInSeq
  <2>2. f \in I
    <3>1. I \subseteq Nat
      OBVIOUS
    <3>. QED
      BY ONLY <1>2, <3>1, MinIsLowest
  <2>3. f \in 1 .. Len(socketsList) /\ descriptor[socketsList[f]] = descriptor[s]
    BY <2>2
  <2>. HIDE DEF f, I
  <2>4. socketsList' = SubSeq(socketsList, 1, f - 1) \o SubSeq(socketsList, f + 1, Len(socketsList))
    <3>1. Len(socketsList) # MaxSockets
      BY <1>2
    <3>2. Find(socketsList, s) # 0
      BY <2>1, <2>3
    <3>3. socketsList' = RemoveAt(socketsList, Find(socketsList, s))
      BY ONLY socketsList' = delSocket(socketsList, s), <3>1, <3>2 DEF delSocket
    <3>4. socketsList' = RemoveAt(socketsList, f)
      BY ONLY <2>1, <3>3
    <3>. QED
      BY ONLY <3>4 DEF RemoveAt
  <2>5. /\ SubSeq(socketsList, 1, f - 1) \in Seq(Living)
        /\ Len(SubSeq(socketsList, 1, f - 1)) = f - 1
        /\ \A i \in 1 .. f - 1 : SubSeq(socketsList, 1, f - 1)[i] = socketsList[i]
    <3>1. \A i \in 1 .. f - 1 : socketsList[i] \in Living
      BY <2>3
    <3>2. f - 1 \in Int /\ f - 1 >= 0
      BY <2>3
    <3>3. /\ SubSeq(socketsList, 1, f - 1) \in Seq(Living)
          /\ Len(SubSeq(socketsList, 1, f - 1)) = IF 1 <= f - 1 THEN (f - 1) - 1 + 1 ELSE 0
          /\ \A i \in 1 .. (f - 1) - 1 + 1 : SubSeq(socketsList, 1, f - 1)[i] = socketsList[1 + i - 1]
      BY <3>1, <3>2, SubSeqProperties
    <3>. QED
      BY <3>2, <3>3
  <2>6. /\ SubSeq(socketsList, f + 1, Len(socketsList)) \in Seq(Living)
        /\ Len(SubSeq(socketsList, f + 1, Len(socketsList))) = Len(socketsList) - f
        /\ \A i \in 1 .. Len(socketsList) - f : SubSeq(socketsList, f + 1, Len(socketsList))[i] = socketsList[f + i]
    <3>1. \A i \in f + 1 .. Len(socketsList) : socketsList[i] \in Living
      BY <2>3
    <3>2. f + 1 \in Int /\ Len(socketsList) \in Int /\ f <= Len(socketsList)
      BY <2>3
    <3>3. /\ SubSeq(socketsList, f + 1, Len(socketsList)) \in Seq(Living)
          /\ Len(SubSeq(socketsList, f + 1, Len(socketsList))) =
               IF f + 1 <= Len(socketsList) THEN Len(socketsList) - (f + 1) + 1 ELSE 0
          /\ \A i \in 1 .. Len(socketsList) - (f + 1) + 1 :
               SubSeq(socketsList, f + 1, Len(socketsList))[i] = socketsList[(f + 1) + i - 1]
      BY <3>1, <3>2, SubSeqProperties
    <3>. QED
      BY <2>3, <3>3
  <2>7. /\ socketsList' \in Seq(Living)
        /\ Len(socketsList') = Len(socketsList) - 1
        /\ \A i \in 1 .. Len(socketsList') : socketsList'[i] = socketsList[IF i < f THEN i ELSE i + 1]
    <3>. DEFINE l == SubSeq(socketsList, 1, f - 1)
                r == SubSeq(socketsList, f + 1, Len(socketsList))
    <3>. HIDE DEF l, r
    <3>1. /\ socketsList' \in Seq(Living) /\ Len(socketsList') = Len(l) + Len(r)
          /\ \A i \in 1 .. Len(l) + Len(r) : socketsList'[i] = IF i <= Len(l) THEN l[i] ELSE r[i - Len(l)]
      BY <2>4, <2>5, <2>6, ConcatProperties DEF l, r
    <3>2. Len(l) = f - 1 /\ Len(r) = Len(socketsList) - f
      BY <2>5, <2>6 DEF l, r
    <3>3. \A i \in 1 .. f - 1 : l[i] = socketsList[i]
      BY <2>5 DEF l
    <3>4. \A i \in 1 .. Len(socketsList) - f : r[i] = socketsList[f + i]
      BY <2>6 DEF r
    <3>5. ASSUME NEW i \in 1 .. Len(socketsList')
          PROVE  socketsList'[i] = socketsList[IF i < f THEN i ELSE i + 1]
      <4>1. CASE i < f
        BY <2>3, <3>1, <3>2, <3>3, <4>1
      <4>2. CASE ~ (i < f)
        <5>1. i - (f - 1) \in 1 .. Len(socketsList) - f /\ f + (i - (f - 1)) = i + 1
          BY <2>3, <3>1, <3>2, <4>2
        <5>2. socketsList'[i] = r[i - (f - 1)]
          BY <2>3, <3>1, <3>2, <4>2
        <5>. QED
          BY <3>4, <4>2, <5>1, <5>2
      <4>. QED
        BY <4>1, <4>2
    <3>. QED
      BY <2>3, <3>1, <3>2, <3>5
  <2>. QED
    BY <1>2, <2>3, <2>7
<1>. QED
  BY <1>1, <1>2

-------------------------------------------------------------------------------
(* Objects.                                                                *)

(* What a Socket is made for is never taken for a free number.             *)
LEMMA ObjectFacts ==
  /\ UnixSocket \in Objects /\ UnixSocket[1] = Unix
  /\ \A c \in Conns : TcpSocket(c) \in Objects /\ SslSocket(c) \in Objects
  /\ \A c \in Conns : TcpSocket(c)[1] = c /\ SslSocket(c)[1] = c
  /\ \A c \in Conns : TcpSocket(c) # UnixSocket /\ SslSocket(c) # UnixSocket
  /\ \A c, d \in Conns : TcpSocket(c) # SslSocket(d)
  /\ \A c, d \in Conns : SslSocket(c) = SslSocket(d) => c = d
  /\ \A c, d \in Conns : TcpSocket(c) = TcpSocket(d) => c = d
  /\ \A s \in Objects : s[1] # Free /\ s[1] \in Conns \union {Unix}
<1>1. Free \notin Conns \union {Unix}
  BY SocketsAssumption DEF Free, Unix
<1>. QED
  BY <1>1 DEF Objects, UnixSocket, TcpSocket, SslSocket

(* The number of a living Socket is open.                                  *)
LEMMA LivingOpen ==
  ASSUME TypeOK, NumbersTrue
  PROVE  \A s \in Living : descriptor[s] \in Open
BY ObjectFacts DEF TypeOK, NumbersTrue, Open

(* Two living Sockets whose destructors close never share a number.        *)
LEMMA OneEach ==
  ASSUME TypeOK, NumbersTrue, OneOwner,
         NEW s \in Living \ protected, NEW o \in Living \ protected,
         descriptor[s] = descriptor[o]
  PROVE  s = o
BY LivingOpen DEF OneOwner

(* When some pointers go, what is left keeps its numbers, and the others'  *)
(* numbers are closed.                                                     *)
LEMMA ReleaseFacts ==
  ASSUME TypeOK, NumbersTrue, OneOwner, OneNumber,
         NEW reList, NEW locals, Release(reList, locals),
         NEW owners,
         owners = {UnixSocket} \union ToSet(socketsList) \union ToSet(reList) \union locals,
         owners \subseteq Living, protected \intersect owners = {}
  PROVE  /\ table' \in [Numbers -> Conns \union {Unix, Free}]
         /\ Living' = owners
         /\ \A s \in owners : descriptor'[s] = descriptor[s] /\ table'[descriptor[s]] = s[1]
         /\ protected' = {} /\ reSocketsList' = reList /\ local' = locals
         /\ OneOwner' /\ OneNumber'
<1>. DEFINE gone == Living \ owners
<1>1. /\ descriptor' = [s \in Living \ gone |-> descriptor[s]]
      /\ table' = [n \in Numbers |->
                     IF \E s \in gone \ protected : descriptor[s] = n THEN Free ELSE table[n]]
      /\ protected' = protected \ gone
      /\ reSocketsList' = reList /\ local' = locals
  BY DEF Release
<1>2. Living \ gone = owners
  OBVIOUS
<1>3. table' \in [Numbers -> Conns \union {Unix, Free}]
  BY <1>1 DEF TypeOK
<1>4. Living' = owners /\ \A s \in owners : descriptor'[s] = descriptor[s]
  BY <1>1, <1>2 DEF Living
<1>5. protected' = {}
  BY <1>1 DEF TypeOK
<1>6. ASSUME NEW s \in owners
      PROVE  table'[descriptor[s]] = s[1]
  <2>1. s \in Living \ protected
    OBVIOUS
  <2>2. ~ \E o \in gone \ protected : descriptor[o] = descriptor[s]
    BY <2>1, OneEach
  <2>3. descriptor[s] \in Numbers /\ table[descriptor[s]] = s[1]
    BY <2>1 DEF TypeOK, NumbersTrue
  <2>. QED
    BY <1>1, <2>2, <2>3
<1>7. \A n \in Open' : n \in Open /\ table'[n] = table[n]
                     /\ ~ \E s \in gone \ protected : descriptor[s] = n
  BY <1>1 DEF Open
<1>8. OneOwner'
  <2>. SUFFICES ASSUME NEW n \in Open'
                PROVE  \E s \in Living' \ protected' :
                         /\ descriptor'[s] = n
                         /\ \A o \in Living' \ protected' : descriptor'[o] = n => o = s
    BY DEF OneOwner
  <2>1. PICK s \in Living \ protected :
          /\ descriptor[s] = n
          /\ \A o \in Living \ protected : descriptor[o] = n => o = s
    BY <1>7 DEF OneOwner
  <2>2. s \in owners
    BY <1>7, <2>1
  <2>. QED
    BY <1>4, <1>5, <2>1, <2>2
<1>9. OneNumber'
  BY <1>7 DEF OneNumber
<1>. QED
  BY <1>1, <1>3, <1>4, <1>5, <1>6, <1>8, <1>9

-------------------------------------------------------------------------------
(* IInv is inductive.                                                      *)

LEMMA InitIInv == Init => IInv
<1>. SUFFICES ASSUME Init PROVE IInv
  OBVIOUS
<1>. DEFINE n0 == Min(Numbers)
<1>1. n0 \in Numbers
  BY MinIsLowest, SocketsAssumption
<1>. HIDE DEF n0
<1>2. /\ table = [n \in Numbers |-> IF n = n0 THEN Unix ELSE Free]
      /\ descriptor = [s \in {UnixSocket} |-> n0]
      /\ protected = {} /\ socketsList = <<UnixSocket>> /\ reSocketsList = << >>
      /\ local = {} /\ pc = "clear" /\ at = 1
  BY DEF Init, n0
<1>3. Living = {UnixSocket} /\ descriptor[UnixSocket] = n0
  BY <1>2 DEF Living
<1>4. Open = {n0} /\ table[n0] = Unix
  BY <1>1, <1>2 DEF Open, Unix, Free
<1>5. /\ socketsList \in Seq(Living) /\ Len(socketsList) = 1 /\ socketsList[1] = UnixSocket
      /\ reSocketsList \in Seq(Living) /\ Len(reSocketsList) = 0
      /\ Head(socketsList) = UnixSocket
  BY <1>2, <1>3
<1>6. ToSet(socketsList) = {UnixSocket} /\ ToSet(reSocketsList) = {}
  BY <1>5 DEF ToSet
<1>7. TypeOK
  BY <1>1, <1>2, <1>3, <1>5, ObjectFacts, SocketsAssumption DEF TypeOK
<1>8. NumbersTrue
  BY <1>3, <1>4, <1>5, ObjectFacts DEF NumbersTrue
<1>9. OneOwner /\ OneNumber
  BY <1>2, <1>3, <1>4 DEF OneOwner, OneNumber
<1>10. UnixFirst /\ NoneLost /\ Listed /\ Stage /\ Place
  BY <1>2, <1>3, <1>5, <1>6 DEF UnixFirst, NoneLost, Listed, Stage, Place
<1>. QED
  BY <1>7, <1>8, <1>9, <1>10 DEF IInv

(* The Sockets a list holds are alive.                                     *)
LEMMA ListsLive ==
  ASSUME TypeOK
  PROVE  /\ ToSet(socketsList) \subseteq Living /\ ToSet(reSocketsList) \subseteq Living
         /\ \A i \in 1 .. Len(socketsList) : socketsList[i] \in ToSet(socketsList)
         /\ \A i \in 1 .. Len(reSocketsList) : reSocketsList[i] \in ToSet(reSocketsList)
         /\ \A s \in ToSet(socketsList) : \E i \in 1 .. Len(socketsList) : socketsList[i] = s
         /\ \A s \in ToSet(reSocketsList) : \E i \in 1 .. Len(reSocketsList) : reSocketsList[i] = s
BY DEF TypeOK, ToSet

(* A sequence of Sockets is one of those that still live.                  *)
LEMMA SeqNarrow ==
  ASSUME NEW S, NEW s \in Seq(S), NEW T, ToSet(s) \subseteq T
  PROVE  s \in Seq(T)
<1>1. DOMAIN s = 1 .. Len(s) /\ Len(s) \in Nat /\ s = [i \in 1 .. Len(s) |-> s[i]]
  BY LenProperties
<1>2. \A i \in 1 .. Len(s) : s[i] \in T
  BY <1>1 DEF ToSet
<1>3. s \in [1 .. Len(s) -> T]
  BY <1>1, <1>2
<1>. QED
  BY <1>1, <1>3, SeqDef

(* The steps at which pointers go: from what is owned before and after,    *)
(* all of IInv but the places and the stage.                               *)
LEMMA ReleaseStep ==
  ASSUME TypeOK, NumbersTrue, OneOwner, OneNumber, UnixFirst,
         NEW reList, NEW locals, Release(reList, locals), UNCHANGED socketsList,
         UnixSocket \in Living, locals \subseteq local,
         reList \in {<< >>, reSocketsList},
         protected \intersect
           ({UnixSocket} \union ToSet(socketsList) \union ToSet(reSocketsList) \union locals) = {},
         pc' \in {"clear", "poll", "round", "put"}, at' \in 1 .. MaxSockets + 1
  PROVE  TypeOK' /\ NumbersTrue' /\ OneOwner' /\ OneNumber' /\ UnixFirst' /\ NoneLost'
         /\ protected' = {} /\ reSocketsList' = reList /\ local' = locals
<1>. DEFINE owners == {UnixSocket} \union ToSet(socketsList) \union ToSet(reList) \union locals
<1>1. ToSet(reList) \subseteq ToSet(reSocketsList)
  BY DEF ToSet
<1>2. owners \subseteq Living /\ protected \intersect owners = {}
  BY <1>1, ListsLive DEF TypeOK
<1>3. /\ table' \in [Numbers -> Conns \union {Unix, Free}]
      /\ Living' = owners
      /\ \A s \in owners : descriptor'[s] = descriptor[s] /\ table'[descriptor[s]] = s[1]
      /\ protected' = {} /\ reSocketsList' = reList /\ local' = locals
      /\ OneOwner' /\ OneNumber'
  BY <1>2, ReleaseFacts
<1>4. socketsList' = socketsList /\ ToSet(socketsList') = ToSet(socketsList)
  OBVIOUS
<1>5. socketsList' \in Seq(Living') /\ Len(socketsList') <= MaxSockets
  BY <1>3, <1>4, SeqNarrow DEF TypeOK
<1>6. reSocketsList' \in Seq(Living') /\ Len(reSocketsList') <= MaxSockets
  <2>1. reList \in Seq(Living) /\ Len(reList) <= MaxSockets
    <3>1. << >> \in Seq(Living) /\ Len(<< >>) = 0 /\ 0 <= MaxSockets
      BY SocketsAssumption
    <3>2. reSocketsList \in Seq(Living) /\ Len(reSocketsList) <= MaxSockets
      BY DEF TypeOK
    <3>. QED
      BY ONLY <3>1, <3>2, reList \in {<< >>, reSocketsList}
  <2>. QED
    BY <1>3, <2>1, SeqNarrow
<1>7. TypeOK'
  BY <1>2, <1>3, <1>5, <1>6 DEF TypeOK
<1>8. NumbersTrue'
  <2>1. \A s \in Living' : table'[descriptor'[s]] = s[1]
    BY <1>3
  <2>2. \A i \in 1 .. Len(socketsList) : descriptor'[socketsList[i]] = descriptor[socketsList[i]]
    BY <1>3, ListsLive
  <2>. QED
    BY <1>4, <2>1, <2>2 DEF NumbersTrue
<1>9. UnixFirst'
  BY <1>1, <1>3, <1>4 DEF UnixFirst, ToSet
<1>10. NoneLost'
  BY <1>3, <1>4 DEF NoneLost
<1>. QED
  BY <1>3, <1>7, <1>8, <1>9, <1>10

LEMMA ClearStep ==
  ASSUME IInv, Clear
  PROVE  IInv'
<1>1. /\ pc = "clear" /\ pc' = "poll" /\ UNCHANGED <<socketsList, at>>
      /\ Release(<< >>, local) /\ at = 1 /\ local = {} /\ protected = {}
  BY DEF IInv, Clear, Place, Stage
<1>2. /\ TypeOK' /\ NumbersTrue' /\ OneOwner' /\ OneNumber' /\ UnixFirst' /\ NoneLost'
      /\ protected' = {} /\ reSocketsList' = << >> /\ local' = {}
  BY <1>1, ReleaseStep DEF IInv, TypeOK, NoneLost
<1>3. Listed'
  BY <1>1, <1>2 DEF IInv, Listed, ToSet
<1>4. Stage'
  BY <1>1, <1>2 DEF Stage
<1>5. Place'
  <2>1. Len(socketsList) \in Nat
    BY DEF IInv, TypeOK
  <2>. QED
    BY <1>1, <1>2, <2>1 DEF IInv, Place
<1>. QED
  BY <1>2, <1>3, <1>4, <1>5 DEF IInv

LEMMA MoveStep ==
  ASSUME IInv, NEW c \in Conns, Move(c)
  PROVE  IInv'
<1>1. /\ pc = "move" /\ pc' = "put" /\ UNCHANGED <<socketsList, at>>
      /\ Release(reSocketsList, {SslSocket(c)}) /\ SslSocket(c) \in local
  BY DEF Move
<1>2. protected = {TcpSocket(c)}
  <2>1. PICK d \in Conns : local = {TcpSocket(d), SslSocket(d)}
    BY <1>1 DEF IInv, Stage
  <2>2. d = c
    BY <1>1, <2>1, ObjectFacts
  <2>. QED
    BY <1>1, <2>1, <2>2, ObjectFacts DEF IInv, Stage
<1>3. TcpSocket(c) \notin ToSet(socketsList) \union ToSet(reSocketsList)
  BY ObjectFacts DEF IInv, Listed
<1>4. TcpSocket(c) # UnixSocket /\ TcpSocket(c) # SslSocket(c)
  BY ObjectFacts
<1>5. /\ TypeOK' /\ NumbersTrue' /\ OneOwner' /\ OneNumber' /\ UnixFirst' /\ NoneLost'
      /\ protected' = {} /\ reSocketsList' = reSocketsList /\ local' = {SslSocket(c)}
  BY <1>1, <1>2, <1>3, <1>4, ReleaseStep DEF IInv, TypeOK, NoneLost
<1>6. Listed'
  BY <1>1, <1>5 DEF IInv, Listed
<1>7. Stage'
  BY <1>1, <1>5 DEF Stage
<1>8. Place'
  BY <1>1, <1>5 DEF IInv, Place
<1>. QED
  BY <1>5, <1>6, <1>7, <1>8 DEF IInv

(* Going on to the next reported socket, or to the next round.             *)
LEMMA HandledFacts ==
  ASSUME TypeOK, at <= Len(reSocketsList), Handled
  PROVE  /\ pc' \in {"clear", "round"} /\ at' \in 1 .. MaxSockets + 1
         /\ pc' = "clear" => at' = 1
         /\ pc' = "round" => at' <= Len(reSocketsList)
<1>1. Len(reSocketsList) \in Nat /\ Len(reSocketsList) <= MaxSockets
  BY DEF TypeOK
<1>2. MaxSockets \in Nat /\ at \in 1 .. MaxSockets + 1
  BY SocketsAssumption DEF TypeOK
<1>. QED
  BY <1>1, <1>2 DEF Handled

LEMMA ReturnStep ==
  ASSUME IInv, Return
  PROVE  IInv'
<1>1. /\ pc = "return" /\ Handled /\ UNCHANGED socketsList
      /\ Release(reSocketsList, {}) /\ protected = {} /\ at <= Len(reSocketsList)
  BY DEF IInv, Return, Stage, Place
<1>2. /\ pc' \in {"clear", "round"} /\ at' \in 1 .. MaxSockets + 1
      /\ pc' = "clear" => at' = 1
      /\ pc' = "round" => at' <= Len(reSocketsList)
  BY <1>1, HandledFacts DEF IInv
<1>3. /\ TypeOK' /\ NumbersTrue' /\ OneOwner' /\ OneNumber' /\ UnixFirst' /\ NoneLost'
      /\ protected' = {} /\ reSocketsList' = reSocketsList /\ local' = {}
  BY <1>1, <1>2, ReleaseStep DEF IInv, TypeOK, NoneLost
<1>4. Listed'
  BY <1>1, <1>3 DEF IInv, Listed
<1>5. Stage'
  BY <1>2, <1>3 DEF Stage
<1>6. Place'
  BY <1>1, <1>2, <1>3 DEF IInv, Place
<1>. QED
  BY <1>3, <1>4, <1>5, <1>6 DEF IInv

LEMMA PollStep ==
  ASSUME IInv, pollSockets
  PROVE  IInv'
<1>. DEFINE sock == socketsList[at]
<1>1. /\ pc = "poll" /\ at <= Len(socketsList) /\ at' = at + 1
      /\ UNCHANGED <<table, descriptor, protected, socketsList, local, pc>>
      /\ local = {} /\ protected = {}
  BY DEF pollSockets, IInv, Stage
<1>2. /\ Len(socketsList) \in Nat /\ Len(socketsList) <= MaxSockets /\ MaxSockets \in Nat
      /\ at \in 1 .. MaxSockets + 1 /\ at \in 1 .. Len(socketsList)
  BY <1>1, SocketsAssumption DEF IInv, TypeOK
<1>3. sock \in Living /\ sock \in ToSet(socketsList)
  BY <1>2, ListsLive DEF IInv
<1>4. at = 1 => sock = UnixSocket
  BY <1>2 DEF IInv, UnixFirst, TypeOK, Place
<1>5. at # 1 => sock # UnixSocket
  <2>1. socketsList[1] = UnixSocket /\ 1 \in 1 .. Len(socketsList)
    BY <1>2 DEF IInv, UnixFirst, TypeOK, Place
  <2>. QED
    BY <1>2, <2>1 DEF IInv, NumbersTrue
<1>6. CASE reSocketsList' = reSocketsList
  <2>1. TypeOK'
    BY <1>1, <1>2, <1>6 DEF IInv, TypeOK, Living
  <2>2. NumbersTrue' /\ OneOwner' /\ OneNumber' /\ NoneLost' /\ UnixFirst' /\ Listed' /\ Stage'
    BY <1>1, <1>6 DEF IInv, NumbersTrue, OneOwner, OneNumber, NoneLost, UnixFirst, Listed, Stage,
                      Living, Open
  <2>3. Place'
    BY <1>1, <1>2, <1>6 DEF IInv, Place
  <2>. QED
    BY <2>1, <2>2, <2>3 DEF IInv
<1>7. CASE reSocketsList' = putSocket(reSocketsList, sock)
  <2>1. /\ reSocketsList' \in Seq(Living) /\ Len(reSocketsList') <= MaxSockets
        /\ Len(reSocketsList) <= Len(reSocketsList')
        /\ \A i \in 1 .. Len(reSocketsList) : reSocketsList'[i] = reSocketsList[i]
        /\ \A i \in 1 .. Len(reSocketsList') :
             i \in 1 .. Len(reSocketsList) \/ (i = Len(reSocketsList) + 1 /\ reSocketsList'[i] = sock)
        /\ ToSet(reSocketsList) \subseteq ToSet(reSocketsList')
        /\ ToSet(reSocketsList') \subseteq ToSet(reSocketsList) \union {sock}
    <3>1. reSocketsList \in Seq(Living) /\ Len(reSocketsList) <= MaxSockets
      BY DEF IInv, TypeOK
    <3>. HIDE DEF sock
    <3>2. CASE reSocketsList' = reSocketsList
      BY <1>3, <3>1, <3>2
    <3>3. CASE reSocketsList' = Append(reSocketsList, sock) /\ Len(reSocketsList) # MaxSockets
      <4>1. sock \in Living /\ Len(reSocketsList) \in Nat /\ MaxSockets \in Nat
        BY <1>2, <1>3, <3>1
      <4>2. /\ reSocketsList' \in Seq(Living) /\ Len(reSocketsList') = Len(reSocketsList) + 1
            /\ \A i \in 1 .. Len(reSocketsList) : reSocketsList'[i] = reSocketsList[i]
            /\ reSocketsList'[Len(reSocketsList) + 1] = sock
        BY <3>1, <3>3, <4>1, AppendProperties
      <4>3. /\ ToSet(reSocketsList) \subseteq ToSet(reSocketsList')
            /\ ToSet(reSocketsList') \subseteq ToSet(reSocketsList) \union {sock}
        BY <3>1, <4>1, <4>2 DEF ToSet
      <4>. QED
        BY <3>1, <3>3, <4>1, <4>2, <4>3
    <3>. QED
      BY <1>7, <3>2, <3>3 DEF putSocket
  <2>. HIDE DEF sock
  <2>2. TypeOK'
    BY <1>1, <1>2, <2>1 DEF IInv, TypeOK, Living
  <2>3. NumbersTrue' /\ OneOwner' /\ OneNumber' /\ Stage'
    BY <1>1 DEF IInv, NumbersTrue, OneOwner, OneNumber, Stage, Living, Open
  <2>4. NoneLost'
    BY <1>1, <1>3, <2>1 DEF IInv, NoneLost, Living
  <2>5. Listed'
    BY <1>1, <1>3, <2>1 DEF IInv, Listed
  <2>6. Place'
    BY <1>1, <1>2 DEF IInv, Place
  <2>7. UnixFirst'
    <3>. SUFFICES ASSUME UnixSocket \in ToSet(reSocketsList') PROVE reSocketsList'[1] = UnixSocket
      BY <1>1 DEF IInv, UnixFirst
    <3>1. /\ Len(reSocketsList) \in Nat
          /\ \A x \in ToSet(reSocketsList) : \E i \in 1 .. Len(reSocketsList) : reSocketsList[i] = x
          /\ \A x \in ToSet(reSocketsList') : \E i \in 1 .. Len(reSocketsList') : reSocketsList'[i] = x
      BY <2>1 DEF IInv, TypeOK, ToSet
    <3>2. CASE at = 1
      <4>1. Len(reSocketsList) = 0 /\ sock = UnixSocket
        BY <1>1, <1>4, <3>2 DEF IInv, Place
      <4>. QED
        BY <2>1, <3>1, <4>1
    <3>3. CASE at # 1
      <4>1. UnixSocket \in ToSet(reSocketsList)
        BY <1>5, <2>1, <3>3
      <4>. QED
        BY <2>1, <3>1, <4>1 DEF IInv, UnixFirst
    <3>. QED
      BY <3>2, <3>3
  <2>. QED
    BY <2>2, <2>3, <2>4, <2>5, <2>6, <2>7 DEF IInv
<1>. QED
  BY <1>6, <1>7 DEF pollSockets

(* Steps that only go on to another place.                                 *)
LEMMA MovingOn ==
  ASSUME IInv, local = {}, protected = {},
         UNCHANGED <<table, descriptor, protected, socketsList, reSocketsList, local>>,
         pc' \in {"clear", "round"}, at' \in 1 .. MaxSockets + 1,
         pc' = "clear" => at' = 1,
         pc' = "round" => at' <= Len(reSocketsList)
  PROVE  IInv'
<1>1. TypeOK'
  BY DEF IInv, TypeOK, Living
<1>2. NumbersTrue' /\ OneOwner' /\ OneNumber' /\ NoneLost' /\ UnixFirst' /\ Listed' /\ Stage'
  BY DEF IInv, NumbersTrue, OneOwner, OneNumber, NoneLost, UnixFirst, Listed, Stage, Living, Open
<1>3. Place'
  BY DEF IInv, Place
<1>. QED
  BY <1>1, <1>2, <1>3 DEF IInv

LEMMA PolledStep ==
  ASSUME IInv, Polled
  PROVE  IInv'
<1>1. local = {} /\ protected = {}
  BY DEF Polled, IInv, Stage
<1>2. reSocketsList # << >> => 1 <= Len(reSocketsList)
  <2>1. reSocketsList \in Seq(Living)
    BY DEF IInv, TypeOK
  <2>. QED
    BY <2>1
<1>3. 1 \in 1 .. MaxSockets + 1
  BY SocketsAssumption
<1>. QED
  BY <1>1, <1>2, <1>3, MovingOn DEF Polled

LEMMA KeepStep ==
  ASSUME IInv, ReceiveOther \/ \E c \in Conns : Keep(c)
  PROVE  IInv'
<1>1. /\ pc = "round" /\ Handled
      /\ UNCHANGED <<table, descriptor, protected, socketsList, reSocketsList, local>>
  BY DEF ReceiveOther, Keep, Handling
<1>2. local = {} /\ protected = {} /\ at <= Len(reSocketsList)
  BY <1>1 DEF IInv, Stage, Place
<1>. QED
  BY <1>1, <1>2, HandledFacts, MovingOn DEF IInv

(* Dropping a client takes its own Socket out of the list, or none.        *)
LEMMA DropTakesOne ==
  ASSUME IInv, NEW c \in Conns, Drop(c)
  PROVE  /\ ToSet(socketsList') \subseteq ToSet(socketsList)
         /\ ToSet(socketsList) \subseteq ToSet(socketsList') \union {SslSocket(c)}
<1>. SUFFICES ASSUME socketsList' # socketsList
              PROVE  /\ ToSet(socketsList') \subseteq ToSet(socketsList)
                     /\ ToSet(socketsList) \subseteq ToSet(socketsList') \union {SslSocket(c)}
  OBVIOUS
<1>1. PICK f \in 1 .. Len(socketsList) :
        /\ descriptor[socketsList[f]] = descriptor[SslSocket(c)]
        /\ socketsList' \in Seq(Living) /\ Len(socketsList') = Len(socketsList) - 1
        /\ \A i \in 1 .. Len(socketsList') :
             socketsList'[i] = socketsList[IF i < f THEN i ELSE i + 1]
  BY DelFacts DEF IInv, Drop
<1>2. socketsList \in Seq(Living) /\ Len(socketsList) \in Nat
  BY DEF IInv, TypeOK
<1>3. SslSocket(c) \in Living
  <2>1. at \in 1 .. Len(reSocketsList) /\ reSocketsList \in Seq(Living)
    BY DEF IInv, TypeOK, Place, Drop, Handling
  <2>. QED
    BY <2>1 DEF Drop, Handling
<1>4. socketsList[f] = SslSocket(c)
  BY <1>1, <1>2, <1>3, OneEach DEF IInv, Drop, Handling, Stage
<1>5. ASSUME NEW i \in 1 .. Len(socketsList'), NEW x, x = socketsList'[i]
      PROVE  x \in ToSet(socketsList)
  <2>. DEFINE k == IF i < f THEN i ELSE i + 1
  <2>1. k \in 1 .. Len(socketsList) /\ x = socketsList[k]
    BY <1>1, <1>2, <1>5
  <2>. HIDE DEF k
  <2>. QED
    BY <1>2, <2>1 DEF ToSet
<1>6. ASSUME NEW i \in 1 .. Len(socketsList), i # f
      PROVE  socketsList[i] \in ToSet(socketsList')
  <2>. DEFINE k == IF i < f THEN i ELSE i - 1
  <2>1. k \in 1 .. Len(socketsList') /\ (IF k < f THEN k ELSE k + 1) = i
    BY <1>1, <1>2, <1>6
  <2>2. socketsList'[k] = socketsList[i]
    BY <1>1, <2>1
  <2>. HIDE DEF k
  <2>. QED
    BY <1>1, <2>1, <2>2 DEF ToSet
<1>7. /\ ToSet(socketsList) = {socketsList[i] : i \in 1 .. Len(socketsList)}
      /\ ToSet(socketsList') = {socketsList'[i] : i \in 1 .. Len(socketsList')}
  <2>1. DOMAIN socketsList = 1 .. Len(socketsList) /\ DOMAIN socketsList' = 1 .. Len(socketsList')
    BY <1>1, <1>2
  <2>. QED
    BY ONLY <2>1, Zenon DEF ToSet
<1>8. ToSet(socketsList') \subseteq ToSet(socketsList)
  BY <1>5, <1>7
<1>9. ToSet(socketsList) \subseteq ToSet(socketsList') \union {SslSocket(c)}
  BY <1>4, <1>6, <1>7
<1>. QED
  BY <1>8, <1>9

LEMMA DropStep ==
  ASSUME IInv, NEW c \in Conns, Drop(c)
  PROVE  IInv'
<1>1. /\ pc = "round" /\ reSocketsList[at] = SslSocket(c)
      /\ socketsList' = delSocket(socketsList, SslSocket(c)) /\ Handled
      /\ UNCHANGED <<table, descriptor, protected, reSocketsList, local>>
      /\ local = {} /\ protected = {} /\ at <= Len(reSocketsList)
  BY DEF Drop, Handling, IInv, Stage, Place
<1>2. /\ pc' \in {"clear", "round"} /\ at' \in 1 .. MaxSockets + 1
      /\ pc' = "clear" => at' = 1
      /\ pc' = "round" => at' <= Len(reSocketsList)
  BY <1>1, HandledFacts DEF IInv
<1>3. CASE socketsList' = socketsList
  BY <1>1, <1>2, <1>3, MovingOn
<1>4. CASE socketsList' # socketsList
  <2>1. PICK f \in 1 .. Len(socketsList) :
          /\ descriptor[socketsList[f]] = descriptor[SslSocket(c)]
          /\ socketsList' \in Seq(Living) /\ Len(socketsList') = Len(socketsList) - 1
          /\ \A i \in 1 .. Len(socketsList') :
               socketsList'[i] = socketsList[IF i < f THEN i ELSE i + 1]
          /\ Len(socketsList) # MaxSockets
    BY <1>1, <1>4, DelFacts DEF IInv
  <2>2. socketsList \in Seq(Living) /\ Len(socketsList) \in Nat /\ Len(socketsList) <= MaxSockets
    BY DEF IInv, TypeOK
  <2>3. SslSocket(c) \in ToSet(reSocketsList) /\ SslSocket(c) \in Living
    <3>1. at \in 1 .. Len(reSocketsList) /\ reSocketsList \in Seq(Living)
      BY <1>1 DEF IInv, TypeOK
    <3>. QED
      BY <1>1, <3>1 DEF ToSet
  <2>4. socketsList[f] = SslSocket(c)
    BY <1>1, <2>1, <2>2, <2>3, OneEach DEF IInv
  <2>5. f # 1
    BY <2>2, <2>4, ObjectFacts DEF IInv, UnixFirst, Place
  <2>6. /\ ToSet(socketsList') \subseteq ToSet(socketsList)
        /\ ToSet(socketsList) \subseteq ToSet(socketsList') \union {SslSocket(c)}
    BY DropTakesOne
  <2>7. TypeOK'
    <3>1. Len(socketsList') <= MaxSockets /\ Living' = Living
      BY <1>1, <2>1, <2>2, SocketsAssumption DEF Living
    <3>. QED
      BY <1>1, <1>2, <2>1, <3>1 DEF IInv, TypeOK
  <2>8. NumbersTrue'
    <3>1. ASSUME NEW i \in 1 .. Len(socketsList'), NEW j \in 1 .. Len(socketsList'),
                 descriptor[socketsList'[i]] = descriptor[socketsList'[j]]
          PROVE  i = j
      <4>. DEFINE k(n) == IF n < f THEN n ELSE n + 1
      <4>1. k(i) \in 1 .. Len(socketsList) /\ k(j) \in 1 .. Len(socketsList)
        BY <2>1, <2>2
      <4>2. socketsList'[i] = socketsList[k(i)] /\ socketsList'[j] = socketsList[k(j)]
        BY <2>1
      <4>3. k(i) = k(j)
        BY <3>1, <4>1, <4>2 DEF IInv, NumbersTrue
      <4>. QED
        BY <2>1, <2>2, <4>3
    <3>2. \A s \in Living' : table'[descriptor'[s]] = s[1]
      BY <1>1 DEF IInv, NumbersTrue, Living
    <3>. QED
      BY <1>1, <3>1, <3>2 DEF NumbersTrue
  <2>9. OneOwner' /\ OneNumber' /\ Stage'
    BY <1>1, <1>2 DEF IInv, OneOwner, OneNumber, Stage, Living, Open
  <2>10. UnixFirst' /\ socketsList' # << >>
    BY <1>1, <2>1, <2>2, <2>5 DEF IInv, UnixFirst, Place
  <2>11. NoneLost'
    BY <1>1, <2>3, <2>6 DEF IInv, NoneLost, Living
  <2>12. Listed'
    BY <1>1, <2>6 DEF IInv, Listed
  <2>13. Place'
    BY <1>1, <1>2, <2>10 DEF IInv, Place
  <2>. QED
    BY <2>7, <2>8, <2>9, <2>10, <2>11, <2>12, <2>13 DEF IInv
<1>. QED
  BY <1>3, <1>4

LEMMA PutStep ==
  ASSUME IInv, NEW c \in Conns, Put(c)
  PROVE  IInv'
<1>. DEFINE sock == SslSocket(c)
<1>1. /\ pc = "put" /\ pc' = "return" /\ sock \in local
      /\ socketsList' = putSocket(socketsList, sock)
      /\ UNCHANGED <<table, descriptor, protected, reSocketsList, local, at>>
      /\ protected = {} /\ at <= Len(reSocketsList)
  BY DEF Put, IInv, Stage, Place
<1>2. sock \in Living /\ sock \notin ToSet(socketsList)
  BY <1>1 DEF IInv, TypeOK, Listed
<1>3. local = {sock}
  BY <1>1, ObjectFacts DEF IInv, Stage
<1>. HIDE DEF sock
<1>4. /\ socketsList \in Seq(Living) /\ Len(socketsList) \in Nat /\ Len(socketsList) <= MaxSockets
      /\ MaxSockets \in Nat
  BY SocketsAssumption DEF IInv, TypeOK
<1>5. /\ socketsList' \in Seq(Living) /\ Len(socketsList') <= MaxSockets
      /\ Len(socketsList) <= Len(socketsList')
      /\ \A i \in 1 .. Len(socketsList) : socketsList'[i] = socketsList[i]
      /\ \A i \in 1 .. Len(socketsList') :
           i \in 1 .. Len(socketsList) \/ (i = Len(socketsList) + 1 /\ socketsList'[i] = sock)
      /\ ToSet(socketsList) \subseteq ToSet(socketsList')
      /\ ToSet(socketsList') \subseteq ToSet(socketsList) \union {sock}
  <2>1. CASE socketsList' = socketsList
    BY <1>4, <2>1
  <2>2. CASE socketsList' = Append(socketsList, sock) /\ Len(socketsList) # MaxSockets
    <3>1. /\ socketsList' \in Seq(Living) /\ Len(socketsList') = Len(socketsList) + 1
          /\ \A i \in 1 .. Len(socketsList) : socketsList'[i] = socketsList[i]
          /\ socketsList'[Len(socketsList) + 1] = sock
      BY <1>2, <1>4, <2>2, AppendProperties
    <3>2. /\ ToSet(socketsList) \subseteq ToSet(socketsList')
          /\ ToSet(socketsList') \subseteq ToSet(socketsList) \union {sock}
      BY <1>4, <3>1 DEF ToSet
    <3>. QED
      BY <1>4, <2>2, <3>1, <3>2
  <2>. QED
    BY <1>1, <2>1, <2>2 DEF putSocket
<1>6. Living' = Living /\ Open' = Open
  BY <1>1 DEF Living, Open
<1>7. TypeOK'
  BY <1>1, <1>5, <1>6 DEF IInv, TypeOK
<1>8. NumbersTrue'
  <2>1. ASSUME NEW i \in 1 .. Len(socketsList'), NEW j \in 1 .. Len(socketsList'),
               descriptor[socketsList'[i]] = descriptor[socketsList'[j]]
        PROVE  i = j
    <3>1. \A n \in 1 .. Len(socketsList) :
            socketsList[n] \in ToSet(socketsList) /\ socketsList[n] \in Living
      BY ListsLive DEF IInv
    <3>2. \A n \in 1 .. Len(socketsList) : descriptor[socketsList[n]] # descriptor[sock]
      BY <1>1, <1>2, <3>1, OneEach DEF IInv
    <3>3. CASE i \in 1 .. Len(socketsList) /\ j \in 1 .. Len(socketsList)
      BY <1>5, <2>1, <3>3 DEF IInv, NumbersTrue
    <3>4. CASE i \notin 1 .. Len(socketsList) \/ j \notin 1 .. Len(socketsList)
      BY <1>5, <2>1, <3>2, <3>4
    <3>. QED
      BY <3>3, <3>4
  <2>2. \A s \in Living' : table'[descriptor'[s]] = s[1]
    BY <1>1, <1>6 DEF IInv, NumbersTrue
  <2>. QED
    BY <1>1, <2>1, <2>2 DEF NumbersTrue
<1>9. OneOwner' /\ OneNumber'
  BY <1>1, <1>6 DEF IInv, OneOwner, OneNumber
<1>10. UnixFirst' /\ socketsList' # << >>
  <2>1. 1 \in 1 .. Len(socketsList) /\ socketsList[1] = UnixSocket
    BY <1>4 DEF IInv, UnixFirst, Place
  <2>. QED
    BY <1>1, <1>4, <1>5, <2>1 DEF IInv, UnixFirst
<1>11. NoneLost'
  BY <1>1, <1>3, <1>5, <1>6 DEF IInv, NoneLost
<1>12. Listed'
  <2>1. \A s \in ToSet(socketsList') \union ToSet(reSocketsList') :
          s \in ToSet(socketsList) \union ToSet(reSocketsList) \/ s = sock
    BY <1>1, <1>5
  <2>. QED
    BY <1>1, <2>1 DEF IInv, Listed, sock
<1>13. Stage'
  BY <1>1 DEF IInv, Stage
<1>14. Place'
  BY <1>1, <1>10 DEF IInv, Place
<1>. QED
  BY <1>7, <1>8, <1>9, <1>10, <1>11, <1>12, <1>13, <1>14 DEF IInv

LEMMA ReceiveStep ==
  ASSUME IInv, NEW c \in Conns, Receive(c)
  PROVE  IInv'
<1>. DEFINE n == Min(Numbers \ Open)
            sock == TcpSocket(c)
<1>1. n \in Numbers \ Open
  BY MinIsLowest, SocketsAssumption DEF Receive, Open
<1>. HIDE DEF n
<1>2. /\ pc = "round" /\ pc' = "wrap" /\ c \notin {table[m] : m \in Open}
      /\ table' = [table EXCEPT ![n] = c]
      /\ descriptor' = [s \in Living \union {sock} |-> IF s = sock THEN n ELSE descriptor[s]]
      /\ local' = {sock} /\ UNCHANGED <<protected, socketsList, reSocketsList, at>>
      /\ local = {} /\ protected = {} /\ at <= Len(reSocketsList)
  BY DEF Receive, Handling, IInv, Stage, Place, n
<1>3. sock \notin Living
  BY <1>2, LivingOpen, ObjectFacts DEF IInv, NumbersTrue
<1>4. sock \in Objects /\ sock[1] = c /\ c # Free
  BY ObjectFacts, SocketsAssumption
<1>. HIDE DEF sock
<1>5. Living' = Living \union {sock} /\ descriptor'[sock] = n
      /\ \A s \in Living : descriptor'[s] = descriptor[s]
  BY <1>2, <1>3 DEF Living
<1>6. Open' = Open \union {n} /\ table'[n] = c /\ \A m \in Open : table'[m] = table[m]
  BY <1>1, <1>2, <1>4 DEF IInv, TypeOK, Open
<1>7. \A s \in Living : descriptor[s] \in Open
  BY LivingOpen DEF IInv
<1>8. /\ socketsList' \in Seq(Living') /\ Len(socketsList') <= MaxSockets
      /\ reSocketsList' \in Seq(Living') /\ Len(reSocketsList') <= MaxSockets
  <2>1. ToSet(socketsList) \subseteq Living' /\ ToSet(reSocketsList) \subseteq Living'
    BY <1>5, ListsLive DEF IInv
  <2>. QED
    BY <1>2, <2>1, SeqNarrow DEF IInv, TypeOK
<1>9. TypeOK'
  BY <1>1, <1>2, <1>4, <1>5, <1>8 DEF IInv, TypeOK
<1>10. NumbersTrue'
  <2>1. \A s \in Living' : table'[descriptor'[s]] = s[1]
    BY <1>4, <1>5, <1>6, <1>7 DEF IInv, NumbersTrue
  <2>2. \A i \in 1 .. Len(socketsList) : descriptor'[socketsList[i]] = descriptor[socketsList[i]]
    BY <1>5, ListsLive DEF IInv
  <2>3. socketsList' = socketsList
    BY <1>2
  <2>4. \A i, j \in 1 .. Len(socketsList') :
          descriptor'[socketsList'[i]] = descriptor'[socketsList'[j]] => i = j
    BY <2>2, <2>3 DEF IInv, NumbersTrue
  <2>. QED
    BY <2>1, <2>4 DEF NumbersTrue
<1>11. OneOwner'
  <2>. SUFFICES ASSUME NEW m \in Open'
                PROVE  \E s \in Living' \ protected' :
                         /\ descriptor'[s] = m
                         /\ \A o \in Living' \ protected' : descriptor'[o] = m => o = s
    BY DEF OneOwner
  <2>1. CASE m = n
    <3>1. sock \in Living' \ protected' /\ descriptor'[sock] = m
      BY <1>2, <1>5, <2>1
    <3>2. n \notin Open
      BY <1>1 DEF Open
    <3>3. \A o \in Living : descriptor'[o] # m
      BY <1>5, <1>7, <2>1, <3>2
    <3>4. \A o \in Living' : descriptor'[o] = m => o = sock
      BY <1>5, <3>3
    <3>. QED
      BY <3>1, <3>4
  <2>2. CASE m # n
    <3>1. PICK s \in Living \ protected :
            /\ descriptor[s] = m
            /\ \A o \in Living \ protected : descriptor[o] = m => o = s
      BY <1>6, <2>2 DEF IInv, OneOwner
    <3>. QED
      BY <1>2, <1>5, <2>2, <3>1
  <2>. QED
    BY <2>1, <2>2
<1>12. OneNumber'
  BY <1>2, <1>6 DEF IInv, OneNumber
<1>13. UnixFirst' /\ Place'
  BY <1>2 DEF IInv, UnixFirst, Place
<1>14. NoneLost'
  BY <1>2, <1>5 DEF IInv, NoneLost
<1>15. Listed'
  BY <1>2, <1>3, ListsLive DEF IInv, Listed
<1>16. Stage'
  BY <1>2 DEF Stage, sock
<1>. QED
  BY <1>9, <1>10, <1>11, <1>12, <1>13, <1>14, <1>15, <1>16 DEF IInv

LEMMA WrapStep ==
  ASSUME IInv, NEW c \in Conns, Wrap(c)
  PROVE  IInv'
<1>. DEFINE tcp == TcpSocket(c)
            sock == SslSocket(c)
            n == descriptor[tcp]
<1>1. /\ pc = "wrap" /\ pc' = "move" /\ local = {tcp} /\ local' = {tcp, sock}
      /\ descriptor' = [s \in Living \union {sock} |-> IF s = sock THEN n ELSE descriptor[s]]
      /\ protected = {} /\ protected' = {tcp}
      /\ UNCHANGED <<table, socketsList, reSocketsList, at>> /\ at <= Len(reSocketsList)
  BY DEF Wrap, Wrapped, IInv, Stage, Place
<1>2. /\ tcp # sock /\ tcp[1] = c /\ sock[1] = c /\ sock \in Objects /\ tcp # UnixSocket
      /\ sock # UnixSocket
  BY ObjectFacts
<1>3. tcp \in Living /\ n \in Open /\ table[n] = c /\ n \in Numbers
  BY <1>1, <1>2, LivingOpen DEF IInv, TypeOK, NumbersTrue
<1>4. sock \notin Living
  <2>. SUFFICES ASSUME sock \in Living PROVE FALSE
    OBVIOUS
  <2>1. descriptor[sock] \in Open /\ table[descriptor[sock]] = c
    BY <1>2, LivingOpen DEF IInv, NumbersTrue
  <2>2. descriptor[sock] = n
    BY <1>3, <2>1 DEF IInv, OneNumber
  <2>. QED
    BY <1>1, <1>2, <1>3, <2>2, OneEach DEF IInv
<1>. HIDE DEF tcp, sock, n
<1>6. Living' = Living \union {sock} /\ descriptor'[sock] = n
      /\ \A s \in Living : descriptor'[s] = descriptor[s]
  BY <1>1, <1>4 DEF Living
<1>7. Open' = Open /\ table' = table
  BY <1>1 DEF Open
<1>8. /\ socketsList' \in Seq(Living') /\ Len(socketsList') <= MaxSockets
      /\ reSocketsList' \in Seq(Living') /\ Len(reSocketsList') <= MaxSockets
  <2>1. ToSet(socketsList) \subseteq Living' /\ ToSet(reSocketsList) \subseteq Living'
    BY <1>6, ListsLive DEF IInv
  <2>. QED
    BY <1>1, <2>1, SeqNarrow DEF IInv, TypeOK
<1>9. TypeOK'
  BY <1>1, <1>2, <1>3, <1>6, <1>8 DEF IInv, TypeOK
<1>10. NumbersTrue'
  <2>1. \A s \in Living' : table'[descriptor'[s]] = s[1]
    BY <1>2, <1>3, <1>6, <1>7 DEF IInv, NumbersTrue
  <2>2. \A i \in 1 .. Len(socketsList) : descriptor'[socketsList[i]] = descriptor[socketsList[i]]
    BY <1>6, ListsLive DEF IInv
  <2>3. socketsList' = socketsList
    BY <1>1
  <2>4. \A i, j \in 1 .. Len(socketsList') :
          descriptor'[socketsList'[i]] = descriptor'[socketsList'[j]] => i = j
    BY <2>2, <2>3 DEF IInv, NumbersTrue
  <2>. QED
    BY <2>1, <2>4 DEF NumbersTrue
<1>11. OneOwner'
  <2>. SUFFICES ASSUME NEW m \in Open
                PROVE  \E s \in Living' \ protected' :
                         /\ descriptor'[s] = m
                         /\ \A o \in Living' \ protected' : descriptor'[o] = m => o = s
    BY <1>7 DEF OneOwner
  <2>1. PICK s \in Living \ protected :
          /\ descriptor[s] = m
          /\ \A o \in Living \ protected : descriptor[o] = m => o = s
    BY DEF IInv, OneOwner
  <2>2. CASE m = n
    <3>1. s = tcp
      BY <1>1, <1>3, <2>1, <2>2 DEF n
    <3>. QED
      BY <1>1, <1>2, <1>6, <2>1, <2>2, <3>1
  <2>3. CASE m # n
    <3>1. s # tcp
      BY <2>1, <2>3 DEF n
    <3>. QED
      BY <1>1, <1>6, <2>1, <2>3, <3>1
  <2>. QED
    BY <2>2, <2>3
<1>12. OneNumber'
  BY <1>7 DEF IInv, OneNumber
<1>13. UnixFirst' /\ Place'
  BY <1>1 DEF IInv, UnixFirst, Place
<1>14. NoneLost'
  BY <1>1, <1>6 DEF IInv, NoneLost
<1>15. Listed'
  <2>1. \A s \in ToSet(socketsList) \union ToSet(reSocketsList) : s \in Living
    BY ListsLive DEF IInv
  <2>. QED
    BY <1>1, <1>4, <2>1 DEF IInv, Listed
<1>16. Stage'
  <2>1. protected' = {s \in local' : pc' = "move" /\ \E e \in Conns : s = TcpSocket(e)}
    BY <1>1, ObjectFacts DEF tcp, sock
  <2>. QED
    BY <1>1, <2>1 DEF Stage, tcp, sock
<1>. QED
  BY <1>9, <1>10, <1>11, <1>12, <1>13, <1>14, <1>15, <1>16 DEF IInv

(* The invariant holds in every state.                                     *)
THEOREM SocketsInductive == Spec => []IInv
<1>1. Init => IInv
  BY InitIInv
<1>2. IInv /\ [Next]_vars => IInv'
  <2>. SUFFICES ASSUME IInv, [Next]_vars PROVE IInv'
    OBVIOUS
  <2>1. CASE Clear
    BY <2>1, ClearStep
  <2>2. CASE pollSockets
    BY <2>2, PollStep
  <2>3. CASE Polled
    BY <2>3, PolledStep
  <2>4. CASE ReceiveOther \/ \E c \in Conns : Keep(c)
    BY <2>4, KeepStep
  <2>5. CASE Return
    BY <2>5, ReturnStep
  <2>6. CASE \E c \in Conns : Receive(c)
    BY <2>6, ReceiveStep
  <2>7. CASE \E c \in Conns : Wrap(c)
    BY <2>7, WrapStep
  <2>8. CASE \E c \in Conns : Move(c)
    BY <2>8, MoveStep
  <2>9. CASE \E c \in Conns : Put(c)
    BY <2>9, PutStep
  <2>10. CASE \E c \in Conns : Drop(c)
    BY <2>10, DropStep
  <2>11. CASE UNCHANGED vars
    BY <2>11 DEF vars, IInv, TypeOK, NumbersTrue, OneOwner, UnixFirst, OneNumber, NoneLost,
                 Listed, Stage, Place, Living, Open
  <2>. QED
    BY <2>1, <2>2, <2>3, <2>4, <2>5, <2>6, <2>7, <2>8, <2>9, <2>10, <2>11 DEF Next
<1>. QED
  BY <1>1, <1>2, PTL DEF Spec

-------------------------------------------------------------------------------
(* What follows.                                                           *)

(* A living Socket's number is open on the connection it was made for, and *)
(* the list has no number twice (Socket.cpp:24, SocketsList.h:53).         *)
THEOREM NumbersTrueHolds == Spec => []NumbersTrue
<1>1. IInv => NumbersTrue
  BY DEF IInv
<1>. QED
  BY <1>1, SocketsInductive, PTL

(* Every open number has exactly one living Socket that will close it      *)
(* (SslSocket.cpp:36).                                                     *)
THEOREM OneOwnerHolds == Spec => []OneOwner
<1>1. IInv => OneOwner
  BY DEF IInv
<1>. QED
  BY <1>1, SocketsInductive, PTL

(* The unix socket is first in the list and in what is reported            *)
(* (mydisp.cpp:227).                                                       *)
THEOREM UnixFirstHolds == Spec => []UnixFirst
<1>1. IInv => UnixFirst
  BY DEF IInv
<1>. QED
  BY <1>1, SocketsInductive, PTL

(* The variables keep their types.                                         *)
THEOREM SocketsTypes == Spec => []TypeOK
<1>1. IInv => TypeOK
  BY DEF IInv
<1>. QED
  BY <1>1, SocketsInductive, PTL

-------------------------------------------------------------------------------
(* How many numbers are open.                                              *)

(* A list holds no more Sockets than its length.                           *)
LEMMA ListCardinality ==
  ASSUME TypeOK
  PROVE  IsFiniteSet(ToSet(socketsList)) /\ Cardinality(ToSet(socketsList)) <= MaxSockets
<1>. DEFINE n == Len(socketsList)
            f == [i \in 1 .. n |-> socketsList[i]]
<1>1. n \in Nat /\ n <= MaxSockets /\ MaxSockets \in Nat /\ DOMAIN socketsList = 1 .. n
  BY SocketsAssumption DEF TypeOK
<1>2. f \in Surjection(1 .. n, ToSet(socketsList))
  BY <1>1 DEF Surjection, ToSet
<1>3. IsFiniteSet(1 .. n) /\ Cardinality(1 .. n) = n
  <2>1. n \in Int /\ 1 \in Int /\ (IF 1 > n THEN 0 ELSE n - 1 + 1) = n
    BY <1>1
  <2>. HIDE DEF n, f
  <2>. QED
    BY ONLY <2>1, FS_Interval
<1>. HIDE DEF n, f
<1>4. /\ IsFiniteSet(ToSet(socketsList))
      /\ Cardinality(ToSet(socketsList)) <= n
  BY ONLY <1>2, <1>3, FS_Surjection
<1>5. Cardinality(ToSet(socketsList)) \in Nat
  BY <1>4, FS_CardinalityType
<1>. QED
  BY <1>1, <1>4, <1>5

(* No more numbers are open than there are Sockets that will close one.    *)
LEMMA OpenCardinality ==
  ASSUME TypeOK, NumbersTrue, OneOwner, NEW S, IsFiniteSet(S), Living \ protected \subseteq S
  PROVE  IsFiniteSet(Open) /\ Cardinality(Open) <= Cardinality(S)
<1>. DEFINE L == Living \ protected
            f == [s \in L |-> descriptor[s]]
<1>1. f \in Surjection(L, Open)
  BY LivingOpen DEF Surjection, OneOwner
<1>2. L \in SUBSET S
  OBVIOUS
<1>. HIDE DEF L, f
<1>3. IsFiniteSet(L) /\ Cardinality(L) <= Cardinality(S)
  BY <1>2, FS_Subset
<1>4. IsFiniteSet(Open) /\ Cardinality(Open) <= Cardinality(L)
  BY <1>1, <1>3, FS_Surjection
<1>5. Cardinality(Open) \in Nat /\ Cardinality(L) \in Nat /\ Cardinality(S) \in Nat
  BY <1>3, <1>4, FS_CardinalityType
<1>. QED
  BY <1>3, <1>4, <1>5

(* The unix socket never leaves the list.                                  *)
LEMMA UnixListed == IInv => UnixSocket \in ToSet(socketsList)
<1>. SUFFICES ASSUME IInv PROVE UnixSocket \in ToSet(socketsList)
  OBVIOUS
<1>1. socketsList \in Seq(Living) /\ socketsList # << >> /\ Head(socketsList) = UnixSocket
  BY DEF IInv, TypeOK, UnixFirst, Place
<1>2. 1 \in 1 .. Len(socketsList) /\ socketsList[1] = UnixSocket
  BY <1>1
<1>. QED
  BY <1>1, <1>2 DEF ToSet

LEMMA InitJInv == Init => JInv
<1>. SUFFICES ASSUME Init PROVE JInv
  OBVIOUS
<1>1. pc = "clear" /\ reSocketsList = << >> /\ Living = {UnixSocket}
  BY DEF Init, Living
<1>2. IsFiniteSet(Living) /\ Cardinality(Living) = 1
  BY ONLY <1>1, FS_Singleton
<1>3. Cardinality(Living) <= MaxSockets
  BY <1>2, SocketsAssumption
<1>. QED
  BY <1>1, <1>2, <1>3 DEF JInv, ReceivesFirst, Few, Receiving

LEMMA NextReceivesFirst ==
  ASSUME IInv, IInv', ReceivesFirst, Next
  PROVE  ReceivesFirst'
<1>1. CASE Clear
  <2>1. pc' = "poll" /\ reSocketsList' = << >>
    BY <1>1 DEF Clear, Release
  <2>2. ToSet(reSocketsList') = {}
    BY <2>1 DEF ToSet
  <2>. QED
    BY <2>1, <2>2 DEF ReceivesFirst, Receiving
<1>2. CASE pollSockets
  <2>. DEFINE sock == socketsList[at]
  <2>1. /\ pc = "poll" /\ pc' = "poll" /\ at <= Len(socketsList) /\ socketsList' = socketsList
        /\ reSocketsList' \in {reSocketsList, putSocket(reSocketsList, sock)}
    BY <1>2 DEF pollSockets
  <2>2. /\ at \in 1 .. Len(socketsList) /\ sock \in ToSet(socketsList) /\ sock \in Living
        /\ Len(socketsList) \in Nat /\ reSocketsList \in Seq(Living) /\ Len(reSocketsList) \in Nat
    BY <2>1, ListsLive DEF IInv, TypeOK
  <2>3. at # 1 => sock # UnixSocket
    <3>1. socketsList[1] = UnixSocket /\ 1 \in 1 .. Len(socketsList)
      BY <2>2 DEF IInv, UnixFirst, TypeOK, Place
    <3>. QED
      BY <2>2, <3>1 DEF IInv, NumbersTrue
  <2>4. at = 1 => Len(reSocketsList) = 0
    BY <2>1 DEF IInv, Place
  <2>. HIDE DEF sock
  <2>5. CASE reSocketsList' = reSocketsList
    BY <2>1, <2>5 DEF ReceivesFirst, Receiving
  <2>6. CASE reSocketsList' = Append(reSocketsList, sock)
    <3>1. /\ reSocketsList' \in Seq(Living) /\ Len(reSocketsList') = Len(reSocketsList) + 1
          /\ \A i \in 1 .. Len(reSocketsList) : reSocketsList'[i] = reSocketsList[i]
          /\ reSocketsList'[Len(reSocketsList) + 1] = sock
      BY <2>2, <2>6, AppendProperties
    <3>2. ToSet(reSocketsList') \subseteq ToSet(reSocketsList) \union {sock}
      BY <2>2, <3>1 DEF ToSet
    <3>3. ToSet(reSocketsList') \subseteq ToSet(socketsList')
      BY <2>1, <2>2, <3>2 DEF ReceivesFirst
    <3>4. \A i \in 1 .. Len(reSocketsList') : reSocketsList'[i] = UnixSocket => i = 1
      BY <2>2, <2>3, <2>4, <3>1 DEF ReceivesFirst
    <3>. QED
      BY <2>1, <3>3, <3>4 DEF ReceivesFirst, Receiving
  <2>. QED
    BY <2>1, <2>5, <2>6 DEF putSocket
<1>3. CASE Polled
  BY <1>3 DEF Polled, ReceivesFirst, Receiving
<1>4. CASE ReceiveOther \/ \E c \in Conns : Keep(c) \/ Drop(c)
  <2>1. /\ pc = "round" /\ Handled /\ reSocketsList' = reSocketsList
    BY <1>4 DEF ReceiveOther, Keep, Drop, Handling
  <2>2. at' # 1 \/ pc' = "clear"
    BY <2>1 DEF Handled, IInv, TypeOK
  <2>3. pc' \in {"clear", "round"}
    BY <2>1 DEF Handled
  <2>. QED
    BY <2>1, <2>2, <2>3 DEF ReceivesFirst, Receiving
<1>5. CASE Return
  <2>1. pc = "return" /\ Handled /\ reSocketsList' = reSocketsList
    BY <1>5 DEF Return, Release
  <2>2. at' # 1 \/ pc' = "clear"
    BY <2>1 DEF Handled, IInv, TypeOK
  <2>3. pc' \in {"clear", "round"}
    BY <2>1 DEF Handled
  <2>. QED
    BY <2>1, <2>2, <2>3 DEF ReceivesFirst, Receiving
<1>6. CASE \E c \in Conns : Receive(c)
  <2>1. /\ pc = "round" /\ pc' = "wrap" /\ reSocketsList[at] = UnixSocket
        /\ UNCHANGED <<socketsList, reSocketsList, at>>
    BY <1>6 DEF Receive, Handling
  <2>2. at \in 1 .. Len(reSocketsList)
    BY <2>1 DEF IInv, TypeOK, Place
  <2>3. at = 1
    BY <2>1, <2>2 DEF ReceivesFirst
  <2>. QED
    BY <2>1, <2>3 DEF ReceivesFirst, Receiving
<1>7. CASE \E c \in Conns : Wrap(c) \/ Move(c)
  <2>1. /\ Receiving /\ Receiving' /\ UNCHANGED <<socketsList, reSocketsList, at>>
        /\ pc' \notin {"poll", "round"}
    BY <1>7 DEF Wrap, Wrapped, Move, Release, Receiving
  <2>. QED
    BY <2>1 DEF ReceivesFirst
<1>8. CASE \E c \in Conns : Put(c)
  <2>1. PICK c \in Conns : Put(c)
    BY <1>8
  <2>2. /\ Receiving /\ Receiving' /\ UNCHANGED <<reSocketsList, at>> /\ pc' \notin {"poll", "round"}
        /\ socketsList' = putSocket(socketsList, SslSocket(c))
    BY <2>1 DEF Put, Receiving
  <2>3. ToSet(socketsList) \subseteq ToSet(socketsList')
    <3>1. CASE socketsList' = socketsList
      BY <3>1
    <3>2. CASE socketsList' = Append(socketsList, SslSocket(c))
      <4>1. socketsList \in Seq(Living) /\ SslSocket(c) \in Living /\ Len(socketsList) \in Nat
        BY <2>1 DEF Put, IInv, TypeOK
      <4>2. /\ socketsList' \in Seq(Living) /\ Len(socketsList') = Len(socketsList) + 1
            /\ \A i \in 1 .. Len(socketsList) : socketsList'[i] = socketsList[i]
        BY <3>2, <4>1, AppendProperties
      <4>. QED
        BY <4>1, <4>2 DEF ToSet
    <3>. QED
      BY <2>2, <3>1, <3>2 DEF putSocket
  <2>. QED
    BY <2>2, <2>3 DEF ReceivesFirst
<1>. QED
  BY <1>1, <1>2, <1>3, <1>4, <1>5, <1>6, <1>7, <1>8 DEF Next

LEMMA NextFew ==
  ASSUME IInv, IInv', ReceivesFirst, Few, Next
  PROVE  Few'
<1>1. CASE Clear
  <2>1. reSocketsList' = << >> /\ local' = {} /\ ToSet(reSocketsList') = {}
    BY <1>1 DEF Clear, Release, IInv, Stage, ToSet
  <2>2. Living' = ToSet(socketsList')
    <3>1. UnixSocket \in ToSet(socketsList)
      BY UnixListed
    <3>2. socketsList' = socketsList /\ NoneLost'
      BY <1>1 DEF Clear, IInv
    <3>. QED
      BY <2>1, <3>1, <3>2 DEF NoneLost
  <2>. QED
    BY <1>1, <2>2, ListCardinality DEF Clear, IInv, Few
<1>2. CASE pollSockets \/ Polled \/ ReceiveOther \/ \E c \in Conns : Keep(c) \/ Drop(c)
  <2>1. Living' = Living /\ pc \in {"poll", "round"}
    BY <1>2 DEF pollSockets, Polled, ReceiveOther, Keep, Drop, Handling, Living
  <2>. QED
    BY <2>1 DEF Few
<1>3. CASE \E c \in Conns : Receive(c) \/ Wrap(c) \/ Move(c) \/ Put(c)
  BY <1>3 DEF Receive, Wrap, Wrapped, Move, Put, Few
<1>4. CASE Return
  <2>1. reSocketsList' = reSocketsList /\ local' = {} /\ socketsList' = socketsList /\ Receiving
    BY <1>4 DEF Return, Release, Receiving
  <2>2. Living' = ToSet(socketsList)
    BY <2>1, UnixListed DEF IInv, NoneLost, ReceivesFirst
  <2>. QED
    BY <2>2, ListCardinality DEF IInv, Few
<1>. QED
  BY <1>1, <1>2, <1>3, <1>4 DEF Next

THEOREM SocketsFew == Spec => []JInv
<1>1. IInv /\ IInv' /\ JInv /\ [Next]_vars => JInv'
  <2>. SUFFICES ASSUME IInv, IInv', JInv, [Next]_vars PROVE JInv'
    OBVIOUS
  <2>1. CASE Next
    BY <2>1, NextReceivesFirst, NextFew DEF JInv
  <2>2. CASE UNCHANGED vars
    BY <2>2 DEF vars, JInv, ReceivesFirst, Few, Receiving, Living
  <2>. QED
    BY <2>1, <2>2
<1>. QED
  BY <1>1, InitJInv, SocketsInductive, PTL DEF Spec

(* However clients come and go, at most MaxSockets + 1 numbers are open    *)
(* (mydisp.cpp:237).                                                       *)
THEOREM FewNumbersHolds == Spec => []FewNumbers
<1>1. IInv /\ JInv => FewNumbers
  <2>. SUFFICES ASSUME IInv, JInv PROVE FewNumbers
    OBVIOUS
  <2>0. MaxSockets \in Nat
    BY SocketsAssumption
  <2>1. ASSUME NEW S, IsFiniteSet(S), Cardinality(S) <= MaxSockets + 1, Living \ protected \subseteq S
        PROVE  FewNumbers
    <3>1. IsFiniteSet(Open) /\ Cardinality(Open) <= Cardinality(S)
      BY <2>1, OpenCardinality DEF IInv
    <3>2. Cardinality(Open) \in Nat /\ Cardinality(S) \in Nat
      BY <2>1, <3>1, FS_CardinalityType
    <3>. QED
      BY <2>0, <2>1, <3>1, <3>2 DEF FewNumbers
  <2>2. CASE pc \in {"clear", "poll", "round"}
    <3>1. IsFiniteSet(Living) /\ Cardinality(Living) <= MaxSockets
      BY <2>2 DEF JInv, Few
    <3>2. Cardinality(Living) \in Nat
      BY <3>1, FS_CardinalityType
    <3>3. Cardinality(Living) <= MaxSockets + 1 /\ Living \ protected \subseteq Living
      BY <2>0, <3>1, <3>2
    <3>. QED
      BY ONLY <2>1, <3>1, <3>3
  <2>3. CASE Receiving
    <3>1. Living = ToSet(socketsList) \union local
      BY <2>3, UnixListed DEF IInv, JInv, NoneLost, ReceivesFirst
    <3>2. \E x : local \ protected \subseteq {x}
      BY <2>3 DEF IInv, Stage, Receiving
    <3>3. PICK x : local \ protected \subseteq {x}
      BY <3>2
    <3>. DEFINE S == ToSet(socketsList) \union {x}
    <3>4. IsFiniteSet(ToSet(socketsList)) /\ Cardinality(ToSet(socketsList)) <= MaxSockets
      BY ListCardinality DEF IInv
    <3>5. Cardinality(ToSet(socketsList)) \in Nat
      BY <3>4, FS_CardinalityType
    <3>6. IsFiniteSet(S) /\ Cardinality(S) <= MaxSockets + 1
      BY <2>0, <3>4, <3>5, FS_AddElement
    <3>7. Living \ protected \subseteq S
      BY <3>1, <3>3
    <3>. HIDE DEF S
    <3>. QED
      BY ONLY <2>1, <3>6, <3>7
  <2>. QED
    BY <2>2, <2>3 DEF IInv, TypeOK, Receiving
<1>. QED
  BY <1>1, SocketsInductive, SocketsFew, PTL

(* Only the Socket whose handler failed leaves the list (SocketsList.h:49).*)
THEOREM DropsItsOwnHolds == Spec => DropsItsOwn
<1>1. IInv /\ IInv' /\ [Next]_vars =>
        [ToSet(socketsList) \subseteq
           ToSet(socketsList') \union (IF pc = "round" THEN {reSocketsList[at]} ELSE {})]_vars
  <2>. SUFFICES ASSUME IInv, IInv', Next
                PROVE  ToSet(socketsList) \subseteq
                         ToSet(socketsList') \union (IF pc = "round" THEN {reSocketsList[at]} ELSE {})
    OBVIOUS
  <2>1. CASE socketsList' = socketsList
    BY <2>1
  <2>2. CASE \E c \in Conns : Put(c)
    <3>1. PICK c \in Conns : Put(c)
      BY <2>2
    <3>2. socketsList' = putSocket(socketsList, SslSocket(c)) /\ SslSocket(c) \in Living
      BY <3>1 DEF Put, IInv, TypeOK
    <3>3. CASE socketsList' = Append(socketsList, SslSocket(c))
      <4>1. socketsList \in Seq(Living) /\ Len(socketsList) \in Nat
        BY DEF IInv, TypeOK
      <4>2. /\ socketsList' \in Seq(Living) /\ Len(socketsList') = Len(socketsList) + 1
            /\ \A i \in 1 .. Len(socketsList) : socketsList'[i] = socketsList[i]
        BY <3>2, <3>3, <4>1, AppendProperties
      <4>. QED
        BY <4>1, <4>2 DEF ToSet
    <3>. QED
      BY <2>1, <3>2, <3>3 DEF putSocket
  <2>3. CASE \E c \in Conns : Drop(c)
    <3>1. PICK c \in Conns : Drop(c)
      BY <2>3
    <3>2. ToSet(socketsList) \subseteq ToSet(socketsList') \union {SslSocket(c)}
      BY <3>1, DropTakesOne
    <3>. QED
      BY <3>1, <3>2 DEF Drop, Handling
  <2>. QED
    BY <2>1, <2>2, <2>3
       DEF Next, Clear, pollSockets, Polled, ReceiveOther, Return, Receive, Wrap, Wrapped, Move, Keep
<1>. QED
  BY <1>1, SocketsInductive, PTL DEF Spec, DropsItsOwn

=============================================================================
