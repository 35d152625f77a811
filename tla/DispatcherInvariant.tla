------------------------- MODULE DispatcherInvariant -------------------------
(***************************************************************************)
(* The strengthening that makes the dispatcher's safety inductive, in      *)
(* named parts.  TLC checks it; DispatcherProofs.tla proves it.            *)
(***************************************************************************)
EXTENDS DispatcherService

(* A reported socket not handled yet is listed; what is listed was taken   *)
(* with a context and given a status by Admit; a process that has ended    *)
(* holds nothing.                                                          *)
Bookkeeping ==
  /\ \A c \in Clients : revents[c] # {} => c \in socketsList \intersect reSocketsList
  /\ \A c \in Clients : c \in socketsList => sslGlobalCtx /\ clientStatus[c] # "NONE"
  /\ Alive => Unix \in socketsList
  /\ pc = "recv" => revents[Unix] # {}
  /\ ~Alive => socketsList = {} /\ reSocketsList = {} /\ stream = << >>

(* What can stand in the unix stream: before there is a context, the label *)
(* first, then the options, then clients and EXIT; afterwards only these.  *)
Later == Clients \union {"EXIT"}

StreamShape ==
  /\ pc # "crashed"
  /\ pc = "recv" => ~sslGlobalCtx /\ stream # << >>
  /\ ~sslGlobalCtx /\ stream # << >> => stream[1] = "CONFIG"
  /\ ~sslGlobalCtx /\ Len(stream) >= 2 => stream[2] = "OPTIONS"
  /\ \A i \in 1 .. Len(stream) : (sslGlobalCtx \/ i > 2) => stream[i] \in Later
  /\ Alive /\ parent = "label" => ~sslGlobalCtx /\ stream = << >>
  /\ Alive /\ parent = "text" => ~sslGlobalCtx /\ Len(stream) = 1
  /\ Alive /\ parent \in {"serve", "bye"} /\ ~sslGlobalCtx => Len(stream) >= 2

(* Who holds a connection, and what its ends know of each other.           *)
Gone == {"fin", "rstfly", "rst"}

Ownership ==
  /\ DescriptorsHeld
  /\ \A c \in Clients :
       /\ srv[c] = "none" <=> cpc[c] = "idle"
       /\ srv[c] = "open" <=> peer[c] # "none"
       /\ peer[c] \in Gone => cpc[c] = "done"
       /\ srv[c] = "open" /\ cpc[c] = "done" => peer[c] \in Gone
       /\ "HUP" \in revents[c] => peer[c] = "rst"

(* The list never outgrows its size.                                       *)
Bounded == IsFiniteSet(socketsList) /\ Cardinality(socketsList) <= MaxSockets

(* Before the unix socket of a round is handled, nobody reported in it has *)
(* left the list, and the descriptors of the round before are closed.      *)
TakesFirst == revents[Unix] # {} => reSocketsList \subseteq socketsList

(* What was reported of the unix socket is still so when its handler runs: *)
(* only the process reads the stream, and a parent that has gone is gone.  *)
UnixTrue ==
  /\ revents[Unix] # {} => stream # << >> \/ parent = "closed"
  /\ "HUP" \in revents[Unix] => parent = "closed"

(* What a client that is connected heard last agrees with its status; the  *)
(* greeting alone is asked for; each answer has used up some of what the   *)
(* client wrote, its EXIT included, and nothing that still waits.          *)
Latest(c) == IF down[c] = << >> THEN "START" ELSE down[c][Len(down[c])]

Heard(c) ==
  peer[c] = "open" =>
    /\ InFlight(c) # {} => Latest(c) \in Follows["HELLO"]
    /\ c \in socketsList =>
         /\ Latest(c) # "BUSY"
         /\ clientStatus[c] = "HELLO" => Latest(c) \in Follows["HELLO"]
         /\ clientStatus[c] = "ECHO" => Latest(c) \in Follows["ECHO"]

Asked(c) ==
  /\ c \in pollOut => clientStatus[c] = "HELLO" /\ revents[c] = {}
  /\ "OUT" \in revents[c] => clientStatus[c] = "HELLO"

Used(c) == Answers(c) + Len(up[c]) <= sent[c]

Talk == Conversation /\ \A c \in Clients : Heard(c) /\ Asked(c) /\ Used(c)

IInv ==
  /\ TypeOK /\ Bookkeeping /\ StreamShape /\ Ownership /\ Bounded
  /\ TakesFirst /\ UnixTrue /\ GreetingPending /\ NeverBlocks
=============================================================================
