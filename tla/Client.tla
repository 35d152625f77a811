-------------------------------- MODULE Client --------------------------------
(***************************************************************************)
(* The clients (src/myclnt.cpp) and what the kernel keeps of the TCP       *)
(* connection between a client and the process that serves it.            *)
(*                                                                         *)
(*   cpc[c]    where main() of client c stands: not started, blocked in    *)
(*             read(), waiting for the user's next word, about to end      *)
(*             after the EXIT it wrote, gone                               *)
(*   sent[c]   pieces of the words the user has typed and of the EXIT      *)
(*   up[c]     pieces sent by c, not read yet by the server                *)
(*   down[c]   everything the server wrote to c while c lived              *)
(*   got[c]    how much of down[c] the client has read                     *)
(*   srv[c]    the server's end: none yet, open in some process or in      *)
(*             flight between two, closed                                  *)
(*   peer[c]   what the server's end knows of c: open, end of file (fin),  *)
(*             a reset under way (rstfly), reset (rst)                     *)
(*                                                                         *)
(* Words have any length, the dispatcher's buffer has 100 bytes and may be *)
(* nearly full with the word before (mydisp.cpp:154).  A word is written   *)
(* as a sequence of pieces, cut wherever some read() will end: one that no *)
(* read() cuts is a single piece.  A piece is abstracted to what the       *)
(* comparison with "EXIT" can tell of the bytes a read() begins with.      *)
(***************************************************************************)
EXTENDS Naturals, Sequences

CONSTANTS Clients,   \* the clients that may connect
          MaxSend,   \* bound: pieces of the words one user types
          Typed      \* bound: the kinds of these pieces

(* "EXIT" is a piece that begins so, be it in the middle of a word.        *)
(* "SHORT" has fewer than four bytes: memcmp goes on to the next piece, or *)
(* compares bytes nobody wrote (mydisp.cpp:169).                           *)
Pieces == {"EXIT", "DATA", "SHORT"}

ASSUME ClientAssumption == MaxSend \in Nat /\ Typed \subseteq Pieces

VARIABLES cpc, sent, up, down, got, srv, peer

clientVars == <<cpc, sent, up, down, got, srv, peer>>

(* "TICKET" stands for the TLS session tickets SSL_accept leaves in the    *)
(* connection: the client's raw BIO_read may return them first.            *)
Replies == {"TICKET", "HELLO", "ECHO", "BYE", "BUSY"}

ClientTypeOK ==
  /\ cpc \in [Clients -> {"idle", "read", "input", "leave", "done"}]
  /\ sent \in [Clients -> Nat]
  /\ up \in [Clients -> Seq(Pieces)]
  /\ down \in [Clients -> Seq(Replies)]
  /\ got \in [Clients -> Nat]
  /\ srv \in [Clients -> {"none", "open", "closed"}]
  /\ peer \in [Clients -> {"none", "open", "fin", "rstfly", "rst"}]

ClientInit ==
  /\ cpc = [c \in Clients |-> "idle"]
  /\ sent = [c \in Clients |-> 0]
  /\ up = [c \in Clients |-> << >>]
  /\ down = [c \in Clients |-> << >>]
  /\ got = [c \in Clients |-> 0]
  /\ srv = [c \in Clients |-> "none"]
  /\ peer = [c \in Clients |-> "none"]

Unread(c) == got[c] < Len(down[c])

-------------------------------------------------------------------------------
(* What the client does.                                                   *)

(* TCP connect and TLS handshake, as seen from outside the listener.       *)
Connect(c) ==
  /\ cpc[c] = "idle"
  /\ cpc' = [cpc EXCEPT ![c] = "read"]
  /\ srv' = [srv EXCEPT ![c] = "open"]
  /\ peer' = [peer EXCEPT ![c] = "open"]
  /\ \E early \in {<< >>, <<"TICKET">>} : down' = [down EXCEPT ![c] = early]
  /\ UNCHANGED <<sent, up, got>>

(* read() returns some or all of what has arrived, or 0 or -1 once the     *)
(* server's end is closed (a reset may drop what has arrived); the loop    *)
(* goes on to std::cin in either case.                                     *)
ClientRead(c) ==
  /\ cpc[c] = "read"
  /\ \/ \E n \in got[c] + 1 .. Len(down[c]) : got' = [got EXCEPT ![c] = n]
     \/ srv[c] = "closed" /\ UNCHANGED got
  /\ cpc' = [cpc EXCEPT ![c] = "input"]
  /\ UNCHANGED <<sent, up, down, srv, peer>>

(* A word written into a connection the server has closed goes nowhere.    *)
Writes(c, word) ==
  /\ sent' = [sent EXCEPT ![c] = @ + Len(word)]
  /\ up' = IF srv[c] = "open" THEN [up EXCEPT ![c] = @ \o word] ELSE up

ClientSend(c) ==
  /\ cpc[c] = "input"
  /\ \E n \in 1 .. MaxSend - sent[c] : \E word \in [1 .. n -> Typed] : Writes(c, word)
  /\ cpc' = [cpc EXCEPT ![c] = "read"]
  /\ UNCHANGED <<down, got, srv, peer>>

(* The empty word: the client writes EXIT and leaves the loop.  Four bytes *)
(* are cut, once, only by a read() that begins with others before them.    *)
ClientQuit(c) ==
  /\ cpc[c] = "input"
  /\ \/ Writes(c, <<"EXIT">>)
     \/ up[c] # << >> /\ Writes(c, <<"SHORT", "SHORT">>)
  /\ cpc' = [cpc EXCEPT ![c] = "leave"]
  /\ UNCHANGED <<down, got, srv, peer>>

(* The process ends, after its EXIT or because it is killed (a signal, or  *)
(* SIGPIPE when it writes to a connection that is reset).  A socket closed *)
(* with unread data resets the connection, any other one ends the stream;  *)
(* there is nobody left to have read anything.                             *)
ClientClose(c) ==
  /\ cpc[c] \in {"read", "input", "leave"}
  /\ cpc' = [cpc EXCEPT ![c] = "done"]
  /\ peer' = IF srv[c] # "open" THEN peer
             ELSE [peer EXCEPT ![c] = IF Unread(c) THEN "rst" ELSE "fin"]
  /\ down' = [down EXCEPT ![c] = << >>]
  /\ got' = [got EXCEPT ![c] = 0]
  /\ UNCHANGED <<sent, up, srv>>

(* The kernel of the gone client answers a late write with a reset.        *)
RstArrives(c) ==
  /\ peer[c] = "rstfly"
  /\ peer' = [peer EXCEPT ![c] = "rst"]
  /\ UNCHANGED <<cpc, sent, up, down, got, srv>>

ClientStep(c) ==
  ClientRead(c) \/ ClientSend(c) \/ ClientQuit(c) \/ ClientClose(c) \/ RstArrives(c)

-------------------------------------------------------------------------------
(* What the server does with its end (utils::write, close()).              *)

Writable(c) == peer[c] # "rst"

(* After a write of m: a living client can read it; a client whose end of  *)
(* file has been seen is gone, and the write provokes a reset.             *)
ServerWrite(c, m) ==
  /\ down' = IF peer[c] = "open" THEN [down EXCEPT ![c] = Append(@, m)] ELSE down
  /\ peer' = IF peer[c] = "fin" THEN [peer EXCEPT ![c] = "rstfly"] ELSE peer

(* The last descriptor of each connection of S is closed: what the client  *)
(* sent and nobody read is lost.                                           *)
Closed(S) == [c \in Clients |-> IF c \in S THEN "closed" ELSE srv[c]]
Emptied(S, q) == [c \in Clients |-> IF c \in S THEN << >> ELSE q[c]]
Forgotten(S, p) == [c \in Clients |-> IF c \in S THEN "none" ELSE p[c]]

ServerClose(S) ==
  /\ srv' = Closed(S)
  /\ up' = Emptied(S, up)
  /\ peer' = Forgotten(S, peer)
=============================================================================
