---------------------------- MODULE SocketServer ----------------------------
(***************************************************************************)
(* The conversation of cgproxy and cgnoproxy with the daemon.              *)
(*                                                                         *)
(* A client connects, writes the length of its message and the message,    *)
(* and waits for a status; the thread socketserver serves one connection   *)
(* after the other, with calls that block.  Clients may be killed at any   *)
(* point, and so may the daemon, which may come back.                      *)
(***************************************************************************)
EXTENDS Naturals, Sequences

CONSTANTS
  Client,      \* the clients, each of which sends one message
  NoClient,
  Backlog,     \* LISTEN_BACKLOG
  MaxStops     \* bound: how often the daemon goes down

(* Bytes that are nobody's message. *)
Garbage == "garbage"

ASSUME SocketServerAssumption ==
  /\ NoClient \notin Client /\ Garbage \notin Client
  /\ Backlog \in Nat /\ MaxStops \in Nat

VARIABLES
  cpc,      \* where send() of each client is
  result,   \* the status that send() gives to its caller
  written,  \* how many of its two writes are done
  answer,   \* the status in its socket, not read yet
  spc,      \* where socketListening() is
  queue,    \* connections that wait to be accepted
  cfd,      \* the client behind SocketServer::cfd
  msg,      \* the client whose message is handled
  buffer,   \* the client whose message is left in freed memory
  status,   \* what handle_msg() has returned
  handled,  \* the statuses that handling a client's message has given
  stops     \* how often the daemon has gone down

client == <<cpc, result, written, answer>>
server == <<spc, queue, cfd, msg, buffer, status, handled, stops>>
vars   == <<cpc, result, written, answer, spc, queue, cfd, msg, buffer,
            status, handled, stops>>

(* What handle_msg() returns (ERROR is not told from MSG_ERROR), and what  *)
(* send() makes of a failure.                                              *)
Status  == {"SUCCESS", "MSG_ERROR"}
Failure == {"CONN_ERROR", "UNKNOWN_ERROR"}
None    == "none"

Label == {"idle", "connect", "length", "msg", "read", "done", "killed"}

TypeOK ==
  /\ cpc \in [Client -> Label]
  /\ result \in [Client -> Status \cup Failure \cup {None}]
  /\ written \in [Client -> 0..2]
  /\ answer \in [Client -> Status \cup {None}]
  /\ spc \in {"down", "close", "accept", "length", "msg", "handle", "answer"}
  /\ queue \in Seq(Client)
  /\ cfd \in Client \cup {NoClient}
  /\ msg \in Client \cup {NoClient, Garbage}
  /\ buffer \in Client \cup {NoClient}
  /\ status \in Status \cup {None}
  /\ handled \in [Client -> SUBSET Status]
  /\ stops \in 0..MaxStops

Init ==
  /\ cpc = [c \in Client |-> "idle"]
  /\ result = [c \in Client |-> None]
  /\ written = [c \in Client |-> 0]
  /\ answer = [c \in Client |-> None]
  /\ spc = "down" /\ queue = <<>> /\ cfd = NoClient
  /\ msg = NoClient /\ buffer = NoClient /\ status = None
  /\ handled = [c \in Client |-> {}]
  /\ stops = 0

(* The server's end of a connection is open. *)
Open(c) == cfd = c \/ \E i \in DOMAIN queue : queue[i] = c
Killed(c) == cpc[c] = "killed"

-----------------------------------------------------------------------------
(* send() of socket_client.cpp *)

Return(c, s) ==
  /\ cpc' = [cpc EXCEPT ![c] = "done"]
  /\ result' = [result EXCEPT ![c] = s]

Call(c) ==
  /\ cpc[c] = "idle" /\ cpc' = [cpc EXCEPT ![c] = "connect"]
  /\ UNCHANGED <<result, written, answer, server>>

(* connect() fails when nobody listens, and waits while the queue is full. *)
Connect(c) ==
  /\ cpc[c] = "connect"
  /\ \/ /\ spc = "down" /\ Return(c, "CONN_ERROR")
        /\ UNCHANGED queue
     \/ /\ spc # "down" /\ Len(queue) <= Backlog
        /\ queue' = Append(queue, c)
        /\ cpc' = [cpc EXCEPT ![c] = "length"]
        /\ UNCHANGED result
  /\ UNCHANGED <<written, answer, spc, cfd, msg, buffer, status, handled, stops>>

(* A write to a connection that is closed raises SIGPIPE, which kills the  *)
(* client unless it was started with the signal ignored.                   *)
Write(c, next) ==
  /\ \/ /\ Open(c)
        /\ written' = [written EXCEPT ![c] = @ + 1]
        /\ cpc' = [cpc EXCEPT ![c] = next]
        /\ UNCHANGED result
     \/ /\ ~Open(c) /\ UNCHANGED written
        /\ \/ Return(c, "CONN_ERROR")
           \/ cpc' = [cpc EXCEPT ![c] = "killed"] /\ UNCHANGED result
  /\ UNCHANGED <<answer, server>>

(* A mutation: the status is awaited before the message is sent. *)
WriteLengthOnly(c) == cpc[c] = "length" /\ Write(c, "read")
WriteLength(c) == cpc[c] = "length" /\ Write(c, "msg")
WriteMsg(c) == cpc[c] = "msg" /\ Write(c, "read")

(* A status that read() has not set is the one that send() began with; a   *)
(* reset is an error.  A mutation: it began with 0.                        *)
Unanswered0 == {"SUCCESS", "CONN_ERROR"}
Unanswered == {"UNKNOWN_ERROR", "CONN_ERROR"}

ReadStatus(c) ==
  /\ cpc[c] = "read"
  /\ \/ answer[c] # None /\ Return(c, answer[c])
     \/ /\ answer[c] = None /\ ~Open(c)
        /\ \E s \in Unanswered : Return(c, s)
  /\ UNCHANGED <<written, answer, server>>

Kill(c) ==
  /\ cpc[c] \in {"connect", "length", "msg", "read"}
  /\ cpc' = [cpc EXCEPT ![c] = "killed"]
  /\ UNCHANGED <<result, written, answer, server>>

-----------------------------------------------------------------------------
(* socketListening() of socket_server.cpp *)

(* The old name is unlinked, the socket bound and listened to. *)
Listen ==
  /\ spc = "down" /\ spc' = "close"
  /\ UNCHANGED <<client, queue, cfd, msg, buffer, status, handled, stops>>

CloseLast ==
  /\ spc = "close" /\ spc' = "accept" /\ cfd' = NoClient
  /\ UNCHANGED <<client, queue, msg, buffer, status, handled, stops>>

Accept ==
  /\ spc = "accept" /\ queue # <<>> /\ spc' = "length"
  /\ cfd' = Head(queue) /\ queue' = Tail(queue)
  /\ UNCHANGED <<client, msg, buffer, status, handled, stops>>

(* The process ends, and the kernel closes its connections. *)
Die ==
  /\ spc' = "down" /\ queue' = <<>> /\ cfd' = NoClient
  /\ msg' = NoClient /\ buffer' = NoClient /\ status' = None
  /\ UNCHANGED <<client, handled>>

(* At the end of a connection read() returns 0, which is no error here.    *)
(* The buffer has what malloc() found, maybe the message handled before.   *)
Uninitialized ==
  /\ msg' \in {Garbage} \cup ({buffer} \ {NoClient}) /\ spc' = "handle"
  /\ UNCHANGED <<client, queue, cfd, buffer, status, handled, stops>>

(* Without a length, msg_len is whatever was on the stack: malloc() and    *)
(* read() may fail, and the terminating zero may be written anywhere.      *)
ReadLength ==
  /\ spc = "length"
  /\ \/ /\ written[cfd] > 0 /\ spc' = "msg"
        /\ UNCHANGED <<client, queue, cfd, msg, buffer, status, handled, stops>>
     \/ /\ written[cfd] = 0 /\ Killed(cfd)
        /\ \/ Uninitialized
           \/ /\ spc' = "close"
              /\ UNCHANGED <<client, queue, cfd, msg, buffer, status, handled,
                             stops>>
           \/ Die /\ UNCHANGED stops

ReadMsg ==
  /\ spc = "msg"
  /\ \/ /\ written[cfd] = 2 /\ spc' = "handle"
        /\ msg' = cfd /\ buffer' = cfd
        /\ UNCHANGED <<client, queue, cfd, status, handled, stops>>
     \/ written[cfd] = 1 /\ Killed(cfd) /\ Uninitialized

(* handle_msg(): what it does is the subject of Placement. *)
Callback ==
  /\ spc = "handle" /\ spc' = "answer"
  /\ \/ /\ msg = Garbage /\ status' = "MSG_ERROR" /\ UNCHANGED handled
     \/ /\ msg # Garbage /\ status' \in Status
        /\ handled' = [handled EXCEPT ![msg] = @ \cup {status'}]
  /\ msg' = NoClient
  /\ UNCHANGED <<client, queue, cfd, buffer, stops>>

(* A service manager starts the daemon with SIGPIPE ignored, and it goes   *)
(* on; started by hand, it is killed by the write to a client that is gone. *)
WriteBack ==
  /\ spc = "answer" /\ status' = None
  /\ \/ /\ spc' = "close"
        /\ answer' = IF Killed(cfd) THEN answer
                                    ELSE [answer EXCEPT ![cfd] = status]
        /\ UNCHANGED <<cpc, result, written, queue, cfd, msg, buffer, handled,
                       stops>>
     \/ Killed(cfd) /\ Die /\ UNCHANGED stops

(* The daemon is stopped or killed. *)
Stop ==
  /\ spc # "down" /\ stops < MaxStops /\ stops' = stops + 1
  /\ Die

ClientStep(c) == Connect(c) \/ WriteLength(c) \/ WriteMsg(c) \/ ReadStatus(c)
ServerStep == CloseLast \/ Accept \/ ReadLength \/ ReadMsg \/ Callback
                \/ WriteBack

Next ==
  \/ \E c \in Client : Call(c) \/ ClientStep(c) \/ Kill(c)
  \/ Listen \/ ServerStep \/ Stop

Spec == Init /\ [][Next]_vars

(* A client that is not killed goes through send() without a pause, and    *)
(* the thread runs; handle_msg() returns (Placement!Answered).             *)
Fairness ==
  /\ \A c \in Client : WF_vars(ClientStep(c))
  /\ WF_vars(ServerStep)

FairSpec == Spec /\ Fairness

-----------------------------------------------------------------------------
(* A client takes for done, and so runs its command, only what the daemon  *)
(* has done for its own message, whichever clients were killed before it   *)
(* and however often the daemon went down.                                 *)
OwnAnswer == \A c \in Client : result[c] \in Status => result[c] \in handled[c]

(* Each send() returns: no client that is killed half-way, no full queue   *)
(* and no death of the daemon leaves another one waiting for ever.         *)
Returned ==
  \A c \in Client : cpc[c] # "idle" ~> cpc[c] \in {"done", "killed"}
=============================================================================
