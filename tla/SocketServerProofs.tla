------------------------ MODULE SocketServerProofs --------------------------
(***************************************************************************)
(* OwnAnswer, for any number of clients, any backlog and any number of     *)
(* daemons one after the other.                                            *)
(*                                                                         *)
(* What a killed client leaves in the buffer is handled only on its own    *)
(* connection: when the client behind cfd lives, the message that is read  *)
(* there is the one that it wrote.                                         *)
(***************************************************************************)
EXTENDS SocketServer, TLAPS

Serving == {"length", "msg", "handle", "answer"}

(* Where the server is, and what it has of the client that it serves. *)
Served ==
  /\ spc \in Serving => cfd \in Client
  /\ spc = "handle" => msg \in Client \cup {Garbage}
  /\ spc = "handle" /\ ~Killed(cfd) => msg = cfd
  /\ spc = "answer" => status \in Status
  /\ spc = "answer" /\ ~Killed(cfd) => status \in handled[cfd]

(* A status on its way to a client is one that it was owed. *)
Owed == \A c \in Client : answer[c] # None => answer[c] \in handled[c]

(* How far a client has come tells what it has written. *)
Counted ==
  \A c \in Client :
    /\ cpc[c] \in {"idle", "connect", "length"} => written[c] = 0
    /\ cpc[c] = "msg" => written[c] = 1

IInv == TypeOK /\ Counted /\ Served /\ Owed /\ OwnAnswer

-----------------------------------------------------------------------------
(* The end of the daemon takes no answer back. *)
LEMMA DieStep ==
  ASSUME IInv, Die, stops' \in 0..MaxStops PROVE IInv'
<1> QED
  BY DEF IInv, Die, client, TypeOK, Counted, Served, Owed, OwnAnswer, Serving, Status, Killed

(* A step of a client. *)
LEMMA ClientSteps ==
  ASSUME IInv, NEW c \in Client, Call(c) \/ ClientStep(c) \/ Kill(c) PROVE IInv'
<1> USE DEF IInv, TypeOK, Label
<1>1. CASE Call(c)
  BY <1>1 DEF Call, server, Counted, Served, Owed, OwnAnswer, Killed, Serving, Status
<1>2. CASE Connect(c)
  <2>1. Append(queue, c) \in Seq(Client)
    OBVIOUS
  <2>2. /\ UNCHANGED <<written, answer, spc, cfd, msg, buffer, status, handled, stops>>
        /\ \A d \in Client : Killed(d)' <=> Killed(d)
        /\ result' = result \/ result' = [result EXCEPT ![c] = "CONN_ERROR"]
    BY <1>2 DEF Connect, Return, Killed
  <2>3. TypeOK' /\ Counted'
    BY <1>2, <2>1, <2>2 DEF Connect, Return, Counted, Failure
  <2>4. Served' /\ Owed' /\ OwnAnswer'
    BY <2>2 DEF Served, Owed, OwnAnswer, Serving, Status
  <2>5. QED
    BY <2>3, <2>4
<1>3. CASE WriteLength(c) \/ WriteMsg(c)
  <2>1. UNCHANGED <<answer, server>>
    BY <1>3 DEF WriteLength, WriteMsg, Write
  <2>2. TypeOK' /\ Counted'
    BY <1>3, <2>1 DEF WriteLength, WriteMsg, Write, Return, server, Counted, Failure
  <2>3. /\ \A d \in Client : Killed(d) => Killed(d)'
        /\ result' = result \/ result' = [result EXCEPT ![c] = "CONN_ERROR"]
    BY <1>3 DEF WriteLength, WriteMsg, Write, Return, Killed
  <2>4. Served' /\ Owed' /\ OwnAnswer'
    BY <2>1, <2>3 DEF server, Served, Owed, OwnAnswer, Serving, Status
  <2>5. QED
    BY <2>2, <2>4
<1>4. CASE ReadStatus(c)
  BY <1>4 DEF ReadStatus, Return, server, Unanswered, Counted, Served, Owed, OwnAnswer,
              Killed, Serving, Status, Failure, None
<1>5. CASE Kill(c)
  BY <1>5 DEF Kill, server, Counted, Served, Owed, OwnAnswer, Killed, Serving, Status
<1>6. QED
  BY <1>1, <1>2, <1>3, <1>4, <1>5 DEF ClientStep

(* A step of the server, whatever it reads. *)
LEMMA ServerSteps ==
  ASSUME IInv, Listen \/ ServerStep \/ Stop PROVE IInv'
<1> USE SocketServerAssumption DEF IInv, TypeOK, client, Serving
<1>1. CASE Listen
  BY <1>1 DEF Listen, Counted, Served, Owed, OwnAnswer
<1>2. CASE CloseLast
  BY <1>2 DEF CloseLast, Counted, Served, Owed, OwnAnswer
<1>3. CASE Accept
  <2>1. Head(queue) \in Client /\ Tail(queue) \in Seq(Client)
    BY <1>3 DEF Accept
  <2>2. QED
    BY <1>3, <2>1 DEF Accept, Counted, Served, Owed, OwnAnswer
<1>4. CASE Uninitialized /\ Killed(cfd) /\ spc \in Serving
  BY <1>4 DEF Uninitialized, Counted, Served, Owed, OwnAnswer, Killed, Garbage
<1>5. CASE ReadLength
  BY <1>4, <1>5, DieStep DEF ReadLength, Counted, Served, Owed, OwnAnswer
<1>6. CASE ReadMsg
  BY <1>4, <1>6 DEF ReadMsg, Counted, Served, Owed, OwnAnswer, Killed
<1>7. CASE Callback
  BY <1>7 DEF Callback, Counted, Served, Owed, OwnAnswer, Killed, Status
<1>8. CASE WriteBack
  BY <1>8, DieStep DEF WriteBack, Counted, Served, Owed, OwnAnswer, Killed
<1>9. CASE Stop
  BY <1>9, DieStep DEF Stop
<1>10. QED
  BY <1>1, <1>2, <1>3, <1>5, <1>6, <1>7, <1>8, <1>9 DEF ServerStep

-----------------------------------------------------------------------------
(* send() gives its caller SUCCESS or MSG_ERROR only as what handle_msg()  *)
(* has returned for this caller's message.                                 *)
THEOREM AnswersAreOwn == Spec => []OwnAnswer
<1>1. Init => IInv
  BY SocketServerAssumption DEF Init, IInv, TypeOK, Label, Counted, Served, Serving, Owed,
                                OwnAnswer, Status, Failure, None
<1>2. IInv /\ UNCHANGED vars => IInv'
  BY DEF IInv, vars, TypeOK, Counted, Served, Owed, OwnAnswer, Killed
<1>3. IInv /\ [Next]_vars => IInv'
  BY <1>2, ClientSteps, ServerSteps DEF Next
<1>4. IInv => OwnAnswer
  BY DEF IInv
<1>5. QED
  BY <1>1, <1>3, <1>4, PTL DEF Spec
=============================================================================
