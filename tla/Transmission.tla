---------------------------- MODULE Transmission ----------------------------
(***************************************************************************)
(* One connection from connect() on: class Transmission,                   *)
(* base/transport/f_transmission.cpp, the methods RealWrite and RealRead   *)
(* of its base class Socket, f_socket.cpp, and the part of the engine's    *)
(* pass that serves it, f_engine.cpp from line 97 on.  Engine shows that   *)
(* readThread never gets to its serving part, here is what that part does  *)
(* for a socket in its maps.                                               *)
(*                                                                         *)
(* Bytes are counted, not named: that the two AutoGrowBuffers keep their   *)
(* order is ImplementsQueue in AutoGrowBuffer.  The engine thread runs     *)
(* against the peer and against the application's threads, which may call  *)
(* Send and Close, from callbacks too, between any two of its steps.  Each *)
(* of its reads of status_ is a step of its own: nothing holds a lock.     *)
(***************************************************************************)
EXTENDS Integers

CONSTANTS
  CacheLen,   (* kRecvCacheLen: what one read() takes at most               *)
  Window,     (* bytes the kernels hold of what was written and not read    *)
  MaxIn,      (* bound: bytes the peer sends                                *)
  MaxOut      (* bound: bytes the application sends                         *)

ASSUME TransmissionAssumption ==
  /\ CacheLen \in Nat \ {0} /\ Window \in Nat \ {0}
  /\ MaxIn \in Nat /\ MaxOut \in Nat

VARIABLES
  status,     (* Socket::status_                                            *)
  pc,         (* where the engine thread is                                 *)
  readable,   (* the FdCheck of this pass: EPOLLIN                          *)
  readBuf,    (* bytes in read_                                             *)
  offered,    (* those of them OnData has seen and not taken                *)
  sendBuf,    (* bytes in send_                                             *)
  incoming,   (* kernel: bytes arrived and not read                         *)
  flight,     (* kernel: bytes written that the peer has not read           *)
  conn,       (* kernel: what connect() has come to                         *)
  fin,        (* the peer has closed                                        *)
  reset,      (* the peer has reset the connection                          *)
  heard,      (* history: the handler's last callback                       *)
  closed,     (* history: Close was called                                  *)
  due,        (* history: bytes that had arrived when this pass polled      *)
  arrived, delivered, accepted, peerGot   (* history: byte counts           *)

kernelVars == <<conn, incoming, flight, fin, reset>>
bufferVars == <<readBuf, offered, sendBuf>>
countVars == <<arrived, delivered, accepted, peerGot>>
vars == <<status, pc, readable, bufferVars, kernelVars, heard, closed, due, countVars>>

Talking == {"OnConnect", "OnData", "OnWrite"}

TypeOK ==
  /\ status \in {"CONNECTING", "CONNECTED", "DISCONNECTED"}
  /\ pc \in {"scan", "poll", "write", "writing", "finish", "connected", "flush", "read",
             "checked", "reading", "exit", "reap", "done", "killed"}
  /\ readable \in BOOLEAN
  /\ readBuf \in 0 .. MaxIn /\ offered \in 0 .. readBuf /\ sendBuf \in 0 .. MaxOut
  /\ incoming \in 0 .. MaxIn /\ flight \in 0 .. Window
  /\ conn \in {"pending", "up", "refused"} /\ fin \in BOOLEAN /\ reset \in BOOLEAN
  /\ heard \in {"created", "OnDisconnect"} \cup Talking
  /\ closed \in BOOLEAN /\ due \in 0 .. MaxIn
  /\ arrived \in 0 .. MaxIn /\ delivered \in 0 .. MaxIn
  /\ accepted \in 0 .. MaxOut /\ peerGot \in 0 .. MaxOut

Init ==
  /\ status = "CONNECTING" /\ pc = "scan" /\ readable = FALSE
  /\ readBuf = 0 /\ offered = 0 /\ sendBuf = 0
  /\ conn = "pending" /\ incoming = 0 /\ flight = 0 /\ fin = FALSE /\ reset = FALSE
  /\ heard = "created" /\ closed = FALSE /\ due = 0
  /\ arrived = 0 /\ delivered = 0 /\ accepted = 0 /\ peerGot = 0

-----------------------------------------------------------------------------
(* The peer and the kernels between.                                       *)

ConnectEnds ==
  /\ conn = "pending"
  /\ conn' \in {"up", "refused"}
  /\ UNCHANGED <<status, pc, readable, bufferVars, incoming, flight, fin, reset, heard,
                 closed, due, countVars>>

Up == conn = "up" /\ ~reset

PeerSend ==
  /\ Up /\ ~fin /\ arrived < MaxIn
  /\ incoming' = incoming + 1 /\ arrived' = arrived + 1
  /\ UNCHANGED <<status, pc, readable, bufferVars, conn, flight, fin, reset, heard, closed, due,
                 delivered, accepted, peerGot>>

PeerRead ==
  /\ Up /\ ~fin /\ flight > 0
  /\ flight' = flight - 1 /\ peerGot' = peerGot + 1
  /\ UNCHANGED <<status, pc, readable, bufferVars, conn, incoming, fin, reset, heard, closed,
                 due, arrived, delivered, accepted>>

PeerClose ==
  /\ Up /\ ~fin
  /\ fin' = TRUE
  /\ UNCHANGED <<status, pc, readable, bufferVars, conn, incoming, flight, reset, heard, closed,
                 due, countVars>>

(* A crash, or the answer to bytes sent to a side that is closed.          *)
PeerReset ==
  /\ Up /\ (fin => flight > 0)
  /\ reset' = TRUE
  /\ UNCHANGED <<status, pc, readable, bufferVars, conn, incoming, flight, fin, heard, closed,
                 due, countVars>>

-----------------------------------------------------------------------------
(* The application.                                                        *)

(* Transmission::Send; nothing asks whether the socket is connected.       *)
Send ==
  /\ pc # "killed" /\ accepted < MaxOut
  /\ sendBuf' = sendBuf + 1 /\ accepted' = accepted + 1
  /\ UNCHANGED <<status, pc, readable, readBuf, offered, kernelVars, heard, closed, due,
                 arrived, delivered, peerGot>>

(* Socket::Close, through Connector::Close: only as long as Query finds    *)
(* the socket.                                                             *)
Close ==
  /\ pc \notin {"reap", "done", "killed"}
  /\ status' = "DISCONNECTED" /\ closed' = TRUE
  /\ UNCHANGED <<pc, readable, bufferVars, kernelVars, heard, due, countVars>>

-----------------------------------------------------------------------------
(* The engine thread.                                                      *)

(* The scan sorts a DISCONNECTED socket out.  Mutant: it does not.         *)
Gone_Never == FALSE
Gone == status = "DISCONNECTED"

Scan ==
  /\ pc = "scan"
  /\ pc' = IF Gone THEN "reap" ELSE "poll"
  /\ UNCHANGED <<status, readable, bufferVars, kernelVars, heard, closed, due, countVars>>

(* The loop ends, after a Stop or because Dispatch or FdCheck failed, and  *)
(* afterThread closes the socket before it lets it go.                     *)
ThreadEnds ==
  /\ pc \in {"scan", "poll"}
  /\ pc' = "exit"
  /\ UNCHANGED <<status, readable, bufferVars, kernelVars, heard, closed, due, countVars>>

Exit ==
  /\ pc = "exit"
  /\ status' = "DISCONNECTED" /\ pc' = "reap"
  /\ UNCHANGED <<readable, bufferVars, kernelVars, heard, closed, due, countVars>>

(* RealDisconnect.                                                         *)
Reap ==
  /\ pc = "reap"
  /\ heard' = "OnDisconnect" /\ pc' = "done"
  /\ UNCHANGED <<status, readable, bufferVars, kernelVars, closed, due, countVars>>

Readable == incoming > 0 \/ fin \/ reset \/ conn = "refused"
Writable == (conn = "up" /\ flight < Window) \/ reset \/ conn = "refused"

(* Dispatch and FdCheck; a socket that is writable is written first.       *)
Poll ==
  /\ pc = "poll"
  /\ readable' = Readable
  /\ due' = incoming
  /\ pc' = IF Writable THEN "write" ELSE IF Readable THEN "read" ELSE "scan"
  /\ UNCHANGED <<status, bufferVars, kernelVars, heard, closed, countVars>>

(* Where a return from RealWrite leads.  Mutant: one event a pass.         *)
AfterWrite_Scan == pc' = "scan"
AfterWrite == pc' = IF readable THEN "read" ELSE "scan"

(* RealWrite reads status_ to see whether it is DISCONNECTED ...           *)
RealWrite ==
  /\ pc = "write"
  /\ IF status = "DISCONNECTED" THEN AfterWrite ELSE pc' = "writing"
  /\ UNCHANGED <<status, readable, bufferVars, kernelVars, heard, closed, due, countVars>>

(* ... and again to see whether it is CONNECTING: what is neither by now   *)
(* is written to.                                                          *)
StillConnecting ==
  /\ pc = "writing"
  /\ pc' = IF status = "CONNECTING" THEN "finish" ELSE "flush"
  /\ UNCHANGED <<status, readable, bufferVars, kernelVars, heard, closed, due, countVars>>

Broken == conn = "refused" \/ reset

(* SocketFinishConnecting asks for the pending error of the socket: one    *)
(* that says to wait ends RealWrite, another one the connection.           *)
FinishConnecting ==
  /\ pc = "finish"
  /\ \/ ~Broken /\ pc' = "connected" /\ UNCHANGED status
     \/ Broken /\ status' = "DISCONNECTED" /\ AfterWrite
     \/ AfterWrite /\ UNCHANGED status
  /\ UNCHANGED <<readable, bufferVars, kernelVars, heard, closed, due, countVars>>

(* status_ is overwritten, be it what it may, and OnConnect called.        *)
(* Mutant: the assignment is missing.                                      *)
NewStatus_Same == status
NewStatus == "CONNECTED"

Connected ==
  /\ pc = "connected"
  /\ status' = NewStatus /\ heard' = "OnConnect" /\ pc' = "flush"
  /\ UNCHANGED <<readable, bufferVars, kernelVars, closed, due, countVars>>

(* Transmission::OnWrite: what write() takes leaves send_; the handler is  *)
(* asked for more when there is nothing to send.  Mutant: it always is.    *)
Pending_Never == FALSE
Pending == sendBuf > 0

AskForMore ==
  /\ pc = "flush" /\ ~Pending
  /\ heard' = "OnWrite" /\ AfterWrite
  /\ UNCHANGED <<status, readable, bufferVars, kernelVars, closed, due, countVars>>

Write ==
  /\ pc = "flush" /\ Pending /\ ~Broken
  /\ \E n \in 1 .. sendBuf :
       /\ flight + n <= Window
       /\ sendBuf' = sendBuf - n /\ flight' = flight + n
  /\ AfterWrite
  /\ UNCHANGED <<status, readable, readBuf, offered, conn, incoming, fin, reset, heard, closed,
                 due, countVars>>

(* write() on a connection that was refused, or that the peer has reset,   *)
(* fails; after the peer's FIN the error is EPIPE, with a SIGPIPE, which   *)
(* nothing in the program ignores.                                         *)
WriteFails ==
  /\ pc = "flush" /\ Pending /\ Broken
  /\ \/ ~fin /\ status' = "DISCONNECTED" /\ AfterWrite
     \/ fin /\ pc' = "killed" /\ UNCHANGED status
  /\ UNCHANGED <<readable, bufferVars, kernelVars, heard, closed, due, countVars>>

(* RealRead, likewise, tests for DISCONNECTED ...                          *)
RealRead ==
  /\ pc = "read"
  /\ pc' = IF status = "DISCONNECTED" THEN "scan" ELSE "checked"
  /\ UNCHANGED <<status, readable, bufferVars, kernelVars, heard, closed, due, countVars>>

(* ... and then for CONNECTING.                                            *)
NotConnecting ==
  /\ pc = "checked"
  /\ pc' = IF status = "CONNECTING" THEN "scan" ELSE "reading"
  /\ UNCHANGED <<status, readable, bufferVars, kernelVars, heard, closed, due, countVars>>

(* What one read() takes.                                                  *)
Taken == IF incoming < CacheLen THEN incoming ELSE CacheLen

(* A full cache means there may be more; only a part of one is the end.    *)
(* Mutant: the other way round.                                            *)
Finish_Inverted == Taken = CacheLen
Finish == Taken < CacheLen

(* What OnData may take, PopHeadData, and what is left.  Mutants: the      *)
(* result is not checked; all counts as taken.                             *)
Takes_Any == 0 .. readBuf + Taken + 1
Takes == 0 .. readBuf + Taken
Left_None(n) == 0
Left(n) == readBuf + Taken - n

(* A read() and OnRead: the bytes go to read_, and at the end OnData is    *)
(* shown all of it and says how many it took.                              *)
ReadSome ==
  /\ pc = "reading" /\ incoming > 0
  /\ incoming' = incoming - Taken /\ due' = IF due > Taken THEN due - Taken ELSE 0
  /\ IF Finish
     THEN /\ \E n \in Takes :
               /\ readBuf' = Left(n)
               /\ delivered' = delivered + n
          /\ offered' = readBuf' /\ heard' = "OnData"
          /\ pc' = "scan"
     ELSE /\ readBuf' = readBuf + Taken
          /\ UNCHANGED <<delivered, offered, heard, pc>>
  /\ UNCHANGED <<status, readable, sendBuf, conn, flight, fin, reset, closed, arrived,
                 accepted, peerGot>>

(* read() finds nothing: wait, end of stream or error.  Mutant: the end of *)
(* the stream is taken for waiting.                                        *)
Ended_Error == Broken
Ended == fin \/ Broken

ReadNothing ==
  /\ pc = "reading" /\ incoming = 0
  /\ IF Ended THEN status' = "DISCONNECTED" ELSE UNCHANGED status
  /\ pc' = "scan"
  /\ UNCHANGED <<readable, bufferVars, kernelVars, heard, closed, due, countVars>>

-----------------------------------------------------------------------------
Peer == ConnectEnds \/ PeerSend \/ PeerRead \/ PeerClose \/ PeerReset

EngineStep ==
  \/ Scan \/ Reap \/ Poll \/ Exit
  \/ RealWrite \/ StillConnecting \/ FinishConnecting \/ Connected
  \/ AskForMore \/ Write \/ WriteFails
  \/ RealRead \/ NotConnecting \/ ReadSome \/ ReadNothing

Next == Peer \/ Send \/ Close \/ EngineStep \/ ThreadEnds

Spec == Init /\ [][Next]_vars

(* The engine thread runs, and a peer that is there reads.                 *)
FairSpec == Spec /\ WF_vars(EngineStep) /\ WF_vars(PeerRead)

-----------------------------------------------------------------------------
(* The handler hears OnConnect once and OnDisconnect last.  Data, and the  *)
(* question for data, come after OnConnect, or for a socket the            *)
(* application had closed by then: a Close between the two tests of        *)
(* RealWrite, or of RealRead, looks to the second like a connection.       *)
Hears(callback) ==
  CASE callback = "OnConnect"            -> heard = "created"
    [] callback \in {"OnData", "OnWrite"} -> heard \in Talking \/ (heard = "created" /\ closed)
    [] callback = "OnDisconnect"         -> heard # "OnDisconnect"

HeardInOrder == [][heard' # heard => Hears(heard')]_vars

(* No byte is lost or doubled between send_, the kernels and the peer, nor *)
(* between the peer, read_ and the handler, whatever parts read(), write() *)
(* and OnData take.                                                        *)
NothingLost ==
  /\ accepted = sendBuf + flight + peerGot
  /\ arrived = incoming + readBuf + delivered

(* Bytes read and not shown to the handler are whole caches: the loop of   *)
(* RealRead may end without the call that finishes, but only after a read()*)
(* that filled the cache to the last byte.                                 *)
OnlyWholeCachesStick == (readBuf - offered) % CacheLen = 0

(* A connected socket's bytes that had arrived when the pass polled have   *)
(* been read when it ends: writing first puts reading off, but only a      *)
(* connection that has ended meanwhile keeps it from happening.            *)
ReadInPass == pc = "scan" /\ status = "CONNECTED" => due = 0

(* What is sent on a connection that stays up leaves send_.                *)
SendsFlushed ==
  sendBuf > 0 /\ heard \in Talking ~>
    sendBuf = 0 \/ fin \/ reset \/ status = "DISCONNECTED"

(* A Close after OnConnect leads to OnDisconnect, unless the process is    *)
(* killed by the signal of a write.                                        *)
CloseReported ==
  heard \in Talking /\ status = "DISCONNECTED" ~>
    heard = "OnDisconnect" \/ pc = "killed"

(* The end of the connection is noticed: the peer's FIN or reset leads to  *)
(* OnDisconnect, or to the signal that kills the process.                  *)
EndNoticed ==
  (fin \/ reset) /\ heard \in Talking ~> heard = "OnDisconnect" \/ pc = "killed"

-----------------------------------------------------------------------------
(* OnData is called when data has been received: every byte read is shown  *)
(* to the handler, if the connection lasts.                                *)
DataReachesHandler ==
  readBuf > offered ~> readBuf = offered \/ status = "DISCONNECTED" \/ pc = "killed"

=============================================================================
