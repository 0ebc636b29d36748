------------------------ MODULE TransmissionSecurity ------------------------
(***************************************************************************)
(* One TLS connection: class TransmissionSecurity,                         *)
(* base/transport/f_transmission_security.cpp, between the methods         *)
(* RealWrite and RealRead of its base class Socket, mbedtls, the handler   *)
(* and the peer.                                                           *)
(*                                                                         *)
(* mbedtls is external: ssl_handshake writes a flight, asks for the        *)
(* peer's, and comes back with WANT_READ until it has it; records are      *)
(* fetched header first, then body.  The application's data is counted,    *)
(* one piece to a record.  tls_send_ is not here: nothing ever fills it,   *)
(* so that lines 188-196 always end in the handler's OnWrite.  What a      *)
(* reset does, what else the end of connect() may come to, the end of the  *)
(* engine thread, and the order of reads and writes in a pass, are in      *)
(* Transmission.                                                           *)
(***************************************************************************)
EXTENDS Integers, Sequences, FiniteSets

CONSTANTS
  CacheLen,    (* kRecvCacheLen: what one read() takes at most              *)
  HeaderLen,   (* bytes of a record's header                                *)
  RecordLen,   (* bytes of a record                                         *)
  MaxIn,       (* bound: records of data the peer sends                     *)
  MaxOut       (* bound: data waiting in source_send_                       *)

ASSUME SecurityAssumption ==
  /\ CacheLen \in Nat \ {0} /\ HeaderLen \in Nat \ {0} /\ RecordLen \in Nat
  /\ HeaderLen < RecordLen
  /\ MaxIn \in Nat /\ MaxOut \in Nat

VARIABLES
  status,      (* Socket::status_                                           *)
  init,        (* init_: SetSecurityLicence succeeded                       *)
  pc,          (* where the engine thread is                                *)
  method,      (* the method it is in: OnRead or OnWrite                    *)
  handshake,   (* how far mbedtls is                                        *)
  tlsRead,     (* bytes in tls_read_                                        *)
  inRecord,    (* bytes mbedtls holds of the record it is fetching          *)
  sourceRead,  (* data in source_read_                                      *)
  sourceSend,  (* data in source_send_                                      *)
  records,     (* the peer's records mbedtls has not finished, in order     *)
  transit,     (* bytes of them under way                                   *)
  incoming,    (* bytes of them arrived and not read                        *)
  peer,        (* what the peer has of the handshake                        *)
  fin,         (* the peer has closed                                       *)
  torn,        (* a record went out in part: the peer reads no more         *)
  heard,       (* history: the handler's last callback                      *)
  sent, shown, (* history: data the peer sent, and the handler took         *)
  since        (* history: bytes read since the last read() that finished   *)

socketVars == <<status, init, pc, method>>
readVars == <<tlsRead, inRecord, records>>
tlsVars == <<handshake, readVars>>
netVars == <<transit, incoming, fin>>
peerVars == <<peer, torn>>
outside == <<netVars, peerVars>>
dataVars == <<sourceRead, sourceSend, sent, shown, heard>>
vars == <<socketVars, tlsVars, outside, dataVars, since>>

Talking == {"OnConnect", "OnData", "OnWrite"}

TypeOK ==
  /\ status \in {"CONNECTING", "CONNECTED", "DISCONNECTED"} /\ init \in BOOLEAN
  /\ pc \in {"scan", "write", "writing", "connected", "entered", "handshake", "encrypt",
             "read", "checked", "reading", "decrypt", "show", "reap", "done"}
  /\ method \in {"OnRead", "OnWrite"}
  /\ handshake \in {"hello", "wait_hello", "wait_finished", "over"}
  /\ tlsRead \in Nat /\ inRecord \in {0, HeaderLen}
  /\ sourceRead \in 0 .. MaxIn /\ sourceSend \in 0 .. MaxOut
  /\ records \in Seq({"hello", "finished", "data", "alert"})
  /\ transit \in Nat /\ incoming \in Nat /\ fin \in BOOLEAN
  /\ peer \in {"none", "hello", "helloed", "finish", "finished"} /\ torn \in BOOLEAN
  /\ heard \in {"created", "OnDisconnect"} \cup Talking
  /\ sent \in 0 .. MaxIn /\ shown \in 0 .. MaxIn /\ since \in Nat

Init ==
  /\ status = "CONNECTING" /\ init \in BOOLEAN /\ pc = "scan" /\ method = "OnWrite"
  /\ handshake = "hello" /\ tlsRead = 0 /\ inRecord = 0 /\ records = <<>>
  /\ sourceRead = 0 /\ sourceSend = 0
  /\ transit = 0 /\ incoming = 0 /\ fin = FALSE
  /\ peer = "none" /\ torn = FALSE
  /\ heard = "created" /\ sent = 0 /\ shown = 0 /\ since = 0

-----------------------------------------------------------------------------
(* The peer, which answers what it has whole, and the network.             *)

PeerWrites(record) ==
  /\ ~fin
  /\ records' = Append(records, record) /\ transit' = transit + RecordLen

PeerReplies ==
  /\ \/ peer = "hello" /\ peer' = "helloed" /\ PeerWrites("hello")
     \/ peer = "finish" /\ peer' = "finished" /\ PeerWrites("finished")
  /\ UNCHANGED <<dataVars, socketVars, handshake, tlsRead, inRecord, incoming,
                 fin, torn, since>>

PeerSends ==
  /\ peer = "finished" /\ sent < MaxIn
  /\ PeerWrites("data") /\ sent' = sent + 1
  /\ UNCHANGED <<socketVars, peerVars, handshake, tlsRead, inRecord, incoming,
                 fin, sourceRead, sourceSend, shown, heard, since>>

(* The peer ends: with an alert, close_notify or an error, or without.     *)
PeerEnds ==
  /\ ~fin /\ fin' = TRUE
  /\ \/ records' = Append(records, "alert") /\ transit' = transit + RecordLen
     \/ UNCHANGED <<records, transit>>
  /\ UNCHANGED <<dataVars, socketVars, peerVars, handshake, tlsRead, inRecord,
                 incoming, since>>

Arrive ==
  /\ transit > 0
  /\ transit' = transit - 1 /\ incoming' = incoming + 1
  /\ UNCHANGED <<dataVars, tlsVars, socketVars, peerVars, fin, since>>

-----------------------------------------------------------------------------
(* The application: Send, and Close, which may come between any two steps. *)

Send ==
  /\ init /\ pc # "done" /\ sourceSend < MaxOut
  /\ sourceSend' = sourceSend + 1
  /\ UNCHANGED <<outside, tlsVars, socketVars, sourceRead, sent, shown, heard,
                 since>>

Close ==
  /\ pc \notin {"reap", "done"}
  /\ status' = "DISCONNECTED"
  /\ UNCHANGED <<init, pc, method, outside, dataVars, tlsVars, since>>

-----------------------------------------------------------------------------
(* The engine thread: its pass, and the tests of status_ and init_.        *)

ScanGone ==
  /\ pc = "scan" /\ status = "DISCONNECTED"
  /\ pc' = "reap"
  /\ UNCHANGED <<status, init, method, outside, dataVars, tlsVars, since>>

Poll(to) ==
  /\ pc = "scan" /\ status # "DISCONNECTED"
  /\ pc' = to
  /\ UNCHANGED <<status, init, method, outside, dataVars, tlsVars, since>>

Reap ==
  /\ pc = "reap"
  /\ heard' = "OnDisconnect" /\ pc' = "done"
  /\ UNCHANGED <<status, init, method, outside, tlsVars, sourceRead, sourceSend,
                 sent, shown, since>>

(* Where RealWrite and RealRead return to, and what a -1 makes of status_. *)
After(m) == IF m = "OnWrite" THEN "read" ELSE "scan"
Fail == status' = "DISCONNECTED" /\ pc' = After(method)

(* RealWrite and RealRead read status_ twice.                              *)
RealWrite ==
  /\ pc = "write" /\ method' = "OnWrite"
  /\ pc' = IF status = "DISCONNECTED" THEN "read" ELSE "writing"
  /\ UNCHANGED <<status, init, outside, dataVars, tlsVars, since>>

StillConnecting ==
  /\ pc = "writing"
  /\ pc' = IF status = "CONNECTING" THEN "connected" ELSE "entered"
  /\ UNCHANGED <<status, init, method, outside, dataVars, tlsVars, since>>

Connected ==
  /\ pc = "connected"
  /\ status' = "CONNECTED" /\ heard' = "OnConnect" /\ pc' = "entered"
  /\ UNCHANGED <<init, method, outside, tlsVars, sourceRead, sourceSend, sent,
                 shown, since>>

(* OnWrite goes on with the handshake, too.  Mutant: only OnRead does.     *)
OnWriteBegins_Read == "read"
OnWriteBegins == "handshake"

OnWrite ==
  /\ pc = "entered"
  /\ \/ init /\ pc' = OnWriteBegins /\ UNCHANGED status
     \/ ~init /\ Fail
  /\ UNCHANGED <<init, method, outside, dataVars, tlsVars, since>>

RealRead ==
  /\ pc = "read" /\ method' = "OnRead"
  /\ pc' = IF status = "DISCONNECTED" THEN "scan" ELSE "checked"
  /\ UNCHANGED <<status, init, outside, dataVars, tlsVars, since>>

NotConnecting ==
  /\ pc = "checked"
  /\ pc' = IF status = "CONNECTING" THEN "scan" ELSE "reading"
  /\ UNCHANGED <<status, init, method, outside, dataVars, tlsVars, since>>

(* What a read() gives.  Mutant: the size of the cache is handed on.       *)
Taken_Cache == CacheLen
Taken == IF incoming < CacheLen THEN incoming ELSE CacheLen

(* A read() and the beginning of OnRead: the bytes go to tls_read_, and    *)
(* only a read() that did not fill the cache goes on.                      *)
ReadSome ==
  /\ pc = "reading" /\ incoming > 0
  /\ incoming' = incoming - Taken
  /\ IF init
     THEN /\ tlsRead' = tlsRead + Taken
          /\ IF Taken < CacheLen THEN pc' = "handshake" /\ since' = 0
                                 ELSE UNCHANGED pc /\ since' = since + Taken
          /\ UNCHANGED status
     ELSE Fail /\ UNCHANGED <<tlsRead, since>>
  /\ UNCHANGED <<init, method, dataVars, peerVars, handshake, inRecord, records,
                 transit, fin>>

ReadNothing ==
  /\ pc = "reading" /\ incoming = 0
  /\ IF fin /\ transit = 0 THEN status' = "DISCONNECTED" ELSE UNCHANGED status
  /\ pc' = "scan"
  /\ UNCHANGED <<init, method, outside, dataVars, tlsVars, since>>

-----------------------------------------------------------------------------
(* mbedtls and its two callbacks.                                          *)

(* mbedtlsNetRecv gives what was asked for or WANT_READ: mbedtls has a     *)
(* record when header and body were there, each whole.                     *)
Complete == inRecord + tlsRead >= RecordLen

(* What is left in tls_read_ then.  Mutant: everything is popped.          *)
Rest_None == 0
Rest == inRecord + tlsRead - RecordLen

FetchRecord ==
  /\ Complete
  /\ tlsRead' = Rest /\ inRecord' = 0 /\ records' = Tail(records)

(* Short of a record, the header is fetched if it is there.                *)
FetchHeader ==
  /\ ~Complete
  /\ UNCHANGED records
  /\ IF inRecord = 0 /\ tlsRead >= HeaderLen
     THEN inRecord' = HeaderLen /\ tlsRead' = tlsRead - HeaderLen
     ELSE UNCHANGED <<inRecord, tlsRead>>

(* mbedtlsNetSend says that all was written though write() took a part:    *)
(* what follows is no TLS stream any more.                                 *)
NetSend(whole) ==
  \/ ~torn /\ peer' = whole /\ UNCHANGED torn
  \/ torn' = TRUE /\ UNCHANGED peer

(* ssl_handshake: a flight is written, a record of the peer awaited.       *)
Flight(next, whole) == NetSend(whole) /\ handshake' = next

(* WANT_READ ends OnRead and OnWrite.  Mutant: it is not looked at.        *)
Waiting_Goes == IF method = "OnRead" THEN "show" ELSE "encrypt"
Waiting == After(method)

Hello ==
  /\ pc = "handshake" /\ handshake = "hello"
  /\ \/ Flight("wait_hello", "hello") /\ UNCHANGED <<pc, status>>
     \/ Fail /\ UNCHANGED <<peerVars, handshake>>
  /\ UNCHANGED <<init, method, dataVars, netVars, readVars, since>>

Await ==
  /\ pc = "handshake" /\ handshake \in {"wait_hello", "wait_finished"}
  /\ FetchHeader /\ pc' = Waiting
  /\ UNCHANGED <<status, init, method, outside, dataVars, handshake, since>>

Answered ==
  /\ pc = "handshake" /\ handshake \in {"wait_hello", "wait_finished"}
  /\ FetchRecord
  /\ \/ /\ Head(records) = "hello"
        /\ Flight("wait_finished", "finish") /\ UNCHANGED <<pc, status>>
     \/ /\ Head(records) = "finished"
        /\ handshake' = "over" /\ UNCHANGED <<pc, status, peerVars>>
     \/ Head(records) # "finished" /\ Fail /\ UNCHANGED <<peerVars, handshake>>
  /\ UNCHANGED <<init, method, dataVars, netVars, since>>

HandshakeOver ==
  /\ pc = "handshake" /\ handshake = "over"
  /\ pc' = IF method = "OnRead" THEN "decrypt" ELSE "encrypt"
  /\ UNCHANGED <<status, init, method, outside, dataVars, tlsVars, since>>

-----------------------------------------------------------------------------
(* OnRead and OnWrite behind the handshake.                                *)

(* The loop of ssl_read: as long as there are records.  Mutant: one.       *)
NextRead_Once == "show"
NextRead == "decrypt"

Decrypt ==
  /\ pc = "decrypt" /\ FetchRecord
  /\ \/ /\ Head(records) = "data"
        /\ sourceRead' = sourceRead + 1 /\ pc' = NextRead /\ UNCHANGED status
     \/ Head(records) # "data" /\ Fail /\ UNCHANGED sourceRead
  /\ UNCHANGED <<init, method, outside, handshake, sourceSend, sent, shown,
                 heard, since>>

NoMoreRecords ==
  /\ pc = "decrypt" /\ FetchHeader
  /\ pc' = "show"
  /\ UNCHANGED <<status, init, method, outside, dataVars, handshake, since>>

(* OnData is called even with nothing, and takes a part or refuses.        *)
Show ==
  /\ pc = "show"
  /\ heard' = "OnData"
  /\ \/ /\ \E n \in 0 .. sourceRead : sourceRead' = sourceRead - n /\ shown' = shown + n
        /\ pc' = "scan" /\ UNCHANGED status
     \/ Fail /\ UNCHANGED <<sourceRead, shown>>
  /\ UNCHANGED <<init, method, outside, tlsVars, sourceSend, sent, since>>

(* ssl_write of what source_send_ has, as much as goes into one record;    *)
(* the handler is asked for more whether or not there is.                  *)
Encrypt ==
  /\ pc = "encrypt"
  /\ \/ /\ IF sourceSend = 0 THEN UNCHANGED <<sourceSend, peerVars>>
           ELSE /\ \E n \in 1 .. sourceSend : sourceSend' = sourceSend - n
                /\ NetSend(peer)
        /\ heard' = "OnWrite" /\ pc' = "read" /\ UNCHANGED status
     \/ sourceSend > 0 /\ Fail /\ UNCHANGED <<sourceSend, peerVars, heard>>
  /\ UNCHANGED <<init, method, tlsVars, netVars, sourceRead, sent, shown,
                 since>>

-----------------------------------------------------------------------------
TLSStep == Hello \/ Await \/ Answered \/ HandshakeOver \/ Decrypt \/ NoMoreRecords

EngineStep ==
  \/ ScanGone \/ Poll("write") \/ Poll("read") \/ Reap
  \/ RealWrite \/ StillConnecting \/ Connected \/ OnWrite
  \/ RealRead \/ NotConnecting \/ ReadSome \/ ReadNothing
  \/ TLSStep \/ Show \/ Encrypt

Next == PeerReplies \/ PeerSends \/ PeerEnds \/ Arrive \/ Send \/ Close \/ EngineStep

Spec == Init /\ [][Next]_vars

(* The engine thread runs and the socket is writable again and again; a    *)
(* peer that is there answers, and what it sends arrives.                  *)
FairSpec ==
  /\ Spec
  /\ WF_vars(EngineStep) /\ SF_vars(Poll("write"))
  /\ WF_vars(PeerReplies) /\ WF_vars(Arrive)

-----------------------------------------------------------------------------
Contract == INSTANCE HandlerContract WITH MaxSockets <- 1, phase <- <<heard>>

(* The handler of a TLS connection hears what HandlerContract allows, in   *)
(* its order, with no licence and with a handshake that fails, too.  Where *)
(* a Close between two tests leads into OnWrite or OnRead before OnConnect *)
(* (Transmission), it is the handshake, never over by then, that keeps the *)
(* handler from hearing of it.                                             *)
ImplementsContract == Contract!Spec

DataIn(s) == {i \in 1 .. Len(s) : s[i] = "data"}

(* No byte of the peer's stream is lost or doubled between the network,    *)
(* tls_read_ and mbedtls, and no data between mbedtls, source_read_ and    *)
(* the handler, however reads cut the records.                             *)
StreamKept ==
  /\ init => transit + incoming + (tlsRead + inRecord) = Len(records) * RecordLen
  /\ sent = Cardinality(DataIn(records)) + sourceRead + shown

(* Nothing is shown to the handler, and it is asked for nothing, before    *)
(* the handshake is over: what it says goes out encrypted.                 *)
OnlyBehindHandshake == heard \in {"OnData", "OnWrite"} => handshake = "over"

(* A record that has been read whole waits in tls_read_ only when the last *)
(* reads filled the cache to the last byte, so that OnRead returned early. *)
OnlyWholeCachesWait ==
  pc = "scan" /\ status = "CONNECTED" /\ Complete => since > 0 /\ since % CacheLen = 0

(* A handshake that has all it needs does not wait for another read: it    *)
(* is over in the end, unless the connection is closed or a write() took   *)
(* a part of a record.                                                     *)
HandshakeEnds ==
  heard = "OnConnect" ~> handshake = "over" \/ status = "DISCONNECTED" \/ torn

=============================================================================
