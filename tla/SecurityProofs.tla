--------------------------- MODULE SecurityProofs ---------------------------
(***************************************************************************)
(* What TLAPS proves of TransmissionSecurity, for any size of cache,       *)
(* header and record and any number of records.  The invariant is TypeOK   *)
(* and the run's three, strengthened by where the engine thread can be     *)
(* with what mbedtls has done (Behind), the order of the peer's records    *)
(* (Ordered), and when a whole record may wait (Waits).  Beside it stands  *)
(* what holds of a connection whose handler has not heard OnConnect        *)
(* (Unheard), which the contract rests on.                                 *)
(***************************************************************************)
EXTENDS TransmissionSecurity, FiniteSetTheorems, FunctionTheorems, TLAPS

(* mbedtls is entered with a licence only, and what lies behind the        *)
(* handshake is reached when it is over.                                   *)
Behind ==
  /\ pc \in {"handshake", "encrypt", "decrypt", "show"} => init
  /\ pc \in {"encrypt", "decrypt", "show"} => handshake = "over"
  /\ pc \in {"checked", "reading"} => method = "OnRead"

(* Data comes behind the peer's end of the handshake.                      *)
HandshakeFirst(h, s, n) == h = "over" \/ \E j \in 1 .. n : s[j] = "finished"
Ordered ==
  /\ peer = "finished" => HandshakeFirst(handshake, records, Len(records))
  /\ \A i \in DataIn(records) : HandshakeFirst(handshake, records, i - 1)

(* Outside of OnRead's work on them, a whole record waits only when the    *)
(* reads since the last one that finished took the whole cache.            *)
Waits ==
  /\ since % CacheLen = 0
  /\ status = "CONNECTED" /\ Complete =>
       since > 0 \/ (method = "OnRead" /\ pc \in {"handshake", "decrypt"})

(* Before OnConnect, OnWrite and OnRead are entered only for a socket that *)
(* was closed between two tests of status_, once, on the way to the reap,  *)
(* and the handshake does not end in it: a peer that has not heard the     *)
(* hello has sent nothing but an alert.                                    *)
Unheard ==
  /\ pc # "done" => heard # "OnDisconnect"
  /\ pc = "connected" \/ status = "CONNECTING" => heard = "created"
  /\ pc \in {"reap", "done"} => status = "DISCONNECTED"
  /\ handshake = "hello" =>
       peer = "none" /\ \A i \in 1 .. Len(records) : records[i] = "alert"
  /\ heard = "created" =>
       /\ status # "CONNECTED" /\ handshake \in {"hello", "wait_hello"}
       /\ pc \notin {"encrypt", "decrypt", "show", "done"}
       /\ pc \in {"entered", "handshake", "reading"} => status = "DISCONNECTED"
       /\ handshake = "wait_hello" \/ tlsRead > 0 \/ inRecord > 0 =>
            /\ init /\ status = "DISCONNECTED"
            /\ pc \in {"handshake", "reading", "read", "scan", "reap"}
       /\ pc = "reading" => handshake = "hello"
       /\ pc = "handshake" /\ Complete => records # <<>> /\ Head(records) = "alert"

SInv == TypeOK /\ StreamKept /\ OnlyBehindHandshake /\ Behind /\ Ordered /\ Waits

-----------------------------------------------------------------------------
(* The bounds, as the provers want them.                                   *)
LEMMA Sizes ==
  /\ CacheLen \in Nat /\ CacheLen > 0 /\ HeaderLen \in Nat /\ HeaderLen > 0
  /\ RecordLen \in Nat /\ HeaderLen < RecordLen /\ MaxIn \in Nat /\ MaxOut \in Nat
  BY SecurityAssumption

(* One record more is RecordLen bytes more, and a cache more is no rest.   *)
LEMMA OneMore ==
  ASSUME NEW n \in Nat, NEW m \in Nat, m > 0
  PROVE  /\ (n + 1) * m = n * m + m
         /\ n % m = 0 => (n + m) % m = 0
<1>1. (n + 1) * m = n * m + m
  OBVIOUS
<1>2. ASSUME n % m = 0 PROVE (n + m) % m = 0
  <2>1. n = m * (n \div m) + (n % m)
    BY SMT
  <2>2. n + m = m * ((n + m) \div m) + ((n + m) % m) /\ (n + m) % m \in 0 .. m - 1
    BY SMT
  <2> QED BY <1>2, <2>1, <2>2, SMTT(30)
<1> QED BY <1>1, <1>2

(* The data in a sequence of records can be counted,                       *)
LEMMA DataFinite ==
  ASSUME NEW S, NEW s \in Seq(S)
  PROVE  IsFiniteSet(DataIn(s)) /\ Cardinality(DataIn(s)) \in Nat
<1>1. IsFiniteSet(1 .. Len(s))
  BY FS_Interval
<1>2. DataIn(s) \subseteq 1 .. Len(s)
  BY DEF DataIn
<1> QED BY <1>1, <1>2, FS_Subset, FS_CardinalityType

(* what is appended counts if it is data,                                  *)
LEMMA DataAppended ==
  ASSUME NEW S, NEW s \in Seq(S), NEW r \in S
  PROVE  Cardinality(DataIn(Append(s, r))) =
           Cardinality(DataIn(s)) + (IF r = "data" THEN 1 ELSE 0)
<1>1. IsFiniteSet(DataIn(s)) /\ Cardinality(DataIn(s)) \in Nat
  BY DataFinite
<1>2. Len(s) + 1 \notin DataIn(s)
  BY DEF DataIn
<1>3. CASE r = "data"
  <2>1. DataIn(Append(s, r)) = DataIn(s) \cup {Len(s) + 1}
    BY <1>3 DEF DataIn
  <2>2. Cardinality(DataIn(s) \cup {Len(s) + 1}) = Cardinality(DataIn(s)) + 1
    BY <1>1, <1>2, FS_AddElement
  <2> QED BY <1>3, <2>1, <2>2
<1>4. CASE r # "data"
  <2>1. DataIn(Append(s, r)) = DataIn(s)
    BY <1>4 DEF DataIn
  <2> QED BY <1>1, <1>4, <2>1
<1> QED BY <1>3, <1>4

(* and so does the head that is taken: the rest moves by one.              *)
LEMMA DataTaken ==
  ASSUME NEW S, NEW s \in Seq(S), Len(s) > 0
  PROVE  Cardinality(DataIn(Tail(s))) =
           Cardinality(DataIn(s)) - (IF Head(s) = "data" THEN 1 ELSE 0)
<1> DEFINE T == DataIn(Tail(s))
           next == [i \in T |-> i + 1]
<1>1. IsFiniteSet(DataIn(s)) /\ Cardinality(DataIn(s)) \in Nat /\ IsFiniteSet(T)
  <2>1. Tail(s) \in Seq(S)
    OBVIOUS
  <2> QED BY <2>1, DataFinite
<1>2. next \in Bijection(T, DataIn(s) \ {1})
  <2>1. \A i \in T : i + 1 \in DataIn(s) \ {1}
    BY DEF DataIn
  <2>2. \A j \in DataIn(s) \ {1} : j - 1 \in T /\ next[j - 1] = j
    BY DEF DataIn
  <2>3. \A i, j \in T : next[i] = next[j] => i = j
    BY DEF DataIn
  <2>4. next \in [T -> DataIn(s) \ {1}]
    BY <2>1
  <2>5. \A j \in DataIn(s) \ {1} : \E i \in T : next[i] = j
    BY <2>2
  <2> QED BY <2>3, <2>4, <2>5, Fun_IsBij
<1>3. Cardinality(T) = Cardinality(DataIn(s) \ {1})
  BY <1>1, <1>2, FS_Bijection DEF ExistsBijection
<1>4. 1 \in DataIn(s) <=> Head(s) = "data"
  BY DEF DataIn
<1>5. Cardinality(DataIn(s) \ {1}) =
        IF 1 \in DataIn(s) THEN Cardinality(DataIn(s)) - 1 ELSE Cardinality(DataIn(s))
  BY <1>1, FS_RemoveElement
<1> HIDE DEF T
<1>6. Cardinality(T) = Cardinality(DataIn(s)) - (IF Head(s) = "data" THEN 1 ELSE 0)
  BY <1>1, <1>3, <1>4, <1>5
<1> QED BY <1>6 DEF T

-----------------------------------------------------------------------------
(* The peer's records, by the types the proofs need.                       *)
Kinds == {"hello", "finished", "data", "alert"}

(* A record more: its bytes are under way, data is counted, and the order  *)
(* is kept if data comes behind the handshake.                             *)
LEMMA Appended ==
  ASSUME NEW r \in Kinds, TypeOK, StreamKept, Ordered,
         records' = Append(records, r), transit' = transit + RecordLen,
         UNCHANGED <<init, incoming, tlsRead, inRecord, handshake, sourceRead, shown>>,
         sent' = sent + (IF r = "data" THEN 1 ELSE 0),
         peer' = "finished" => peer = "finished" \/ r = "finished",
         r = "data" => peer = "finished"
  PROVE  records' \in Seq(Kinds) /\ transit' \in Nat /\ StreamKept' /\ Ordered'
<1> USE Sizes DEF TypeOK, Kinds
<1>1. records' \in Seq(Kinds) /\ transit' \in Nat
  OBVIOUS
<1>2. StreamKept'
  <2>1. Cardinality(DataIn(records)) \in Nat
    BY DataFinite
  <2>2. Cardinality(DataIn(records')) =
          Cardinality(DataIn(records)) + (IF r = "data" THEN 1 ELSE 0)
    BY DataAppended
  <2>3. Len(records') = Len(records) + 1
    OBVIOUS
  <2>4. Len(records') * RecordLen = Len(records) * RecordLen + RecordLen
    BY <2>3, OneMore
  <2>5. Len(records) * RecordLen \in Nat
    OBVIOUS
  <2>6. init' => transit' + incoming' + (tlsRead' + inRecord') = Len(records') * RecordLen
    <3> HIDE <2>3
    <3> QED BY <2>4, <2>5 DEF StreamKept
  <2>7. sent' = Cardinality(DataIn(records')) + sourceRead' + shown'
    BY <2>1, <2>2 DEF StreamKept
  <2> QED BY <2>6, <2>7 DEF StreamKept
<1>3. Ordered'
  <2>1. ASSUME NEW n \in 0 .. Len(records), HandshakeFirst(handshake, records, n)
        PROVE  HandshakeFirst(handshake', records', n)
    BY <2>1 DEF HandshakeFirst
  <2>2. peer' = "finished" => HandshakeFirst(handshake', records', Len(records'))
    <3>1. CASE r = "finished"
      BY <3>1 DEF HandshakeFirst
    <3>2. CASE peer = "finished"
      <4>1. HandshakeFirst(handshake', records', Len(records))
        BY <3>2, <2>1 DEF Ordered
      <4> QED BY <4>1 DEF HandshakeFirst
    <3> QED BY <3>1, <3>2
  <2>3. ASSUME NEW i \in DataIn(records'), i \in DataIn(records)
        PROVE  HandshakeFirst(handshake', records', i - 1)
    BY <2>1, <2>3 DEF Ordered, DataIn
  <2>4. ASSUME NEW i \in DataIn(records'), i \notin DataIn(records)
        PROVE  HandshakeFirst(handshake', records', i - 1)
    <3>1. i = Len(records) + 1 /\ r = "data"
      BY <2>4 DEF DataIn
    <3>2. HandshakeFirst(handshake', records', Len(records))
      BY <3>1, <2>1 DEF Ordered
    <3> QED BY <3>1, <3>2
  <2> QED BY <2>2, <2>3, <2>4 DEF Ordered
<1> QED BY <1>1, <1>2, <1>3

(* A record less: there is one when mbedtls has its bytes, and it is data  *)
(* only behind the handshake.                                              *)
LEMMA Fetched ==
  ASSUME TypeOK, StreamKept, Ordered, init, FetchRecord,
         UNCHANGED <<init, transit, incoming, shown, sent>>,
         peer' = "finished" => peer = "finished",
         handshake = "over" => handshake' = "over",
         Head(records) = "finished" => handshake' = "over",
         Head(records) = "data" /\ handshake = "over" => sourceRead' = sourceRead + 1,
         Head(records) # "data" => sourceRead' = sourceRead
  PROVE  /\ records' \in Seq(Kinds) /\ tlsRead' \in Nat /\ inRecord' = 0
         /\ Head(records) \in Kinds /\ sourceRead' \in 0 .. MaxIn
         /\ Head(records) = "data" => handshake = "over"
         /\ StreamKept' /\ Ordered'
<1> USE Sizes DEF TypeOK, Kinds, FetchRecord, Complete, Rest
<1>1. tlsRead' \in Nat /\ inRecord' = 0 /\ tlsRead' = tlsRead + inRecord - RecordLen
  OBVIOUS
<1>2. Len(records) > 0
  <2>1. transit + incoming + (tlsRead + inRecord) = Len(records) * RecordLen
    BY DEF StreamKept
  <2>2. CASE Len(records) = 0
    BY <2>1, <2>2
  <2> QED BY <2>2
<1>3. records' \in Seq(Kinds) /\ Head(records) \in Kinds
  BY <1>2
<1>4. Len(records') = Len(records) - 1
  BY <1>2
<1>5. Head(records) = "data" => handshake = "over"
  BY <1>2 DEF Ordered, DataIn, HandshakeFirst
<1>6. Cardinality(DataIn(records)) \in Nat /\ Cardinality(DataIn(records')) \in Nat
  BY <1>3, DataFinite
<1>7. Cardinality(DataIn(records')) =
        Cardinality(DataIn(records)) - (IF Head(records) = "data" THEN 1 ELSE 0)
  BY <1>2, DataTaken
<1>8. sourceRead' = sourceRead + (IF Head(records) = "data" THEN 1 ELSE 0)
  BY <1>5
<1>9. StreamKept'
  <2>1. Len(records) * RecordLen = Len(records') * RecordLen + RecordLen
    <3>1. Len(records') \in Nat /\ Len(records) = Len(records') + 1
      BY <1>2, <1>4
    <3> QED BY <3>1, OneMore
  <2>2. Len(records') * RecordLen \in Nat
    BY <1>3
  <2>3. transit' + incoming' + (tlsRead' + inRecord') = Len(records') * RecordLen
    BY <1>1, <2>1, <2>2 DEF StreamKept
  <2>4. sent' = Cardinality(DataIn(records')) + sourceRead' + shown'
    BY <1>6, <1>7, <1>8 DEF StreamKept
  <2> QED BY <2>3, <2>4 DEF StreamKept
<1>10. sourceRead' \in 0 .. MaxIn
  BY <1>6, <1>8, <1>9 DEF StreamKept
<1>11. Ordered'
  <2>1. \A j \in 1 .. Len(records') : records'[j] = records[j + 1]
    BY <1>2
  <2>2. ASSUME NEW n \in 1 .. Len(records), HandshakeFirst(handshake, records, n)
        PROVE  HandshakeFirst(handshake', records', n - 1)
    <3>1. CASE handshake = "over" \/ records[1] = "finished"
      BY <3>1, <1>2 DEF HandshakeFirst
    <3>2. CASE handshake # "over" /\ records[1] # "finished"
      <4>1. PICK j \in 1 .. n : records[j] = "finished"
        BY <2>2, <3>2 DEF HandshakeFirst
      <4>2. j - 1 \in 1 .. n - 1 /\ records'[j - 1] = "finished"
        BY <4>1, <3>2, <2>1, <1>4
      <4> QED BY <4>2 DEF HandshakeFirst
    <3> QED BY <3>1, <3>2
  <2>3. peer' = "finished" => HandshakeFirst(handshake', records', Len(records'))
    <3>1. Len(records) \in 1 .. Len(records)
      BY <1>2
    <3> QED BY <3>1, <2>2, <1>4 DEF Ordered
  <2>4. ASSUME NEW i \in DataIn(records')
        PROVE  HandshakeFirst(handshake', records', i - 1)
    <3>1. i \in 1 .. Len(records') /\ i + 1 \in DataIn(records)
      BY <2>1, <1>4 DEF DataIn
    <3>2. HandshakeFirst(handshake, records, i)
      BY <3>1 DEF Ordered
    <3> QED BY <3>1, <3>2, <2>2, <1>4
  <2> QED BY <2>3, <2>4 DEF Ordered
<1> QED BY <1>1, <1>3, <1>5, <1>9, <1>10, <1>11

(* A header or nothing: the bytes stay, and so does what they make whole.  *)
LEMMA HeaderFetched ==
  ASSUME TypeOK, FetchHeader
  PROVE  /\ tlsRead' \in Nat /\ inRecord' \in {0, HeaderLen}
         /\ tlsRead' + inRecord' = tlsRead + inRecord /\ ~Complete' /\ records' = records
  BY Sizes DEF TypeOK, FetchHeader, Complete

-----------------------------------------------------------------------------
(* A connection in the making has no bytes and no records.                 *)
LEMMA InitSInv == Init => SInv
<1> SUFFICES ASSUME Init PROVE SInv
  OBVIOUS
<1> USE Sizes DEF Init
<1>1. TypeOK /\ OnlyBehindHandshake /\ Behind
  <2>1. init \in BOOLEAN
    OBVIOUS
  <2>2. records \in Seq({"hello", "finished", "data", "alert"})
    OBVIOUS
  <2>3. 0 \in 0 .. MaxIn /\ 0 \in 0 .. MaxOut
    OBVIOUS
  <2>4. TypeOK
    BY <2>1, <2>2, <2>3 DEF TypeOK
  <2> QED BY <2>4 DEF OnlyBehindHandshake, Behind
<1>2. DataIn(records) = {}
  BY DEF DataIn
<1>3. StreamKept /\ Ordered
  BY <1>2, FS_EmptySet DEF StreamKept, Ordered
<1>4. Waits
  BY DEF Waits, Complete
<1> QED BY <1>1, <1>3, <1>4 DEF SInv

(* The peer's answers, data and end: a record more, or the end alone.      *)
LEMMA PeerRepliesStep == ASSUME SInv, PeerReplies PROVE SInv'
<1> USE DEF SInv, PeerReplies, PeerWrites, dataVars, socketVars
<1>1. \E r \in {"hello", "finished"} :
        /\ records' = Append(records, r)
        /\ peer' = "finished" => r = "finished"
        /\ peer' \in {"helloed", "finished"}
  OBVIOUS
<1>2. records' \in Seq(Kinds) /\ transit' \in Nat /\ StreamKept' /\ Ordered'
  BY <1>1, Appended DEF Kinds, TypeOK
<1>3. TypeOK' /\ OnlyBehindHandshake' /\ Behind'
  BY <1>1, <1>2 DEF TypeOK, Kinds, OnlyBehindHandshake, Behind
<1>4. Waits'
  BY DEF Waits, Complete
<1> QED BY <1>2, <1>3, <1>4

LEMMA PeerSendsStep == ASSUME SInv, PeerSends PROVE SInv'
<1> USE DEF SInv, PeerSends, PeerWrites, socketVars, peerVars
<1>1. records' \in Seq(Kinds) /\ transit' \in Nat /\ StreamKept' /\ Ordered'
  BY Appended DEF Kinds
<1>2. TypeOK' /\ OnlyBehindHandshake' /\ Behind'
  BY <1>1, Sizes DEF TypeOK, Kinds, OnlyBehindHandshake, Behind
<1>3. Waits'
  BY DEF Waits, Complete
<1> QED BY <1>1, <1>2, <1>3

LEMMA PeerEndsStep == ASSUME SInv, PeerEnds PROVE SInv'
<1> USE DEF SInv, PeerEnds, dataVars, socketVars, peerVars
<1>1. records' \in Seq(Kinds) /\ transit' \in Nat /\ StreamKept' /\ Ordered'
  <2>1. CASE records' = Append(records, "alert") /\ transit' = transit + RecordLen
    BY <2>1, Appended DEF Kinds, TypeOK
  <2>2. CASE UNCHANGED <<records, transit>>
    BY <2>2 DEF TypeOK, Kinds, StreamKept, Ordered
  <2> QED BY <2>1, <2>2
<1>2. TypeOK' /\ OnlyBehindHandshake' /\ Behind'
  BY <1>1 DEF TypeOK, Kinds, OnlyBehindHandshake, Behind
<1>3. Waits'
  BY DEF Waits, Complete
<1> QED BY <1>1, <1>2, <1>3

(* A byte arrives.                                                         *)
LEMMA ArriveStep == ASSUME SInv, Arrive PROVE SInv'
<1> USE DEF SInv, Arrive, dataVars, tlsVars, readVars, socketVars, peerVars
<1>1. TypeOK' /\ OnlyBehindHandshake' /\ Behind'
  BY DEF TypeOK, OnlyBehindHandshake, Behind
<1>2. StreamKept'
  BY DEF TypeOK, StreamKept
<1>3. Ordered' /\ Waits'
  BY DEF Ordered, Waits, Complete
<1> QED BY <1>1, <1>2, <1>3

(* Send adds to source_send_.                                              *)
LEMMA SendStep == ASSUME SInv, Send PROVE SInv'
<1> USE DEF SInv, Send, outside, netVars, peerVars, tlsVars, readVars, socketVars
<1>1. TypeOK' /\ OnlyBehindHandshake' /\ Behind'
  BY Sizes DEF TypeOK, OnlyBehindHandshake, Behind
<1>2. StreamKept' /\ Ordered' /\ Waits'
  BY DEF StreamKept, Ordered, Waits, Complete
<1> QED BY <1>1, <1>2

(* Close, and the handler's OnConnect, before which there is nothing read, *)
(* and OnDisconnect.                                                       *)
LEMMA NewsStep == ASSUME SInv, Unheard, Close \/ Connected \/ Reap PROVE SInv'
<1> USE DEF SInv, Close, Connected, Reap, outside, netVars, peerVars, tlsVars, readVars, dataVars
<1>1. TypeOK'
  <2>1. status' \in {"CONNECTING", "CONNECTED", "DISCONNECTED"}
    BY DEF TypeOK
  <2>2. heard' \in {"created", "OnDisconnect"} \cup Talking
    BY DEF TypeOK, Talking
  <2> QED BY <2>1, <2>2 DEF TypeOK
<1>2. OnlyBehindHandshake' /\ Behind'
  BY DEF OnlyBehindHandshake, Behind
<1>3. StreamKept' /\ Ordered'
  BY DEF StreamKept, Ordered
<1>4. Waits'
  BY Sizes DEF Waits, Unheard, Complete, TypeOK
<1> QED BY <1>1, <1>2, <1>3, <1>4

(* The steps of a pass that read nothing: tests of status_ and init_.      *)
LEMMA PollStep == ASSUME SInv, ScanGone \/ Poll("write") \/ Poll("read") PROVE SInv'
<1> USE DEF SInv, ScanGone, Poll, outside, netVars, peerVars, tlsVars, readVars, dataVars
<1>1. TypeOK'
  BY DEF TypeOK
<1>2. OnlyBehindHandshake' /\ Behind'
  BY DEF OnlyBehindHandshake, Behind
<1>3. StreamKept' /\ Ordered' /\ Waits'
  BY DEF StreamKept, Ordered, Waits, Complete
<1> QED BY <1>1, <1>2, <1>3

Tests == RealWrite \/ StillConnecting \/ OnWrite \/ RealRead \/ NotConnecting \/ ReadNothing

LEMMA RealStep == ASSUME SInv, Tests PROVE SInv'
<1> USE DEF SInv, Tests, RealWrite, StillConnecting, OnWrite, RealRead, NotConnecting,
        ReadNothing, outside, netVars, peerVars, tlsVars, readVars, dataVars, OnWriteBegins,
        Fail, After
<1>1. TypeOK'
  <2>1. /\ status' \in {status, "DISCONNECTED"} /\ method' \in {method, "OnRead", "OnWrite"}
        /\ pc' \in {"writing", "connected", "entered", "handshake", "read", "checked",
                   "reading", "scan"}
    OBVIOUS
  <2>2. UNCHANGED <<init, outside, dataVars, tlsVars, since>>
    OBVIOUS
  <2> HIDE DEF Tests
  <2> QED BY <2>1, <2>2 DEF TypeOK
<1>2. OnlyBehindHandshake' /\ Behind'
  BY DEF OnlyBehindHandshake, Behind
<1>3. StreamKept' /\ Ordered'
  BY DEF StreamKept, Ordered
<1>4. Waits'
  BY DEF Waits, Complete
<1> QED BY <1>1, <1>2, <1>3, <1>4

(* A read(): the bytes move on to tls_read_, unless there is no licence    *)
(* and the connection ends.                                                *)
LEMMA ReadSomeStep == ASSUME SInv, ReadSome PROVE SInv'
<1> USE Sizes DEF SInv, ReadSome, dataVars, peerVars
<1>1. Taken \in Nat /\ Taken > 0 /\ Taken <= incoming /\ Taken <= CacheLen
  BY DEF Taken, TypeOK
<1>2. TypeOK'
  BY <1>1 DEF TypeOK, Fail, After
<1>3. OnlyBehindHandshake' /\ Behind'
  BY DEF OnlyBehindHandshake, Behind, Fail, After
<1>4. StreamKept'
  BY <1>1 DEF TypeOK, StreamKept
<1>5. Ordered'
  BY DEF Ordered
<1>6. Waits'
  <2>1. since' % CacheLen = 0
    <3>1. since \in Nat /\ since % CacheLen = 0 /\ 0 % CacheLen = 0
      BY DEF TypeOK, Waits
    <3>2. (since + CacheLen) % CacheLen = 0
      BY <3>1, OneMore
    <3>3. since' \in {0, since, since + CacheLen}
      BY <1>1
    <3> QED BY <3>1, <3>2, <3>3
  <2>2. CASE init /\ Taken < CacheLen
    BY <2>1, <2>2 DEF Waits, Behind
  <2>3. CASE init /\ Taken = CacheLen
    BY <1>1, <2>1, <2>3 DEF TypeOK, Waits
  <2>4. CASE ~init
    BY <2>1, <2>4 DEF Waits, Fail
  <2> QED BY <1>1, <2>2, <2>3, <2>4
<1> QED BY <1>2, <1>3, <1>4, <1>5, <1>6

(* A flight goes out, or the connection ends.                              *)
LEMMA HelloStep == ASSUME SInv, Hello PROVE SInv'
<1> USE DEF SInv, Hello, dataVars, netVars, peerVars, readVars, Flight, NetSend, Fail, After
<1>1. TypeOK'
  <2>1. /\ peer' \in {peer, "hello"} /\ torn' \in BOOLEAN
        /\ handshake' \in {handshake, "wait_hello"}
        /\ pc' \in {pc, "read", "scan"} /\ status' \in {status, "DISCONNECTED"}
    BY DEF TypeOK
  <2>2. UNCHANGED <<init, method, dataVars, netVars, readVars, since>>
    OBVIOUS
  <2> HIDE DEF Hello
  <2> QED BY <2>1, <2>2 DEF TypeOK
<1>2. OnlyBehindHandshake' /\ Behind'
  BY DEF OnlyBehindHandshake, Behind
<1>3. StreamKept' /\ Ordered'
  BY DEF StreamKept, Ordered, HandshakeFirst
<1>4. Waits'
  BY DEF Waits, Complete
<1> QED BY <1>1, <1>2, <1>3, <1>4

(* Short of a record, the method returns with a header more at most.       *)
LEMMA AwaitStep == ASSUME SInv, Await PROVE SInv'
<1> USE DEF SInv, Await, outside, netVars, peerVars, dataVars
<1>1. /\ tlsRead' \in Nat /\ inRecord' \in {0, HeaderLen}
      /\ tlsRead' + inRecord' = tlsRead + inRecord /\ ~Complete' /\ records' = records
  BY HeaderFetched
<1>2. TypeOK'
  BY <1>1 DEF TypeOK, Waiting, After
<1>3. OnlyBehindHandshake' /\ Behind'
  BY DEF OnlyBehindHandshake, Behind, Waiting, After
<1>4. StreamKept'
  <2>1. /\ transit \in Nat /\ incoming \in Nat /\ tlsRead \in Nat /\ inRecord \in Nat
        /\ tlsRead' \in Nat /\ inRecord' \in Nat /\ transit' = transit /\ incoming' = incoming
    BY <1>1, Sizes DEF TypeOK
  <2>2. tlsRead' + inRecord' = tlsRead + inRecord
    BY <1>1
  <2>3. transit' + incoming' + (tlsRead' + inRecord') =
          transit + incoming + (tlsRead + inRecord)
    BY <2>1, <2>2
  <2> QED BY <1>1, <2>3 DEF StreamKept
<1>5. Ordered' /\ Waits'
  BY <1>1 DEF Ordered, Waits
<1> QED BY <1>2, <1>3, <1>4, <1>5

(* The peer's record: a flight more, the handshake's end, or the           *)
(* connection's.                                                           *)
LEMMA AnsweredStep == ASSUME SInv, Answered PROVE SInv'
<1> USE DEF SInv, Answered, netVars, peerVars, dataVars
<1>1. init /\ handshake # "over" /\ init' = init
  BY DEF Behind
<1>2. /\ peer' = "finished" => peer = "finished"
      /\ Head(records) = "finished" => handshake' = "over"
  BY DEF Flight, NetSend
<1>3. /\ records' \in Seq(Kinds) /\ tlsRead' \in Nat /\ inRecord' = 0
      /\ StreamKept' /\ Ordered'
  BY <1>1, <1>2, Fetched
<1>4. TypeOK'
  <2>1. /\ peer' \in {peer, "finish"} /\ torn' \in BOOLEAN
        /\ handshake' \in {handshake, "wait_finished", "over"}
        /\ pc' \in {pc, "read", "scan"} /\ status' \in {status, "DISCONNECTED"}
    BY DEF TypeOK, Flight, NetSend, Fail, After
  <2>2. UNCHANGED <<init, method, dataVars, netVars, since>>
    OBVIOUS
  <2> HIDE DEF Answered
  <2> QED BY <1>3, <2>1, <2>2 DEF TypeOK, Kinds
<1>5. OnlyBehindHandshake' /\ Behind'
  BY <1>1 DEF OnlyBehindHandshake, Behind, Flight, Fail, After
<1>6. Waits'
  <2>1. Complete' => Complete
    BY DEF FetchRecord
  <2>2. (status' = status /\ pc' = pc /\ method' = method) \/ status' = "DISCONNECTED"
    BY DEF Fail
  <2> QED BY <2>1, <2>2 DEF Waits
<1> QED BY <1>3, <1>4, <1>5, <1>6

LEMMA HandshakeOverStep == ASSUME SInv, HandshakeOver PROVE SInv'
<1> USE DEF SInv, HandshakeOver, outside, netVars, peerVars, dataVars, tlsVars, readVars
<1>1. TypeOK' /\ OnlyBehindHandshake' /\ Behind'
  BY DEF TypeOK, OnlyBehindHandshake, Behind
<1>2. StreamKept' /\ Ordered' /\ Waits'
  BY DEF StreamKept, Ordered, Waits, Complete
<1> QED BY <1>1, <1>2

(* Data of a record, or an alert.                                          *)
LEMMA DecryptStep == ASSUME SInv, Decrypt PROVE SInv'
<1> USE DEF SInv, Decrypt, outside, netVars, peerVars
<1>1. init /\ handshake = "over"
  BY DEF Behind
<1>2. /\ records' \in Seq(Kinds) /\ tlsRead' \in Nat /\ inRecord' = 0
      /\ sourceRead' \in 0 .. MaxIn /\ StreamKept' /\ Ordered'
  BY <1>1, Fetched
<1>3. TypeOK'
  BY <1>2 DEF TypeOK, Kinds, NextRead, Fail, After
<1>4. OnlyBehindHandshake' /\ Behind'
  BY <1>1 DEF OnlyBehindHandshake, Behind, NextRead, Fail, After
<1>5. Waits'
  <2>1. Complete' => Complete
    BY DEF FetchRecord
  <2>2. (status' = status /\ pc' = pc /\ method' = method) \/ status' = "DISCONNECTED"
    BY DEF Fail, NextRead
  <2> QED BY <2>1, <2>2 DEF Waits
<1> QED BY <1>2, <1>3, <1>4, <1>5

(* No record more: what is left is not whole.                              *)
LEMMA NoMoreRecordsStep == ASSUME SInv, NoMoreRecords PROVE SInv'
<1> USE DEF SInv, NoMoreRecords, outside, netVars, peerVars, dataVars
<1>1. /\ tlsRead' \in Nat /\ inRecord' \in {0, HeaderLen}
      /\ tlsRead' + inRecord' = tlsRead + inRecord /\ ~Complete' /\ records' = records
  BY HeaderFetched
<1>2. TypeOK' /\ OnlyBehindHandshake' /\ Behind'
  BY <1>1 DEF TypeOK, OnlyBehindHandshake, Behind
<1>3. StreamKept'
  <2>1. /\ transit \in Nat /\ incoming \in Nat /\ tlsRead \in Nat /\ inRecord \in Nat
        /\ tlsRead' \in Nat /\ inRecord' \in Nat /\ transit' = transit /\ incoming' = incoming
    BY <1>1, Sizes DEF TypeOK
  <2>2. tlsRead' + inRecord' = tlsRead + inRecord
    BY <1>1
  <2>3. transit' + incoming' + (tlsRead' + inRecord') =
          transit + incoming + (tlsRead + inRecord)
    BY <2>1, <2>2
  <2> QED BY <1>1, <2>3 DEF StreamKept
<1>4. Ordered' /\ Waits'
  BY <1>1 DEF Ordered, Waits
<1> QED BY <1>2, <1>3, <1>4

(* OnData takes what it likes of the data, or refuses.                     *)
LEMMA ShowStep == ASSUME SInv, Show PROVE SInv'
<1> USE Sizes DEF SInv, Show, outside, netVars, peerVars, tlsVars, readVars
<1>1. handshake = "over"
  BY DEF Behind
<1>2. \E n \in 0 .. sourceRead : sourceRead' = sourceRead - n /\ shown' = shown + n
  BY DEF TypeOK
<1>3. sent = Cardinality(DataIn(records)) + sourceRead + shown /\ sent \in 0 .. MaxIn
      /\ Cardinality(DataIn(records)) \in Nat /\ shown \in Nat /\ sourceRead \in Nat
  BY DataFinite DEF StreamKept, TypeOK
<1>4. /\ sourceRead' \in 0 .. MaxIn /\ shown' \in 0 .. MaxIn
      /\ sourceRead' + shown' = sourceRead + shown
  BY <1>2, <1>3
<1>5. TypeOK'
  <2>1. /\ heard' = "OnData" /\ pc' \in {"read", "scan"}
        /\ status' \in {status, "DISCONNECTED"}
    BY DEF Fail, After
  <2>2. UNCHANGED <<init, method, outside, tlsVars, sourceSend, sent, since>>
    OBVIOUS
  <2> HIDE DEF Show
  <2> QED BY <1>4, <2>1, <2>2 DEF TypeOK, Talking
<1>6. OnlyBehindHandshake' /\ Behind'
  BY <1>1 DEF OnlyBehindHandshake, Behind, Fail, After
<1>7. StreamKept'
  BY <1>3, <1>4 DEF StreamKept, TypeOK
<1>8. Ordered' /\ Waits'
  BY DEF Ordered, Waits, Complete, Fail
<1> QED BY <1>5, <1>6, <1>7, <1>8

(* Data goes out as a record, or the connection ends.                      *)
LEMMA EncryptStep == ASSUME SInv, Encrypt PROVE SInv'
<1> USE Sizes DEF SInv, Encrypt, tlsVars, netVars, peerVars, readVars
<1>1. handshake = "over"
  BY DEF Behind
<1>2. sourceSend' \in 0 .. MaxOut
  BY DEF TypeOK
<1>3. peer' = peer /\ torn' \in BOOLEAN
  BY DEF NetSend, TypeOK
<1>4. TypeOK'
  BY <1>2, <1>3 DEF TypeOK, Talking, Fail, After
<1>5. OnlyBehindHandshake' /\ Behind'
  BY <1>1 DEF OnlyBehindHandshake, Behind, Fail, After
<1>6. StreamKept' /\ Ordered'
  BY <1>3 DEF StreamKept, Ordered
<1>7. Waits'
  BY DEF Waits, Complete, Fail
<1> QED BY <1>4, <1>5, <1>6, <1>7

-----------------------------------------------------------------------------
(* What holds before OnConnect is kept by whoever steps.                   *)
LEMMA InitUnheard == Init => Unheard
  BY DEF Init, Unheard

(* The peer and the application: a peer that has not heard the hello sends *)
(* nothing but an alert.                                                   *)
LEMMA OutsideUnheard ==
  ASSUME SInv, Unheard, PeerReplies \/ PeerSends \/ PeerEnds \/ Arrive \/ Send \/ Close
  PROVE  Unheard'
<1> USE DEF SInv
<1>1. records \in Seq(Kinds)
  BY DEF TypeOK, Kinds
<1>2. CASE PeerReplies \/ PeerSends \/ PeerEnds
  <2>1. PICK r \in Kinds : /\ records' \in {records, Append(records, r)}
                           /\ peer = "none" => r = "alert"
    BY <1>1, <1>2 DEF PeerReplies, PeerSends, PeerEnds, PeerWrites, Kinds
  <2>2. /\ records # <<>> /\ Head(records) = "alert" =>
             records' # <<>> /\ Head(records') = "alert"
        /\ peer = "none" /\ (\A i \in 1 .. Len(records) : records[i] = "alert") =>
             \A i \in 1 .. Len(records') : records'[i] = "alert"
    BY <1>1, <2>1
  <2>3. /\ UNCHANGED <<init, status, pc, handshake, tlsRead, inRecord, heard>>
        /\ peer = "none" => peer' = "none"
    BY <1>2 DEF PeerReplies, PeerSends, PeerEnds, PeerWrites, socketVars, dataVars, peerVars
  <2>4. Complete' = Complete
    BY <2>3 DEF Complete
  <2> QED BY <2>2, <2>3, <2>4 DEF Unheard
<1>3. CASE Arrive \/ Send
  BY <1>3 DEF Arrive, Send, Unheard, Complete, dataVars, tlsVars, readVars, socketVars, outside,
              netVars, peerVars
<1>4. CASE Close
  BY <1>4 DEF Close, Unheard, Complete, dataVars, tlsVars, readVars, outside, netVars, peerVars
<1> QED BY <1>2, <1>3, <1>4

(* The engine thread outside of mbedtls.                                   *)
LEMMA PassUnheard ==
  ASSUME SInv, Unheard,
         \/ ScanGone \/ Poll("write") \/ Poll("read") \/ Reap \/ Connected \/ Tests
         \/ Show \/ Encrypt
  PROVE  Unheard'
<1> USE DEF SInv, outside, netVars, peerVars, tlsVars, readVars, dataVars
<1>1. CASE ScanGone \/ Poll("write") \/ Poll("read")
  <2>1. /\ UNCHANGED <<init, status, handshake, tlsRead, inRecord, heard, records, peer>>
        /\ \/ pc' \in {"write", "read"} /\ status # "DISCONNECTED"
           \/ pc' = "reap" /\ status = "DISCONNECTED"
        /\ pc = "scan"
    BY <1>1 DEF ScanGone, Poll
  <2> QED BY <2>1 DEF Unheard
<1>2. CASE Reap
  <2>1. /\ UNCHANGED <<status, handshake, records, peer>>
        /\ pc = "reap" /\ pc' = "done" /\ heard' = "OnDisconnect"
    BY <1>2 DEF Reap
  <2> QED BY <2>1 DEF Unheard
<1>3. CASE Connected
  <2>1. /\ UNCHANGED <<handshake, peer, records>> /\ status' = "CONNECTED"
        /\ pc' = "entered" /\ heard' = "OnConnect"
    BY <1>3 DEF Connected
  <2> QED BY <2>1 DEF Unheard
<1>4. CASE RealWrite \/ StillConnecting
  <2>1. /\ UNCHANGED <<init, status, handshake, tlsRead, inRecord, heard, records, peer>>
        /\ pc \in {"write", "writing"}
        /\ \/ pc' \in {"read", "writing", "entered"}
           \/ pc' = "connected" /\ status = "CONNECTING"
        /\ pc' = "entered" => pc = "writing" /\ status # "CONNECTING"
    BY <1>4 DEF RealWrite, StillConnecting
  <2>2. status \in {"CONNECTING", "CONNECTED", "DISCONNECTED"}
    BY DEF TypeOK
  <2> QED BY <2>1, <2>2 DEF Unheard
<1>5. CASE OnWrite
  <2>1. /\ UNCHANGED <<init, handshake, tlsRead, inRecord, heard, records, peer>>
        /\ pc = "entered" /\ pc' \in {"handshake", "read", "scan"}
        /\ status' \in {status, "DISCONNECTED"}
    BY <1>5 DEF OnWrite, OnWriteBegins, Fail, After
  <2>2. heard = "created" => tlsRead = 0 /\ inRecord = 0 /\ handshake = "hello"
    BY <2>1, Sizes DEF Unheard, TypeOK
  <2>3. heard = "created" => ~Complete'
    BY <2>1, <2>2, Sizes DEF Complete
  <2> QED BY <2>1, <2>2, <2>3 DEF Unheard
<1>6. CASE RealRead \/ NotConnecting \/ ReadNothing
  BY <1>6 DEF RealRead, NotConnecting, ReadNothing, Unheard, Complete, TypeOK
<1>7. CASE Show
  BY <1>7 DEF Show, Fail, After, Unheard, Behind
<1>8. CASE Encrypt
  <2>1. handshake = "over" /\ heard # "created"
    BY <1>8 DEF Encrypt, Behind, Unheard
  <2>2. /\ heard' \in {heard, "OnWrite"} /\ handshake' = handshake
        /\ pc' \in {"read", "scan"} /\ status' \in {status, "DISCONNECTED"}
    BY <1>8 DEF Encrypt, Fail, After
  <2> QED BY <2>1, <2>2, <1>8 DEF Encrypt, Unheard
<1> QED BY <1>1, <1>2, <1>3, <1>4, <1>5, <1>6, <1>7, <1>8 DEF Tests

(* A read() and mbedtls: a record that is whole before the hello is gone   *)
(* out is an alert, and ends the connection.                               *)
LEMMA TLSUnheard == ASSUME SInv, SInv', Unheard, ReadSome \/ TLSStep PROVE Unheard'
<1> USE DEF SInv
<1>1. CASE ReadSome
  <2>1. UNCHANGED <<handshake, inRecord, heard, records, peer, init>> /\ pc = "reading"
    BY <1>1 DEF ReadSome, dataVars, peerVars
  <2>2. ASSUME heard = "created", Complete' PROVE records' # <<>> /\ Head(records') = "alert"
    <3>1. init
      <4>1. ~init => tlsRead = 0 /\ inRecord = 0
        BY <2>2, Sizes DEF Unheard, TypeOK
      <4>2. ~init => tlsRead' = tlsRead /\ inRecord' = inRecord
        BY <1>1, <2>1 DEF ReadSome
      <4> QED BY <4>1, <4>2, <2>2, Sizes DEF Complete
    <3>2. init' /\ transit' + incoming' + (tlsRead' + inRecord') = Len(records') * RecordLen
      BY <3>1, <2>1, <2>2 DEF StreamKept
    <3>3. Len(records') # 0
      <4>1. tlsRead' \in Nat /\ inRecord' \in Nat /\ transit' \in Nat /\ incoming' \in Nat
        BY Sizes DEF TypeOK
      <4>2. inRecord' + tlsRead' >= RecordLen
        BY <2>2 DEF Complete
      <4> HIDE DEF SInv
      <4>3. transit' + incoming' + (tlsRead' + inRecord') >= RecordLen
        <5>1. \A a, b, c, d \in Nat : d + c >= RecordLen => a + b + (c + d) >= RecordLen
          BY Sizes
        <5> QED BY <4>1, <4>2, <5>1
      <4> QED BY <3>2, <4>3, Sizes
    <3>4. records' \in Seq(Kinds)
      BY DEF TypeOK, Kinds
    <3>5. \A i \in 1 .. Len(records) : records[i] = "alert"
      BY <2>1, <2>2 DEF Unheard
    <3> QED BY <2>1, <3>3, <3>4, <3>5
  <2>3. /\ status' \in {status, "DISCONNECTED"} /\ pc' \in {"reading", "handshake", "scan"}
    BY <1>1 DEF ReadSome, Fail, After, Behind
  <2>4. heard = "created" /\ (tlsRead' > 0 \/ inRecord' > 0) => init'
    <3>1. CASE init
      BY <3>1, <2>1
    <3>2. CASE ~init
      BY <3>2, <1>1, <2>1 DEF ReadSome, Unheard
    <3> QED BY <3>1, <3>2
  <2> HIDE DEF SInv
  <2> QED BY <2>1, <2>2, <2>3, <2>4 DEF Unheard
<1>2. CASE Hello
  <2>1. /\ pc = "handshake" /\ handshake = "hello" /\ handshake' \in {"hello", "wait_hello"}
        /\ UNCHANGED <<heard, tlsRead, inRecord, records, init>>
        /\ \/ handshake' = "wait_hello" /\ pc' = pc /\ status' = status
           \/ /\ handshake' = "hello" /\ peer' = peer
              /\ status' = "DISCONNECTED" /\ pc' \in {"read", "scan"}
        /\ init
    BY <1>2 DEF Hello, Flight, Fail, After, dataVars, readVars, peerVars, Behind
  <2>2. Complete' = Complete
    BY <2>1 DEF Complete
  <2> QED BY <2>1, <2>2 DEF Unheard
<1>3. CASE Await
  BY <1>3 DEF Await, Waiting, After, FetchHeader, Unheard, dataVars, TypeOK
<1>4. CASE Answered
  <2>1. heard = "created" => Head(records) = "alert"
    BY <1>4 DEF Answered, FetchRecord, Unheard
  <2>2. /\ init' /\ heard' = heard /\ handshake # "hello" /\ handshake' # "hello"
        /\ pc \notin {"connected", "reap", "done"} /\ status' \in {status, "DISCONNECTED"}
        /\ pc' \in {pc, "read", "scan"}
    BY <1>4 DEF Answered, Flight, Fail, After, dataVars, Behind
  <2>3. CASE heard # "created"
    BY <2>2, <2>3, <1>4 DEF Unheard, Answered
  <2>4. CASE heard = "created"
    <3>1. status' = "DISCONNECTED" /\ pc' \in {"read", "scan"} /\ handshake' = handshake
      BY <2>1, <2>4, <1>4 DEF Answered, Fail, After
    <3> QED BY <3>1, <2>2, <2>4 DEF Unheard
  <2> QED BY <2>3, <2>4
<1>5. CASE HandshakeOver \/ Decrypt \/ NoMoreRecords
  <2>1. handshake = "over" /\ handshake' = handshake /\ heard' = heard /\ heard # "created"
    BY <1>5 DEF HandshakeOver, Decrypt, NoMoreRecords, Behind, Unheard, dataVars, tlsVars
  <2>2. /\ pc # "done" /\ pc' \notin {"connected", "reap", "done"}
        /\ status' \in {status, "DISCONNECTED"}
    BY <1>5 DEF HandshakeOver, Decrypt, NoMoreRecords, NextRead, Fail, After
  <2> QED BY <2>1, <2>2 DEF Unheard
<1> QED BY <1>1, <1>2, <1>3, <1>4, <1>5 DEF TLSStep

-----------------------------------------------------------------------------
(* The invariant holds always, and so does what it needs before OnConnect. *)
THEOREM Invariance == Spec => [](SInv /\ Unheard)
<1>1. SInv /\ Unheard /\ [Next]_vars => (SInv /\ Unheard)'
  <2> SUFFICES ASSUME SInv, Unheard, [Next]_vars PROVE SInv' /\ Unheard'
    OBVIOUS
  <2>1. CASE Next
    <3>1. CASE PeerReplies \/ PeerSends \/ PeerEnds \/ Arrive \/ Send \/ Close
      BY <3>1, PeerRepliesStep, PeerSendsStep, PeerEndsStep, ArriveStep, SendStep, NewsStep,
         OutsideUnheard
    <3>2. CASE Connected \/ Reap \/ ScanGone \/ Poll("write") \/ Poll("read") \/ Tests
      BY <3>2, NewsStep, PollStep, RealStep, PassUnheard
    <3>3. CASE Show \/ Encrypt
      BY <3>3, ShowStep, EncryptStep, PassUnheard
    <3>4. CASE ReadSome
      BY <3>4, ReadSomeStep, TLSUnheard
    <3>5. CASE TLSStep
      <4>1. SInv'
        BY <3>5, HelloStep, AwaitStep, AnsweredStep, HandshakeOverStep, DecryptStep,
           NoMoreRecordsStep
        DEF TLSStep
      <4> QED BY <3>5, <4>1, TLSUnheard
    <3> QED BY <2>1, <3>1, <3>2, <3>3, <3>4, <3>5 DEF Next, EngineStep, Tests
  <2>2. CASE UNCHANGED vars
    <3> USE <2>2 DEF SInv, vars, socketVars, tlsVars, readVars, outside, netVars, peerVars,
            dataVars
    <3>1. TypeOK' /\ OnlyBehindHandshake' /\ Behind'
      BY DEF TypeOK, OnlyBehindHandshake, Behind
    <3>2. StreamKept' /\ Ordered' /\ Waits' /\ Unheard'
      BY DEF StreamKept, Ordered, Waits, Complete, Unheard
    <3> QED BY <3>1, <3>2
  <2> QED BY <2>1, <2>2
<1> QED BY InitSInv, InitUnheard, <1>1, PTL DEF Spec

(* The state of a TLS connection keeps its types.                          *)
THEOREM TypeCorrect == Spec => []TypeOK
<1>1. SInv => TypeOK
  BY DEF SInv
<1> QED BY Invariance, <1>1, PTL

(* However read() cuts the peer's records and whatever the handler takes,  *)
(* no byte and no data is lost or doubled on the way to OnData.            *)
THEOREM Conservation == Spec => []StreamKept
<1>1. SInv => StreamKept
  BY DEF SInv
<1> QED BY Invariance, <1>1, PTL

(* The handler sees and is asked for nothing before the handshake is over. *)
THEOREM Encrypted == Spec => []OnlyBehindHandshake
<1>1. SInv => OnlyBehindHandshake
  BY DEF SInv
<1> QED BY Invariance, <1>1, PTL

(* Between passes a whole record is in tls_read_ only behind reads that    *)
(* filled the cache.                                                       *)
THEOREM WholeCaches == Spec => []OnlyWholeCachesWait
<1>1. SInv => OnlyWholeCachesWait
  BY DEF SInv, Waits, OnlyWholeCachesWait
<1> QED BY Invariance, <1>1, PTL

-----------------------------------------------------------------------------
(* A step of the connection is a step of the contract, or none.            *)
LEMMA StepHeard == SInv /\ Unheard /\ [Next]_vars => [Contract!Next]_<<heard>>
<1> SUFFICES ASSUME SInv, Unheard, [Next]_vars, heard' # heard PROVE Contract!Next
  OBVIOUS
<1>1. 1 \in Contract!Ids /\ <<heard>>[1] = heard
  BY DEF Contract!Ids
<1>2. \A p : heard' = p => <<heard>>' = [<<heard>> EXCEPT ![1] = p]
  OBVIOUS
<1> USE DEF Contract!Next, Contract!Becomes, Contract!Talking
<1>3. CASE Connected
  BY <1>1, <1>2, <1>3 DEF Connected, Unheard, Contract!OnConnect
<1>4. CASE Reap
  <2>1. heard \in {"created"} \cup Talking /\ heard' = "OnDisconnect"
    BY <1>4 DEF Reap, Unheard, SInv, TypeOK
  <2> QED BY <1>1, <1>2, <2>1 DEF Contract!OnDisconnect, Talking
<1>5. CASE Show
  <2>1. heard \in Talking /\ heard' = "OnData"
    BY <1>5 DEF Show, Unheard, SInv, TypeOK
  <2> QED BY <1>1, <1>2, <2>1 DEF Contract!OnData, Talking
<1>6. CASE Encrypt
  <2>1. heard \in Talking /\ heard' = "OnWrite"
    BY <1>6 DEF Encrypt, Unheard, SInv, TypeOK
  <2> QED BY <1>1, <1>2, <2>1 DEF Contract!OnWrite, Talking
<1>7. CASE PeerReplies \/ PeerSends \/ PeerEnds \/ Arrive \/ Send \/ Close
  BY <1>7 DEF PeerReplies, PeerSends, PeerEnds, Arrive, Send, Close, dataVars
<1>8. CASE ScanGone \/ Poll("write") \/ Poll("read") \/ Tests \/ ReadSome
  BY <1>8 DEF ScanGone, Poll, Tests, RealWrite, StillConnecting, OnWrite, RealRead,
              NotConnecting, ReadNothing, ReadSome, dataVars
<1>9. CASE TLSStep
  BY <1>9 DEF TLSStep, Hello, Await, Answered, HandshakeOver, Decrypt, NoMoreRecords,
              dataVars
<1>10. CASE UNCHANGED vars
  BY <1>10 DEF vars, dataVars
<1> QED BY <1>3, <1>4, <1>5, <1>6, <1>7, <1>8, <1>9, <1>10 DEF Next, EngineStep, Tests

(* A TLS connection implements the contract of its handler, too.           *)
THEOREM Implementation == Spec => ImplementsContract
<1>1. Init => Contract!Init
  <2> SUFFICES ASSUME Init PROVE Contract!Init
    OBVIOUS
  <2>1. <<heard>> = [i \in Contract!Ids |-> IF i <= 1 THEN "created" ELSE "absent"]
    BY DEF Init, Contract!Ids
  <2> QED BY <2>1 DEF Contract!Init
<1> QED BY <1>1, Invariance, StepHeard, PTL DEF Spec, ImplementsContract, Contract!Spec

=============================================================================
