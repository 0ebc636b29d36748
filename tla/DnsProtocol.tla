----------------------------- MODULE DnsProtocol -----------------------------
(***************************************************************************)
(* The messages of a lookup, base/dns/f_dns_protocol.cpp, the text of an   *)
(* address, SocketAssistant::IpValid, and the server that is asked, from   *)
(* DnsService::Start: operators on sequences.  Bytes are 0 .. 255, signed  *)
(* chars where the code computes with them.  An index i of the code is     *)
(* element i + 1 here.                                                     *)
(***************************************************************************)
EXTENDS Integers, Sequences

CONSTANTS
  Names,   (* the host names a run asks for, without empty labels           *)
  Chains,  (* the records its name server answers with, in their order      *)
  Files    (* contents of /etc/resolv.conf, as lines of words               *)

Byte == 0 .. 255
Dot == 46
Zero == 48
Digit == Zero .. Zero + 9
Record == [type : {"A", "CNAME", "AAAA"}, data : Seq(Byte)]

ASSUME DnsProtocolAssumption ==
  /\ Names \subseteq Seq(Byte) /\ <<>> \notin Names
  /\ Chains \subseteq Seq(Record)
  /\ \A chain \in Chains : \A k \in 1 .. Len(chain) :
       chain[k].type = "A" => Len(chain[k].data) = 4
  /\ Files \subseteq Seq(Seq(STRING))

(* Where the text goes on to its next dot or its end, from behind k.       *)
DotAfter(text, k) ==
  IF k > Len(text) THEN k
  ELSE CHOOSE j \in k + 1 .. Len(text) + 1 :
         /\ j = Len(text) + 1 \/ text[j] = Dot
         /\ \A h \in k + 1 .. j - 1 : text[h] # Dot

-----------------------------------------------------------------------------
(* RequestConstruct: at each dot and at the end the section since the last *)
(* one is written behind its length.                                       *)

Header == <<102, 102, 1, 0, 0, 1, 0, 0, 0, 0, 0, 0>>
TypeAndClass == <<0, 1, 0, 1>>

(* Mutant: the dot stays the next section's first character.               *)
AfterDot_Kept(q) == q
AfterDot(q) == q + 1

Round(domain, w, q) ==
  IF q > Len(domain) \/ domain[q] = Dot
  THEN [bytes |-> w.bytes \o <<(q - w.start) % 256>> \o SubSeq(domain, w.start, q - 1),
        start |-> AfterDot(q)]
  ELSE w

SectionsTo(domain) ==
  LET to[q \in 0 .. Len(domain) + 1] ==
        IF q = 0 THEN [bytes |-> <<>>, start |-> 1] ELSE Round(domain, to[q - 1], q)
  IN  to

Sections(domain) == SectionsTo(domain)[Len(domain) + 1].bytes

RequestConstruct(domain) == Header \o Sections(domain) \o <<0>> \o TypeAndClass

-----------------------------------------------------------------------------
(* ResponseParse.  Lengths are plain chars: from 128 on they are negative, *)
(* and i, a uint32, moves back; below 0 it is far behind the end.          *)

Signed(b) == IF b < 128 THEN b ELSE b - 256
Inside(p, i) == 0 <= i /\ i < Len(p)
At0(p, i) == p[i + 1]

(* Both walks are bounded: one that has not come to rest after as many     *)
(* steps as there are bytes has been somewhere twice and never does.       *)
NameEnds(p, i) == ~Inside(p, i) \/ At0(p, i) = 0

NameWalk(p) ==
  LET skip[n \in 0 .. Len(p)] ==
        [i \in Int |->
           IF n = 0 \/ NameEnds(p, i) THEN i ELSE skip[n - 1][i + Signed(At0(p, i)) + 1]]
  IN  skip

SkipName(p) == NameWalk(p)[Len(p)][12]

(* rd_len of the record at i: (b << 8) | b, either char widened with its   *)
(* sign.                                                                   *)
RdLen(p, i) ==
  LET high == At0(p, i + 10)
      low  == At0(p, i + 11)
  IN  IF low < 128 THEN 256 * Signed(high) + low ELSE low - 256

(* Where the walk over records stops: behind the end, at a record whose    *)
(* data would be there, or at one of four bytes, whatever its type.        *)
(* Mutant: the data is not skipped.                                        *)
NextRecord_Data(p, i) == i + 12
NextRecord(p, i) == i + 12 + RdLen(p, i)

Stops(p, i) == ~Inside(p, i) \/ ~Inside(p, i + 12) \/ RdLen(p, i) = 4

RecordWalk(p) ==
  LET skip[n \in 0 .. Len(p)] ==
        [i \in Int |-> IF n = 0 \/ Stops(p, i) THEN i ELSE skip[n - 1][NextRecord(p, i)]]
  IN  skip

SkipRecords(p, from) == RecordWalk(p)[Len(p)][from]

(* The code's 0 is "ok" and -1 "failed"; "endless" is no return at all.    *)
(* i at the question's last zero goes 5 on, to the first record.           *)
ResponseParse(p) ==
  LET q    == SkipName(p)
      stop == SkipRecords(p, q + 5)
  IN  IF ~Inside(p, q) THEN [ret |-> "failed"]
      ELSE IF ~NameEnds(p, q) \/ ~Stops(p, stop) THEN [ret |-> "endless"]
      ELSE IF ~Inside(p, stop) \/ ~Inside(p, stop + 12) THEN [ret |-> "failed"]
      ELSE [ret |-> "ok", ip |-> SubSeq(p, stop + 13, stop + 16)]

-----------------------------------------------------------------------------
(* intToStr writes the bytes in decimals, from the last digit to the first.*)

Decimal[n \in Nat] ==
  IF n < 10 THEN <<Zero + n>> ELSE Append(Decimal[n \div 10], Zero + (n % 10))

intToStr(b) ==
  Decimal[b[1]] \o <<Dot>> \o Decimal[b[2]] \o <<Dot>> \o Decimal[b[3]]
    \o <<Dot>> \o Decimal[b[4]]

(* What sscanf's %d.%d.%d.%d reads of digits and dots: the first four       *)
(* fields, of which those that are not there are empty, and the number in  *)
(* a field.  What follows the fourth is not looked at.                     *)
Fields(text) ==
  LET d1 == DotAfter(text, 0)
      d2 == DotAfter(text, d1)
      d3 == DotAfter(text, d2)
      d4 == DotAfter(text, d3)
  IN  <<SubSeq(text, 1, d1 - 1), SubSeq(text, d1 + 1, d2 - 1),
        SubSeq(text, d2 + 1, d3 - 1), SubSeq(text, d3 + 1, d4 - 1)>>

NumberTo(field) ==
  LET to[n \in 0 .. Len(field)] ==
        IF n = 0 THEN 0 ELSE 10 * to[n - 1] + (field[n] - Zero)
  IN  to

Number(field) == NumberTo(field)[Len(field)]

IpValid(text) ==
  /\ \A k \in 1 .. Len(text) : text[k] \in Digit \cup {Dot}
  /\ \A n \in 1 .. 4 : Fields(text)[n] # <<>> /\ Number(Fields(text)[n]) <= 255

-----------------------------------------------------------------------------
(* resolvConfParse: line by line; a file that cannot be read has no lines. *)
resolvConfParseLine(servers, line) ==
  IF line # <<>> /\ line[1] = "nameserver" /\ Len(line) > 1
  THEN Append(servers, line[2]) ELSE servers

checkDnsNameService(servers) ==
  IF servers = <<>> THEN <<"223.5.5.5">> ELSE servers

ServersTo(file) ==
  LET to[n \in 0 .. Len(file)] ==
        IF n = 0 THEN <<>> ELSE resolvConfParseLine(to[n - 1], file[n])
  IN  to

(* name_service_ after Start; getAddrInfo asks its first.                  *)
NameService(file) == checkDnsNameService(ServersTo(file)[Len(file)])

-----------------------------------------------------------------------------
(* A name server (external): the question repeated, then its records, each *)
(* naming its owner by a pointer of two bytes.                             *)

TypeOf(r) == CASE r.type = "A" -> 1 [] r.type = "CNAME" -> 5 [] r.type = "AAAA" -> 28

RecordBytes(r) ==
  <<192, 12, 0, TypeOf(r), 0, 1, 0, 0, 0, 60, Len(r.data) \div 256, Len(r.data) % 256>>
    \o r.data

RecordsTo(chain) ==
  LET to[n \in 0 .. Len(chain)] ==
        IF n = 0 THEN <<>> ELSE to[n - 1] \o RecordBytes(chain[n])
  IN  to

Response(query, chain) == query \o RecordsTo(chain)[Len(chain)]

Answers == {Response(RequestConstruct(name), chain) : name \in Names, chain \in Chains}

-----------------------------------------------------------------------------
(* What a query should ask: the name, each of its labels behind its        *)
(* length, in the place of the dot before it.                              *)
Breaks(name) == {k \in 0 .. Len(name) : k = 0 \/ name[k] = Dot}
LabelLen(name, k) == DotAfter(name, k) - k - 1

Question(name) ==
  [k \in 1 .. Len(name) + 1 |->
     IF k - 1 \in Breaks(name) THEN LabelLen(name, k - 1) ELSE name[k - 1]]

QueryNames(name) ==
  RequestConstruct(name) = Header \o Question(name) \o <<0>> \o TypeAndClass

(* Names as the DNS has them: labels of 1 to 63 bytes.                     *)
HostName(name) == \A k \in Breaks(name) : LabelLen(name, k) \in 1 .. 63

(* What the walk over an answer can skip: lengths below 128, and none of   *)
(* four bytes but an address.                                              *)
Skippable(r) == r.type # "A" => Len(r.data) < 128 /\ Len(r.data) # 4

(* The first of a set of places.                                           *)
IsFirst(k, places) == k \in places /\ \A j \in places : k <= j

(* What an answer should lead to: its first address, in a text connectIp   *)
(* takes and that says its bytes, or a failure if it has none.             *)
LeadsTo(answer, chain) ==
  LET result == ResponseParse(answer)
      As     == {k \in 1 .. Len(chain) : chain[k].type = "A"}
      text   == intToStr(result.ip)
  IN  /\ As = {} => result.ret = "failed"
      /\ \A k \in As : IsFirst(k, As) =>
           /\ result = [ret |-> "ok", ip |-> chain[k].data]
           /\ IpValid(text)
           /\ [n \in 1 .. 4 |-> Number(Fields(text)[n])] = result.ip

(* Who should be asked: the first name server the file names, if any.      *)
AsksServer(file) ==
  LET named == {k \in 1 .. Len(file) : Len(file[k]) > 1 /\ file[k][1] = "nameserver"}
  IN  /\ named = {} => NameService(file)[1] = "223.5.5.5"
      /\ \A k \in named : IsFirst(k, named) => NameService(file)[1] = file[k][2]

QueriesName ==
  /\ \A name \in Names : HostName(name) => QueryNames(name)
  /\ \A file \in Files : AsksServer(file)

AnswersLead ==
  \A name \in Names, chain \in Chains :
    HostName(name) /\ (\A k \in 1 .. Len(chain) : Skippable(chain[k])) =>
      LeadsTo(Response(RequestConstruct(name), chain), chain)

=============================================================================
