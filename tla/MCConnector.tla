---------------------------- MODULE MCConnector ----------------------------
(***************************************************************************)
(* Instances of Connector for TLC: names of up to five characters and      *)
(* answers of up to two records.                                           *)
(***************************************************************************)
EXTENDS Connector

Letter == 97

ShortNames == {name \in UNION {[1 .. n -> {Letter, Dot}] : n \in 1 .. 5} : HostName(name)}

(* Addresses with bytes of one, two and three digits; names of the lengths *)
(* where the walk turns, 3, 5 and 127 but not 4; of one over which it goes *)
(* back to where it was, 244; an IPv6 address.                             *)
Filler(n) == [k \in 1 .. n |-> 192]
Records ==
  {[type |-> "A", data |-> d] : d \in {<<0, 9, 10, 99>>, <<100, 255, 192, 12>>}}
    \cup {[type |-> "CNAME", data |-> Filler(n)] : n \in {3, 5, 127, 244}}
    \cup {[type |-> "AAAA", data |-> Filler(16)]}

ShortChains == UNION {[1 .. n -> Records] : n \in 0 .. 2}

Lines == {<<>>, <<"nameserver">>, <<"nameserver", "10.0.0.1">>,
          <<"nameserver", "10.0.0.2", "x">>, <<"search", "10.0.0.3">>,
          <<"nameserver", "fe80::1">>}
Ipv4 == {"10.0.0.1", "10.0.0.2", "10.0.0.3", "223.5.5.5"}
ShortFiles == UNION {[1 .. n -> Lines] : n \in 0 .. 3}

BlockingOrRecursive == {"normal", "recursive"}
=============================================================================
