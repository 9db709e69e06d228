---------------------------- MODULE MCCidrLookup ----------------------------
(* CidrLookup on 1-bit IPv4 inside 3-bit IPv6: every CIDR string of both   *)
(* families as a Range decision, some strings as Ip decisions, every       *)
(* address string as a client.                                             *)
EXTENDS CidrLookup

CONSTANT None

Dec(v, s) == [value |-> v, scope |-> s]
MCDecisions ==
    {Dec(s, "Range") : s \in CidrStrings}
      \cup {Dec(s, "Ip") : s \in AddrStrings}
      \cup {Dec([kind |-> "cidr", fam |-> 4, n |-> 0, len |-> 0], "Ip"), Dec(Junk, "Range"), Dec(Blank, "Range")}
MCClients == AddrStrings \cup {Blank, Junk}
=============================================================================
