--------------------------- MODULE MCDecisionCache ---------------------------
(* DecisionCache on 2-bit IPv4 inside 3-bit IPv6.                          *)
EXTENDS DecisionCache

CONSTANTS o1, o2

A(f, x) == [kind |-> "addr", fam |-> f, n |-> x]
C(f, x, l) == [kind |-> "cidr", fam |-> f, n |-> x, len |-> l]
D(v, s, o, i) == [value |-> v, scope |-> s, origin |-> o, id |-> i]

\* Two decisions in a row on one address, and the range around it.
OnAddress  == D(A(4, 1), "Ip", o1, 1)
Successor  == D(A(4, 1), "Ip", o2, 2)
LowHalf    == D(C(4, 0, 1), "Range", o2, 3)
\* A range around both halves, and LowHalf again in its IPv4-mapped spelling, without an origin.
Everything == D(C(4, 0, 0), "Range", o1, 4)
MappedLow  == D(C(6, 4, 2), "Range", NoOrigin, 5)
\* A decision without a value.
NoValue    == D(Nil, "Ip", o1, 6)

AddressDecisions == {OnAddress, Successor, LowHalf}
RangeDecisions   == {Everything, LowHalf, MappedLow}
LookupDecisions  == AddressDecisions \cup RangeDecisions
LiveDecisions    == {LowHalf, NoValue}
SharedDecisions  == {OnAddress, Successor}

\* The address itself, the same in its mapped spelling, and the empty string.
OneIP      == {A(4, 1)}
LookupIPs  == {A(4, 1), A(6, 5), Blank}

(* Three scenarios in one run, to bound it: the LAPI decides about an       *)
(* address and the range around it, and the address is looked up; or about *)
(* ranges only, the widest one first, and an address in its mapped spelling*)
(* is looked up; or it has not decided anything yet when the empty address *)
(* is looked up.                                                           *)
Decided == {d \in Decisions : life[d] # "future"}
LookedUp == {ip[r] : r \in Readers}
Scenarios ==
    /\ \/ Decided \subseteq AddressDecisions /\ A(6, 5) \notin LookedUp
       \/ /\ Decided \subseteq RangeDecisions /\ A(4, 1) \notin LookedUp
          /\ MappedLow \in Decided => Everything \in Decided
    /\ Decided # {} => \A r \in Readers : result[r] # GetError
=============================================================================
