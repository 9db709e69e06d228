------------------------------ MODULE CidrIndex ------------------------------
(***************************************************************************)
(* The address arithmetic of the decision cache (decisions/cache.go): how  *)
(* buildIndex turns the value of a decision into the prefix it is indexed  *)
(* under, and how GetDecision finds the decision for a client address.     *)
(*                                                                         *)
(* Addresses keep their bits but not their real widths: an IPv4 address is *)
(* a number of V4Bits bits, an IPv6 address one of V6Bits bits, and the    *)
(* IPv4-mapped block ::ffff:0:0/96 is the block of IPv6 addresses whose    *)
(* high V6Bits - V4Bits bits are MappedHigh.  A string the code handles is *)
(* a record: a parsed address, a parsed CIDR, or a string that parses as   *)
(* neither.  Two strings are equal exactly when their records are, so the  *)
(* mapped and the plain spelling of one IPv4 address stay two cache keys.  *)
(***************************************************************************)
EXTENDS Naturals, FiniteSets

CONSTANTS
    V4Bits,      \* width of an IPv4 address (32 in the code)
    V6Bits,      \* width of an IPv6 address (128 in the code)
    MappedHigh,  \* high bits of the IPv4-mapped block (..ffff: an odd number)
    Decisions,   \* the decisions the LAPI may ever hold
    NoDecision   \* the nil *models.Decision

\* The strings of the program, by what netip makes of them.
AddrStrings == {s \in [kind : {"addr"}, fam : {4, 6}, n : 0 .. 2^V6Bits - 1] :
                    s.fam = 4 => s.n < 2^V4Bits}
CidrStrings == {s \in [kind : {"cidr"}, fam : {4, 6}, n : 0 .. 2^V6Bits - 1, len : 0 .. V6Bits] :
                    s.fam = 4 => s.n < 2^V4Bits /\ s.len <= V4Bits}
Junk  == [kind |-> "junk"]    \* parses neither as an address nor as a prefix
Blank == [kind |-> "blank"]   \* empty once trimmed
Nil   == [kind |-> "nil"]     \* a nil *string: the decision has no value
Strings == AddrStrings \cup CidrStrings \cup {Junk, Blank, Nil}

ASSUME WidthAssumption ==
    /\ V4Bits \in Nat \ {0} /\ V6Bits \in Nat /\ V4Bits < V6Bits
    /\ MappedHigh \in 0 .. 2^(V6Bits - V4Bits) - 1 /\ MappedHigh % 2 = 1
ASSUME DecisionAssumption ==
    /\ \A d \in Decisions : d.value \in Strings /\ d.scope \in {"Ip", "Range", "Other"}
    /\ NoDecision \notin Decisions
    /\ IsFiniteSet(Decisions)

-----------------------------------------------------------------------------
\* netip (external): address widths, masking, the IPv4-mapped block.

BitLen(fam) == IF fam = 4 THEN V4Bits ELSE V6Bits

Masked(fam, n, len) == n - (n % 2^(BitLen(fam) - len))

Is4In6(fam, n) == fam = 6 /\ n \div 2^V4Bits = MappedHigh

Unmap(a) == IF Is4In6(a.fam, a.n)
            THEN [fam |-> 4, n |-> a.n % 2^V4Bits]
            ELSE [fam |-> a.fam, n |-> a.n]

Contains(p, a) == p.fam = a.fam /\ Masked(a.fam, a.n, p.len) = p.n

-----------------------------------------------------------------------------
NoPrefix == [fam |-> 0, n |-> 0, len |-> 0]

\* Mutant of CidrPrefix: the host bits of a CIDR value are not masked.
CidrPrefixUnmasked(s) ==
    IF s.len = BitLen(s.fam) THEN NoPrefix
    ELSE IF Is4In6(s.fam, s.n)
         THEN [fam |-> 4, n |-> s.n % 2^V4Bits, len |-> s.len - (V6Bits - V4Bits)]
         ELSE [fam |-> s.fam, n |-> s.n, len |-> s.len]

(* The prefix buildIndex inserts a CIDR string under, NoPrefix when it    *)
(* skips the string.  The code masks before it asks Is4In6, so the branch *)
(* that skips mapped prefixes shorter than 96 bits is never taken: masking*)
(* has cleared the last bit of MappedHigh by then, and the prefix is      *)
(* indexed as the IPv6 prefix it has become.                              *)
CidrPrefix(s) ==
    LET n == Masked(s.fam, s.n, s.len)
        high == V6Bits - V4Bits
        p == IF Is4In6(s.fam, n)
             THEN IF s.len < high THEN NoPrefix
                  ELSE [fam |-> 4, n |-> n % 2^V4Bits, len |-> s.len - high]
             ELSE [fam |-> s.fam, n |-> n, len |-> s.len]
    IN  IF p # NoPrefix /\ p.len = BitLen(p.fam) THEN NoPrefix ELSE p

isScope(d, scope) == d.scope = scope

IndexPrefix(d) == IF isScope(d, "Range") /\ d.value.kind = "cidr"
                  THEN CidrPrefix(d.value) ELSE NoPrefix

HasValue(d) == d.value # Nil

(* The tables buildIndex may return for a set of cached decisions: one    *)
(* entry per prefix.  Keys() ranges over a Go map, so which of two values *)
(* that mask to one prefix is inserted last, and wins, is not determined. *)
Prefixes == {IndexPrefix(d) : d \in Decisions} \ {NoPrefix}

IndexedBy(cached) == {IndexPrefix(d) : d \in cached} \ {NoPrefix}

Winners(cached) == {w \in [IndexedBy(cached) -> cached] :
                        \A p \in IndexedBy(cached) : IndexPrefix(w[p]) = p}

buildIndex(cached) ==
    {[p \in Prefixes |-> IF p \in IndexedBy(cached) THEN w[p] ELSE NoDecision] :
        w \in Winners(cached)}

Tables == [Prefixes -> Decisions \cup {NoDecision}]

EmptyTable == [p \in Prefixes |-> NoDecision]

(* bart's Lookup on the unmapped client address: the longest prefix that  *)
(* contains it.  A nil table pointer answers as the empty table does.     *)
Hits(t, ip) == {p \in Prefixes : t[p] # NoDecision /\ Contains(p, Unmap(ip))}

lookup(t, ip) ==
    IF ip.kind # "addr" \/ Hits(t, ip) = {} THEN NoDecision
    ELSE t[CHOOSE p \in Hits(t, ip) : \A q \in Hits(t, ip) : q.len <= p.len]

\* A decision is indexed under a prefix that contains the client address.
Covers(d, s) == /\ s.kind = "addr" /\ IndexPrefix(d) # NoPrefix
                /\ Contains(IndexPrefix(d), Unmap(s))

-----------------------------------------------------------------------------
\* What a decision is about, stated without prefixes: the addresses it names.

Block(s) == {a \in [fam : {s.fam}, n : 0 .. 2^BitLen(s.fam) - 1] :
                 a.n \div 2^(BitLen(s.fam) - s.len) = s.n \div 2^(BitLen(s.fam) - s.len)}

(* A range is a block of more than one address; a block inside the mapped *)
(* block names IPv4 addresses, any other block the addresses in it, and   *)
(* an IPv4 client is an IPv4 address in either spelling.                  *)
Meaning(d) ==
    IF ~ isScope(d, "Range") \/ d.value.kind # "cidr" \/ Cardinality(Block(d.value)) = 1 THEN {}
    ELSE IF \A a \in Block(d.value) : Is4In6(a.fam, a.n)
         THEN {Unmap(a) : a \in Block(d.value)}
         ELSE Block(d.value)

CoversByRange(d, s) == s.kind = "addr" /\ Unmap(s) \in Meaning(d)
=============================================================================
