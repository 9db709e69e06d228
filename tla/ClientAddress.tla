---------------------------- MODULE ClientAddress ----------------------------
(***************************************************************************)
(* Whose request this is: ExtractRealIP and the exempt list, in            *)
(* bouncer/bouncer.go.  A header's text is one of the spellings of         *)
(* addresses in Addresses, or something netip.ParseAddr refuses, or "" if  *)
(* the header is absent; blanks around the entries of a list are dropped.  *)
(***************************************************************************)
EXTENDS Naturals, Sequences, FiniteSetsExt

CONSTANTS
    Addresses,       \* spellings that parse
    UnmappedOf,      \* netip.Addr.Unmap: an IPv4-mapped spelling to the plain one
    TrustedProxies,  \* the plain addresses inside the trusted prefixes
    ExemptIPs,       \* the plain addresses inside the exempt prefixes
    MaxForwarded     \* how many X-Forwarded-For entries are looked at: 20

ASSUME AddressAssumption ==
    /\ UnmappedOf \in [Addresses -> Addresses]
    /\ TrustedProxies \cup ExemptIPs \subseteq Addresses
    /\ "" \notin Addresses
    /\ MaxForwarded \in Nat \ {0}

\* True of TLA+, but the provers know no literal to be a string: proofs cite it.
ASSUME EmptyText == "" \in STRING

isTrustedProxyAddr(a) == UnmappedOf[a] \in TrustedProxies

\* An address that did not parse is never exempt.
isExemptIP(client) == client.parsed /\ UnmappedOf[client.ip] \in ExemptIPs

\* Where the entries that are looked at and are not a trusted proxy's are.
ClientEntries(forwarded) ==
    {i \in DOMAIN forwarded :
        /\ i + MaxForwarded > Len(forwarded)
        /\ forwarded[i] \in Addresses /\ ~ isTrustedProxyAddr(forwarded[i])}

\* Mutant of ExtractRealIP: the list is walked from the left.
ExtractRealIPLeftmost(r, trustedIPValue) ==
    LET text == IF trustedIPValue \in Addresses THEN trustedIPValue
                ELSE IF ClientEntries(r.forwarded) # {} THEN r.forwarded[Min(ClientEntries(r.forwarded))]
                ELSE IF r.xRealIP \in Addresses THEN r.xRealIP
                ELSE r.source
    IN  [ip |-> text, parsed |-> text \in Addresses]

(* The trusted header if it holds an address; else the last entry of       *)
(* X-Forwarded-For that is not a trusted proxy's, entries that do not      *)
(* parse being skipped; else X-Real-IP; else the socket address, parsed or *)
(* not.                                                                    *)
ExtractRealIP(r, trustedIPValue) ==
    LET text == IF trustedIPValue \in Addresses THEN trustedIPValue
                ELSE IF ClientEntries(r.forwarded) # {} THEN r.forwarded[Max(ClientEntries(r.forwarded))]
                ELSE IF r.xRealIP \in Addresses THEN r.xRealIP
                ELSE r.source
    IN  [ip |-> text, parsed |-> text \in Addresses]
=============================================================================
