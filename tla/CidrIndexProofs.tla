---------------------------- MODULE CidrIndexProofs ----------------------------
(***************************************************************************)
(* What buildIndex and lookup compute, for every width of addresses and    *)
(* every set of decisions: powers of two and division, what a range means  *)
(* as a set of addresses and as a prefix, and what a lookup returns.       *)
(***************************************************************************)
EXTENDS CidrIndex, FiniteSetTheorems, WellFoundedInduction, TLAPS

-----------------------------------------------------------------------------
\* Powers of two, which the provers know nothing of, and division.

\* A power of two is the number of subsets.
LEMMA PowerIsCount ==
    ASSUME NEW n \in Nat
    PROVE  /\ IsFiniteSet(SUBSET (1 .. n))
           /\ Cardinality(SUBSET (1 .. n)) = 2^n
<1>1. IsFiniteSet(1 .. n) /\ Cardinality(1 .. n) = n
  BY FS_Interval
<1>. QED
  BY <1>1, FS_SUBSET

\* A power of two is positive.
LEMMA PowerType ==
    ASSUME NEW n \in Nat
    PROVE  2^n \in Nat \ {0}
<1>1. {} \in SUBSET (1 .. n)
  OBVIOUS
<1>2. SUBSET (1 .. n) # {}
  BY <1>1
<1>3. Cardinality(SUBSET (1 .. n)) \in Nat \ {0}
  BY <1>2, PowerIsCount, FS_CardinalityType, FS_EmptySet
<1>. QED
  BY <1>3, PowerIsCount

\* A subset of the first m + n numbers is one of the first m and one of the others.
LEMMA PowerOfSum ==
    ASSUME NEW m \in Nat, NEW n \in Nat
    PROVE  2^(m + n) = 2^m * 2^n
<1>. DEFINE Low == SUBSET (1 .. m)
            High == SUBSET (1 .. n)
            All == SUBSET (1 .. m + n)
            f == [p \in Low \X High |-> p[1] \cup {m + i : i \in p[2]}]
<1>1. f \in [Low \X High -> All]
  <2>. SUFFICES ASSUME NEW p \in Low \X High, NEW x \in p[1] \cup {m + i : i \in p[2]}
                PROVE  x \in 1 .. m + n
    BY Zenon
  <2>. QED
    OBVIOUS
<1>2. \A p, q \in Low \X High : f[p] = f[q] => p = q
  <2>. SUFFICES ASSUME NEW p \in Low \X High, NEW q \in Low \X High, f[p] = f[q]
                PROVE  p = q
    OBVIOUS
  <2>1. \A r \in Low \X High : f[r] = r[1] \cup {m + i : i \in r[2]}
    OBVIOUS
  <2>2. \A r \in Low \X High : r[1] = f[r] \cap (1 .. m) /\ r[2] = {i \in 1 .. n : m + i \in f[r]}
    <3>. SUFFICES ASSUME NEW r \in Low \X High
                  PROVE  r[1] = f[r] \cap (1 .. m) /\ r[2] = {i \in 1 .. n : m + i \in f[r]}
      OBVIOUS
    <3>0. r[1] \subseteq 1 .. m /\ r[2] \subseteq 1 .. n
      OBVIOUS
    <3>1. \A x : x \in f[r] <=> x \in r[1] \/ \E i \in r[2] : x = m + i
      BY <2>1
    <3>2. \A x \in r[1] : x \in 1 .. m
      BY <3>0
    <3>3. \A i \in r[2] : i \in 1 .. n /\ m + i \notin 1 .. m
      BY <3>0
    <3>. HIDE DEF f
    <3>4. r[1] = f[r] \cap (1 .. m)
      BY <3>1, <3>2, <3>3
    <3>5. \A i \in 1 .. n : m + i \in f[r] => i \in r[2]
      <4>. SUFFICES ASSUME NEW i \in 1 .. n, m + i \in f[r] PROVE i \in r[2]
        OBVIOUS
      <4>1. m + i \notin r[1]
        BY <3>2
      <4>2. PICK j \in r[2] : m + i = m + j
        BY <3>1, <4>1
      <4>. QED
        BY <3>3, <4>2
    <3>6. r[2] = {i \in 1 .. n : m + i \in f[r]}
      BY <3>0, <3>1, <3>5
    <3>. QED
      BY <3>4, <3>6
  <2>. HIDE DEF f
  <2>3. p[1] = q[1]
    BY <2>2
  <2>4. p[2] = q[2]
    BY <2>2
  <2>5. \A a \in Low \X High : a = <<a[1], a[2]>>
    OBVIOUS
  <2>. QED
    BY <2>3, <2>4, <2>5
<1>3. \A S \in All : \E p \in Low \X High : f[p] = S
  <2>. SUFFICES ASSUME NEW S \in All PROVE \E p \in Low \X High : f[p] = S
    OBVIOUS
  <2>. DEFINE l == S \cap (1 .. m)
              h == {i \in 1 .. n : m + i \in S}
  <2>1. \A x \in S : x \in l \/ \E i \in h : x = m + i
    <3>. SUFFICES ASSUME NEW x \in S, x \notin l PROVE \E i \in h : x = m + i
      OBVIOUS
    <3>1. x - m \in 1 .. n /\ x = m + (x - m)
      OBVIOUS
    <3>. QED
      BY <3>1
  <2>2. l \cup {m + i : i \in h} = S
    BY <2>1
  <2>3. <<l, h>> \in Low \X High
    OBVIOUS
  <2>4. f[<<l, h>>] = l \cup {m + i : i \in h}
    BY <2>3
  <2>. QED
    BY <2>2, <2>3, <2>4
<1>. HIDE DEF f, Low, High, All
<1>4. f \in Bijection(Low \X High, All)
  BY <1>1, <1>2, <1>3 DEF Bijection, Injection, Surjection, IsInjective
<1>5. ExistsBijection(Low \X High, All)
  BY <1>4 DEF ExistsBijection
<1>6. /\ IsFiniteSet(Low) /\ Cardinality(Low) = 2^m
      /\ IsFiniteSet(High) /\ Cardinality(High) = 2^n
      /\ Cardinality(All) = 2^(m + n)
  <2>1. m + n \in Nat
    OBVIOUS
  <2>. QED
    BY <2>1, PowerIsCount DEF Low, High, All
<1>7. IsFiniteSet(Low \X High) /\ Cardinality(Low \X High) = 2^m * 2^n
  BY <1>6, FS_Product
<1>. QED
  BY <1>5, <1>6, <1>7, FS_Bijection

\* One bit more doubles the count.
LEMMA PowerDoubles == ASSUME NEW n \in Nat PROVE 2^(1 + n) = 2 * 2^n
<1>1. 1 \in Nat /\ 2^1 = 2
  OBVIOUS
<1>2. \A m \in Nat : 2^(m + n) = 2^m * 2^n
  BY PowerOfSum
<1>. QED
  BY <1>1, <1>2

\* Powers of two grow with the exponent.
LEMMA PowerGrows ==
    ASSUME NEW m \in Nat, NEW n \in Nat, m <= n
    PROVE  2^m <= 2^n
<1>1. PICK k \in Nat : n = m + k
  <2>1. n - m \in Nat /\ n = m + (n - m)
    OBVIOUS
  <2>. QED
    BY <2>1
<1>2. 2^n = 2^m * 2^k
  BY <1>1, PowerOfSum
<1>3. \A a, b \in Nat \ {0} : a <= a * b
  OBVIOUS
<1>. QED
  BY <1>2, <1>3, PowerType

\* Only a block without host bits has a single address.
LEMMA PowerIsOne ==
    ASSUME NEW n \in Nat
    PROVE  2^n = 1 <=> n = 0
<1>1. 2^0 = 1 /\ 2^1 = 2
  OBVIOUS
<1>2. CASE n # 0
  <2>1. 1 \in Nat /\ 1 <= n
    BY <1>2
  <2>2. 2^1 <= 2^n
    BY <2>1, PowerGrows
  <2>. QED
    BY <1>1, <1>2, <2>2, PowerType
<1>. QED
  BY <1>1, <1>2

\* Division with rest, as the provers know it.
LEMMA Division ==
    ASSUME NEW x \in Nat, NEW m \in Nat \ {0}
    PROVE  /\ x \div m \in Nat /\ x % m \in 0 .. m - 1
           /\ x = m * (x \div m) + (x % m)
  OBVIOUS

\* The quotient and the rest are the only ones.
LEMMA DivisionIs ==
    ASSUME NEW q \in Nat, NEW r \in Nat, NEW m \in Nat \ {0}, r < m
    PROVE  (m * q + r) \div m = q /\ (m * q + r) % m = r
  OBVIOUS

\* Shifting twice is shifting once by the sum.
LEMMA DivisionTwice ==
    ASSUME NEW x \in Nat, NEW m \in Nat \ {0}, NEW k \in Nat \ {0}
    PROVE  x \div (m * k) = (x \div m) \div k
  OBVIOUS

\* Clearing the low bits of a number keeps the others, and only those count.
LEMMA Clearing ==
    ASSUME NEW x \in Nat, NEW m \in Nat \ {0}
    PROVE  /\ x - (x % m) = m * (x \div m) /\ x - (x % m) \in 0 .. x
           /\ (x - (x % m)) \div m = x \div m
           /\ \A y \in Nat : y - (y % m) = x - (x % m) <=> y \div m = x \div m
<1>1. \A y \in Nat : /\ y \div m \in Nat /\ y % m \in 0 .. m - 1
                     /\ y - (y % m) = m * (y \div m) /\ y - (y % m) \in 0 .. y
  <2>. SUFFICES ASSUME NEW y \in Nat
                PROVE  /\ y \div m \in Nat /\ y % m \in 0 .. m - 1
                       /\ y - (y % m) = m * (y \div m) /\ y - (y % m) \in 0 .. y
    OBVIOUS
  <2>1. y \div m \in Nat /\ y % m \in 0 .. m - 1 /\ y = m * (y \div m) + (y % m)
    BY Division
  <2>2. m * (y \div m) \in Nat
    BY <2>1
  <2>. QED
    BY <2>1, <2>2
<1>2. \A q \in Nat : (m * q) \div m = q
  <2>. SUFFICES ASSUME NEW q \in Nat PROVE (m * q) \div m = q
    OBVIOUS
  <2>1. (m * q + 0) \div m = q
    BY DivisionIs
  <2>2. m * q \in Nat
    OBVIOUS
  <2>. QED
    BY <2>1, <2>2
<1>. QED
  BY <1>1, <1>2

-----------------------------------------------------------------------------
\* Ranges as sets of addresses.

AddressesOf(fam) == [fam : {fam}, n : 0 .. 2^BitLen(fam) - 1]

\* The width of a range, and the size of what its host bits can say.
LEMMA RangeFacts ==
    ASSUME NEW s \in CidrStrings
    PROVE  /\ s.kind = "cidr" /\ s.fam \in {4, 6} /\ BitLen(s.fam) \in Nat
           /\ s.n \in Nat /\ s.n < 2^BitLen(s.fam)
           /\ s.len \in Nat /\ s.len <= BitLen(s.fam)
           /\ BitLen(s.fam) - s.len \in Nat
           /\ 2^(BitLen(s.fam) - s.len) \in Nat \ {0} /\ 2^BitLen(s.fam) \in Nat \ {0}
           /\ 2^BitLen(s.fam) = 2^(BitLen(s.fam) - s.len) * 2^s.len
<1>1. /\ s.kind = "cidr" /\ s.fam \in {4, 6} /\ BitLen(s.fam) \in Nat
      /\ s.len \in Nat /\ s.len <= BitLen(s.fam)
  BY WidthAssumption DEF CidrStrings, BitLen
<1>2. 2^V6Bits \in Nat \ {0} /\ 2^V4Bits \in Nat \ {0}
  BY WidthAssumption, PowerType
<1>3. s.n \in Nat /\ s.n < 2^BitLen(s.fam)
  BY <1>1, <1>2 DEF CidrStrings, BitLen
<1>4. BitLen(s.fam) - s.len \in Nat /\ BitLen(s.fam) = (BitLen(s.fam) - s.len) + s.len
  BY <1>1
<1>5. 2^BitLen(s.fam) = 2^(BitLen(s.fam) - s.len) * 2^s.len
  BY <1>1, <1>4, PowerOfSum
<1>. QED
  BY <1>1, <1>3, <1>4, <1>5, PowerType

\* The block of a range: the addresses that agree with it on the bits that count.
LEMMA BlockIs ==
    ASSUME NEW s \in CidrStrings, NEW a
    PROVE  LET host == 2^(BitLen(s.fam) - s.len)
               masked == Masked(s.fam, s.n, s.len)
           IN  /\ masked = host * (s.n \div host) /\ masked \in Nat
               /\ masked \div host = s.n \div host
               /\ [fam |-> s.fam, n |-> masked] \in Block(s)
               /\ a \in Block(s) <=> /\ a \in AddressesOf(s.fam)
                                     /\ Masked(s.fam, a.n, s.len) = masked
<1>. DEFINE host == 2^(BitLen(s.fam) - s.len)
            masked == Masked(s.fam, s.n, s.len)
<1>1. host \in Nat \ {0} /\ s.n \in Nat /\ s.n < 2^BitLen(s.fam) /\ 2^BitLen(s.fam) \in Nat
  BY RangeFacts
<1>2. \A x \in Nat : Masked(s.fam, x, s.len) = x - (x % host)
  BY DEF Masked
<1>. HIDE DEF host
<1>3. masked = s.n - (s.n % host)
  BY <1>1, <1>2
<1>. HIDE DEF masked
<1>4. /\ masked = host * (s.n \div host) /\ masked \in Nat
      /\ masked \div host = s.n \div host /\ masked <= s.n
      /\ \A x \in Nat : x - (x % host) = masked <=> x \div host = s.n \div host
  <2>1. host \in Nat \ {0} /\ s.n \in Nat
    BY <1>1
  <2>2. /\ masked = host * (s.n \div host) /\ masked \in 0 .. s.n
        /\ masked \div host = s.n \div host
    BY <1>3, <2>1, Clearing
  <2>3. \A x \in Nat : x - (x % host) = masked <=> x \div host = s.n \div host
    BY <1>3, <2>1, Clearing
  <2>. QED
    BY <2>1, <2>2, <2>3
<1>5. Block(s) = {b \in AddressesOf(s.fam) : b.n \div host = s.n \div host}
  BY DEF Block, AddressesOf, host
<1>6. \A b \in AddressesOf(s.fam) : b.n \in Nat
  BY DEF AddressesOf
<1>7. a \in Block(s) <=> a \in AddressesOf(s.fam) /\ Masked(s.fam, a.n, s.len) = masked
  BY <1>2, <1>4, <1>5, <1>6
<1>8. [fam |-> s.fam, n |-> masked] \in Block(s)
  <2>1. [fam |-> s.fam, n |-> masked] \in AddressesOf(s.fam)
    BY <1>1, <1>4 DEF AddressesOf
  <2>. QED
    BY <1>4, <1>5, <2>1
<1>. QED
  BY <1>4, <1>7, <1>8 DEF host, masked

\* It has as many addresses as the host bits have values.
LEMMA BlockSize ==
    ASSUME NEW s \in CidrStrings
    PROVE  /\ IsFiniteSet(Block(s))
           /\ Cardinality(Block(s)) = 2^(BitLen(s.fam) - s.len)
<1>. DEFINE host == 2^(BitLen(s.fam) - s.len)
            net == 2^s.len
            q == s.n \div host
            f == [i \in 0 .. host - 1 |-> [fam |-> s.fam, n |-> host * q + i]]
<1>1. /\ host \in Nat \ {0} /\ net \in Nat /\ 2^BitLen(s.fam) = host * net
      /\ s.n \in Nat /\ s.n < host * net
  BY RangeFacts, PowerType
<1>2. Block(s) = {b \in [fam : {s.fam}, n : 0 .. host * net - 1] : b.n \div host = q}
  BY <1>1 DEF Block
<1>. HIDE DEF host, net
<1>3. q \in Nat /\ q < net
  <2>0. host \in Nat \ {0} /\ s.n \in Nat
    BY <1>1
  <2>1. q \in Nat /\ s.n % host \in 0 .. host - 1 /\ s.n = host * q + (s.n % host)
    BY <2>0, Division
  <2>2. ASSUME q >= net PROVE FALSE
    <3>1. host * q >= host * net
      BY <1>1, <2>1, <2>2
    <3>2. host * q \in Nat /\ host * net \in Nat
      BY <1>1, <2>1
    <3>. HIDE DEF q
    <3>. QED
      BY <1>1, <2>1, <3>1, <3>2
  <2>. QED
    BY <1>1, <2>1, <2>2
<1>4. host * q + host <= host * net
  BY <1>1, <1>3
<1>. HIDE DEF q
<1>5. \A i \in 0 .. host - 1 : (host * q + i) \div host = q /\ host * q + i \in 0 .. host * net - 1
  <2>. SUFFICES ASSUME NEW i \in 0 .. host - 1
                PROVE  (host * q + i) \div host = q /\ host * q + i \in 0 .. host * net - 1
    OBVIOUS
  <2>1. (host * q + i) \div host = q
    BY <1>1, <1>3, DivisionIs
  <2>2. host * q \in Nat /\ host * net \in Nat
    BY <1>1, <1>3
  <2>. QED
    BY <1>1, <1>4, <2>1, <2>2
<1>6. f \in [0 .. host - 1 -> Block(s)]
  BY <1>2, <1>5
<1>7. \A i, j \in 0 .. host - 1 : f[i] = f[j] => i = j
  <2>. SUFFICES ASSUME NEW i \in 0 .. host - 1, NEW j \in 0 .. host - 1, f[i] = f[j]
                PROVE  i = j
    OBVIOUS
  <2>1. f[i].n = host * q + i /\ f[j].n = host * q + j
    OBVIOUS
  <2>2. host * q \in Nat
    BY <1>1, <1>3
  <2>. QED
    BY <2>1, <2>2
<1>8. \A b \in Block(s) : \E i \in 0 .. host - 1 : f[i] = b
  <2>. SUFFICES ASSUME NEW b \in Block(s) PROVE \E i \in 0 .. host - 1 : f[i] = b
    OBVIOUS
  <2>1. b = [fam |-> s.fam, n |-> b.n] /\ b.n \in Nat /\ b.n \div host = q
    BY <1>1, <1>2
  <2>2. b.n % host \in 0 .. host - 1 /\ b.n = host * q + (b.n % host)
    BY <1>1, <2>1, Division
  <2>3. f[b.n % host] = b
    BY <2>1, <2>2
  <2>. QED
    BY <2>2, <2>3
<1>. HIDE DEF f
<1>9. ExistsBijection(0 .. host - 1, Block(s))
  BY <1>6, <1>7, <1>8 DEF ExistsBijection, Bijection, Injection, Surjection, IsInjective
<1>10. IsFiniteSet(0 .. host - 1) /\ Cardinality(0 .. host - 1) = host
  <2>1. 0 \in Int /\ host - 1 \in Int /\ ~ 0 > host - 1 /\ (host - 1) - 0 + 1 = host
    BY <1>1
  <2>. QED
    BY <2>1, FS_Interval
<1>11. IsFiniteSet(Block(s)) /\ Cardinality(Block(s)) = host
  BY <1>9, <1>10, FS_Bijection
<1>. QED
  BY <1>11 DEF host

-----------------------------------------------------------------------------
\* An address inside the mapped block, and the IPv4 address it stands for.

Low == 2^V4Bits

\* The widths are natural numbers and the low part of an address has 2^V4Bits values.
LEMMA Widths ==
    /\ V4Bits \in Nat /\ V6Bits \in Nat /\ V6Bits - V4Bits \in Nat /\ V6Bits - V4Bits > 0
    /\ Low \in Nat \ {0} /\ 2^V6Bits \in Nat \ {0}
    /\ MappedHigh \in Nat /\ MappedHigh % 2 = 1
<1>1. V4Bits \in Nat /\ V6Bits \in Nat /\ V6Bits - V4Bits \in Nat /\ V6Bits - V4Bits > 0
  BY WidthAssumption
<1>2. 2^(V6Bits - V4Bits) \in Nat
  BY <1>1, PowerType
<1>. QED
  BY <1>1, <1>2, PowerType, WidthAssumption DEF Low

\* What an address unmaps to is an address; inside the mapped block nothing is lost.
LEMMA UnmapIs ==
    ASSUME NEW fam \in {4, 6}, NEW a \in AddressesOf(fam)
    PROVE  /\ a.fam = fam /\ a.n \in Nat /\ a.n < 2^BitLen(fam)
           /\ Is4In6(fam, a.n) =>
                  /\ Unmap(a) \in AddressesOf(4) /\ Unmap(a) = [fam |-> 4, n |-> a.n % Low]
                  /\ a.n = Low * MappedHigh + (a.n % Low)
           /\ ~ Is4In6(fam, a.n) => Unmap(a) = a /\ Unmap(a) \in AddressesOf(fam)
<1>1. a = [fam |-> fam, n |-> a.n] /\ a.n \in 0 .. 2^BitLen(fam) - 1
  BY DEF AddressesOf
<1>2. 2^BitLen(fam) \in Nat
  BY Widths DEF BitLen, Low
<1>3. a.n \in Nat /\ a.n < 2^BitLen(fam)
  BY <1>1, <1>2
<1>4. ASSUME Is4In6(fam, a.n)
      PROVE  /\ Unmap(a) \in AddressesOf(4) /\ Unmap(a) = [fam |-> 4, n |-> a.n % Low]
             /\ a.n = Low * MappedHigh + (a.n % Low)
  <2>1. a.n \div Low = MappedHigh /\ Unmap(a) = [fam |-> 4, n |-> a.n % Low]
    BY <1>1, <1>4 DEF Is4In6, Unmap, Low
  <2>2. Low \in Nat \ {0}
    BY Widths
  <2>3. a.n % Low \in 0 .. Low - 1 /\ a.n = Low * (a.n \div Low) + (a.n % Low)
    BY <1>3, <2>2, Division
  <2>4. BitLen(4) = V4Bits
    BY DEF BitLen
  <2>. QED
    BY <2>1, <2>3, <2>4 DEF AddressesOf, Low
<1>. QED
  BY <1>1, <1>3, <1>4 DEF Unmap

(* A range is masked before it is asked whether it is mapped: if it still  *)
(* is, it is as long as the mapped block at least, or masking would have   *)
(* cleared the last bit of MappedHigh, which is odd.                       *)
LEMMA MappedIsLong ==
    ASSUME NEW s \in CidrStrings, Is4In6(s.fam, Masked(s.fam, s.n, s.len))
    PROVE  s.fam = 6 /\ s.len >= V6Bits - V4Bits
<1>. DEFINE host == 2^(V6Bits - s.len)
            q == s.n \div host
            short == (V6Bits - V4Bits) - s.len
<1>1. s.fam = 6 /\ BitLen(s.fam) = V6Bits
  BY DEF Is4In6, BitLen
<1>2. /\ Masked(s.fam, s.n, s.len) = host * q
      /\ (host * q) \div Low = MappedHigh
  BY <1>1, BlockIs DEF Is4In6, Low
<1>3. /\ s.len \in Nat /\ host \in Nat \ {0} /\ s.n \in Nat
  BY <1>1, RangeFacts
<1>4. q \in Nat
  BY <1>3, Division
<1>5. ASSUME s.len < V6Bits - V4Bits PROVE FALSE
  <2>1. short \in Nat \ {0} /\ short - 1 \in Nat
    BY <1>3, <1>5, Widths
  <2>. DEFINE half == 2^(short - 1)
  <2>2. half \in Nat
    BY <2>1, PowerType
  <2>3. host = Low * (2 * half)
    <3>1. V6Bits - s.len = V4Bits + (1 + (short - 1)) /\ 1 + (short - 1) \in Nat
      BY <1>3, <2>1, Widths
    <3>2. 2^(V4Bits + (1 + (short - 1))) = Low * 2^(1 + (short - 1))
      BY <3>1, PowerOfSum, Widths DEF Low
    <3>3. 2^(1 + (short - 1)) = 2 * half
      BY <2>1, PowerDoubles
    <3>. QED
      BY <3>1, <3>2, <3>3
  <2>. HIDE DEF half, host, q
  <2>4. host * q = Low * (2 * (half * q)) + 0 /\ 2 * (half * q) \in Nat /\ half * q \in Nat
    BY <1>4, <2>2, <2>3, Widths
  <2>5. (Low * (2 * (half * q)) + 0) \div Low = 2 * (half * q)
    BY <2>4, DivisionIs, Widths
  <2>6. MappedHigh = 2 * (half * q)
    BY <1>2, <2>4, <2>5
  <2>7. \A x \in Nat : (2 * x) % 2 = 0
    OBVIOUS
  <2>. QED
    BY <2>4, <2>6, <2>7, Widths
<1>. QED
  BY <1>1, <1>3, <1>5, Widths

(* The addresses of a range that is mapped are, as IPv4 addresses, those   *)
(* the IPv4 prefix contains that buildIndex makes of it.                   *)
LEMMA MappedBlock ==
    ASSUME NEW s \in CidrStrings, Is4In6(s.fam, Masked(s.fam, s.n, s.len)),
           NEW p, p = [fam |-> 4, n |-> Masked(s.fam, s.n, s.len) % Low,
                       len |-> s.len - (V6Bits - V4Bits)]
    PROVE  /\ p.len \in 0 .. V4Bits /\ V4Bits - p.len = V6Bits - s.len
           /\ \A a \in Block(s) : Is4In6(a.fam, a.n)
           /\ {Unmap(a) : a \in Block(s)} = {b \in AddressesOf(4) : Contains(p, b)}
           /\ \A a, b \in Block(s) : Unmap(a) = Unmap(b) => a = b
<1>. DEFINE host == 2^(V6Bits - s.len)
            sub  == 2^(s.len - (V6Bits - V4Bits))
            q == s.n \div host
            masked == Masked(s.fam, s.n, s.len)
<1>1. s.fam = 6 /\ BitLen(s.fam) = V6Bits /\ s.len >= V6Bits - V4Bits /\ s.len \in Nat /\ s.len <= V6Bits
  BY MappedIsLong, RangeFacts DEF BitLen
<1>2. p.fam = 4 /\ p.n = masked % Low /\ p.len \in 0 .. V4Bits /\ V4Bits - p.len = V6Bits - s.len
  BY <1>1, Widths
<1>3. host \in Nat \ {0} /\ sub \in Nat \ {0} /\ Low = host * sub /\ s.n \in Nat /\ Low \in Nat \ {0}
  <2>1. V6Bits - s.len \in Nat /\ s.len - (V6Bits - V4Bits) \in Nat
        /\ V4Bits = (V6Bits - s.len) + (s.len - (V6Bits - V4Bits))
    BY <1>1, Widths
  <2>2. Low = host * sub
    BY <2>1, PowerOfSum DEF Low
  <2>. QED
    BY <2>1, <2>2, PowerType, RangeFacts, Widths
<1>4. masked = host * q /\ q \in Nat /\ (host * q) \div Low = MappedHigh
  BY <1>1, <1>3, BlockIs, Division DEF Is4In6, Low
<1>5. \A a \in Block(s) : a \in AddressesOf(6) /\ a.n \div host = q
  BY <1>1 DEF Block, AddressesOf
<1>6. \A a \in AddressesOf(6) : a.n \in Nat /\ a.fam = 6
  BY UnmapIs
<1>7. \A a \in AddressesOf(6) : a.n \div host = q => a \in Block(s)
  BY <1>1 DEF Block, AddressesOf
<1>8. MappedHigh = q \div sub
  <2>. HIDE DEF host, sub, q
  <2>1. host * q \in Nat /\ (host * q) \div (host * sub) = ((host * q) \div host) \div sub
    BY <1>3, <1>4, DivisionTwice
  <2>2. (host * q + 0) \div host = q
    BY <1>3, <1>4, DivisionIs
  <2>. QED
    BY <1>3, <1>4, <2>1, <2>2
<1>9. \A a \in Block(s) : Is4In6(a.fam, a.n)
  <2>. SUFFICES ASSUME NEW a \in Block(s) PROVE a.n \div Low = MappedHigh /\ a.fam = 6
    BY DEF Is4In6, Low
  <2>0. a.n \in Nat /\ a.fam = 6 /\ a.n \div host = q
    BY <1>5, <1>6
  <2>. HIDE DEF host, sub, q
  <2>1. a.n \div (host * sub) = (a.n \div host) \div sub
    BY <1>3, <2>0, DivisionTwice
  <2>. QED
    BY <1>3, <1>8, <2>0, <2>1
<1>. DEFINE rest == q % sub
<1>10. q = sub * MappedHigh + rest /\ rest \in Nat /\ rest < sub /\ MappedHigh \in Nat
  <2>. HIDE DEF host, sub, q
  <2>1. q % sub \in 0 .. sub - 1 /\ q = sub * (q \div sub) + (q % sub)
    BY <1>3, <1>4, Division
  <2>. QED
    BY <1>3, <1>8, <2>1, Widths
<1>. HIDE DEF host, sub, q, masked, rest
<1>11. p.n = host * rest
  <2>1. masked = Low * MappedHigh + host * rest
    BY <1>3, <1>4, <1>10
  <2>2. host * rest \in Nat /\ host * rest < Low
    BY <1>3, <1>10
  <2>3. (Low * MappedHigh + host * rest) % Low = host * rest
    BY <1>3, <1>10, <2>2, DivisionIs
  <2>. QED
    BY <1>2, <2>1, <2>3
<1>12. \A x \in Nat : x - (x % host) = host * rest <=> x \div host = rest
  <2>. SUFFICES ASSUME NEW x \in Nat PROVE x - (x % host) = host * rest <=> x \div host = rest
    OBVIOUS
  <2>1. x - (x % host) = host * (x \div host) /\ x \div host \in Nat
    BY <1>3, Clearing, Division
  <2>2. \A u, v \in Nat : host * u = host * v => u = v
    BY <1>3
  <2>. QED
    BY <1>10, <2>1, <2>2
<1>13. \A b \in AddressesOf(4) : Contains(p, b) <=> b.n \div host = rest
  <2>. SUFFICES ASSUME NEW b \in AddressesOf(4) PROVE Contains(p, b) <=> b.n \div host = rest
    OBVIOUS
  <2>1. b.fam = 4 /\ b.n \in Nat
    BY UnmapIs
  <2>2. Masked(4, b.n, p.len) = b.n - (b.n % host)
    BY <1>2 DEF Masked, BitLen, host
  <2>. QED
    BY <1>2, <1>11, <1>12, <2>1, <2>2 DEF Contains
\* Numbers inside the mapped block agree with q exactly if their low bits agree with rest.
<1>14. \A x \in Nat : x < Low => (Low * MappedHigh + x) \div host = sub * MappedHigh + (x \div host)
  <2>. SUFFICES ASSUME NEW x \in Nat, x < Low
                PROVE  (Low * MappedHigh + x) \div host = sub * MappedHigh + (x \div host)
    OBVIOUS
  <2>1. x \div host \in Nat /\ x % host \in 0 .. host - 1 /\ x = host * (x \div host) + (x % host)
    BY <1>3, Division
  <2>2. Low * MappedHigh = host * (sub * MappedHigh) /\ sub * MappedHigh \in Nat
    BY <1>3, <1>10
  <2>. DEFINE y == x \div host
              r == x % host
              z == sub * MappedHigh + y
  <2>3. y \in Nat /\ r \in Nat /\ r < host /\ x = host * y + r /\ z \in Nat
    BY <1>3, <2>1, <2>2
  <2>. HIDE DEF y, r
  <2>4. host * z = host * (sub * MappedHigh) + host * y
    BY <1>3, <2>2, <2>3
  <2>. HIDE DEF z
  <2>5. Low * MappedHigh + x = host * z + r
    <3>1. host * (sub * MappedHigh) \in Nat /\ host * y \in Nat
      BY <1>3, <2>2, <2>3
    <3>. QED
      BY <2>2, <2>3, <2>4, <3>1
  <2>6. (host * z + r) \div host = z
    BY <1>3, <2>3, DivisionIs
  <2>. QED
    BY <2>5, <2>6 DEF y, z
<1>15. \A a \in Block(s) : Unmap(a) \in AddressesOf(4) /\ Contains(p, Unmap(a))
  <2>. SUFFICES ASSUME NEW a \in Block(s)
                PROVE  Unmap(a) \in AddressesOf(4) /\ Contains(p, Unmap(a))
    OBVIOUS
  <2>1. a \in AddressesOf(6) /\ a.n \div host = q /\ Is4In6(6, a.n) /\ a.n \in Nat
    BY <1>5, <1>6, <1>9
  <2>2. /\ Unmap(a) \in AddressesOf(4) /\ Unmap(a).n = a.n % Low
        /\ a.n = Low * MappedHigh + (a.n % Low)
    BY <2>1, UnmapIs
  <2>3. a.n % Low \in Nat /\ a.n % Low < Low
    <3>1. Low \in Nat \ {0} /\ a.n \in Nat
      BY <1>3, <2>1
    <3>2. a.n % Low \in 0 .. Low - 1
      BY <3>1, Division
    <3>. QED
      BY <3>1, <3>2
  <2>4. q = sub * MappedHigh + ((a.n % Low) \div host)
    BY <1>14, <2>1, <2>2, <2>3
  <2>5. (a.n % Low) \div host \in Nat
    BY <1>3, <2>3, Division
  <2>6. sub * MappedHigh \in Nat
    BY <1>3, <1>10
  <2>7. (a.n % Low) \div host = rest
    BY <1>10, <2>4, <2>5, <2>6
  <2>. QED
    BY <1>13, <2>2, <2>7
<1>16. \A b \in AddressesOf(4) : Contains(p, b) => \E a \in Block(s) : b = Unmap(a)
  <2>. SUFFICES ASSUME NEW b \in AddressesOf(4), Contains(p, b)
                PROVE  \E a \in Block(s) : b = Unmap(a)
    OBVIOUS
  <2>1. b = [fam |-> 4, n |-> b.n] /\ b.n \in Nat /\ b.n < Low /\ b.n \div host = rest
    <3>1. b = [fam |-> 4, n |-> b.n]
      BY DEF AddressesOf
    <3>2. b.n \in Nat /\ b.n < 2^BitLen(4)
      BY UnmapIs
    <3>. QED
      BY <1>13, <3>1, <3>2 DEF BitLen, Low
  <2>. DEFINE x == Low * MappedHigh + b.n
              a == [fam |-> 6, n |-> x]
  <2>2. x \in Nat /\ x \div Low = MappedHigh /\ x % Low = b.n /\ x \div host = q
    <3>1. x \div Low = MappedHigh /\ x % Low = b.n
      BY <1>3, <1>10, <2>1, DivisionIs
    <3>2. x \div host = q
      BY <1>10, <1>14, <2>1
    <3>3. x \in Nat
      BY <1>3, <1>10, <2>1
    <3>. QED
      BY <3>1, <3>2, <3>3
  <2>3. x < 2^V6Bits
    <3>1. MappedHigh + 1 <= 2^(V6Bits - V4Bits) /\ 2^(V6Bits - V4Bits) \in Nat
      <4>1. 2^(V6Bits - V4Bits) \in Nat
        BY Widths, PowerType
      <4>. QED
        BY <4>1, WidthAssumption
    <3>2. 2^V6Bits = Low * 2^(V6Bits - V4Bits)
      <4>1. V6Bits = V4Bits + (V6Bits - V4Bits)
        BY Widths
      <4>. QED
        BY <4>1, Widths, PowerOfSum DEF Low
    <3>3. \A l, m, h, y \in Nat : m + 1 <= h /\ y < l => l * m + y < l * h
      <4>. SUFFICES ASSUME NEW l \in Nat, NEW m \in Nat, NEW h \in Nat, NEW y \in Nat,
                           m + 1 <= h, y < l
                    PROVE  l * m + y < l * h
        OBVIOUS
      <4>1. l * (m + 1) <= l * h /\ l * (m + 1) = l * m + l
        OBVIOUS
      <4>. QED
        BY <4>1
    <3>. QED
      BY <1>3, <1>10, <2>1, <3>1, <3>2, <3>3
  <2>. HIDE DEF x
  <2>4. a \in AddressesOf(6)
    BY <2>2, <2>3, Widths DEF AddressesOf, BitLen
  <2>5. a \in Block(s)
    BY <1>7, <2>2, <2>4
  <2>6. Unmap(a) = b
    BY <2>1, <2>2 DEF Unmap, Is4In6, Low
  <2>. QED
    BY <2>5, <2>6
<1>17. {Unmap(a) : a \in Block(s)} = {b \in AddressesOf(4) : Contains(p, b)}
  BY <1>15, <1>16
<1>18. \A a, b \in Block(s) : Unmap(a) = Unmap(b) => a = b
  <2>. SUFFICES ASSUME NEW a \in Block(s), NEW b \in Block(s), Unmap(a) = Unmap(b)
                PROVE  a = b
    OBVIOUS
  <2>1. /\ a \in AddressesOf(6) /\ Is4In6(6, a.n) /\ b \in AddressesOf(6) /\ Is4In6(6, b.n)
    BY <1>5, <1>6, <1>9
  <2>2. a.n = b.n
    BY <2>1, UnmapIs
  <2>. QED
    BY <2>1, <2>2 DEF AddressesOf
<1>. QED
  BY <1>2, <1>9, <1>17, <1>18
-----------------------------------------------------------------------------
(* What a decision means, as a set of addresses, is what the prefix it is  *)
(* indexed under contains; a decision that is not indexed means none.  The *)
(* longer the prefix, the fewer the addresses.                             *)
LEMMA MeaningIsPrefix ==
    ASSUME NEW d \in Decisions
    PROVE  /\ IndexPrefix(d) = NoPrefix => Meaning(d) = {}
           /\ IndexPrefix(d) # NoPrefix =>
                  LET p == IndexPrefix(d)
                  IN  /\ p.fam \in {4, 6} /\ p.len \in Nat /\ p.len <= BitLen(p.fam)
                      /\ Meaning(d) = {b \in AddressesOf(p.fam) : Contains(p, b)}
                      /\ Cardinality(Meaning(d)) = 2^(BitLen(p.fam) - p.len)
<1>. DEFINE s == d.value
            masked == Masked(s.fam, s.n, s.len)
            high == V6Bits - V4Bits
            p == IndexPrefix(d)
<1>1. CASE ~ (isScope(d, "Range") /\ s.kind = "cidr")
  BY <1>1 DEF IndexPrefix, Meaning
<1>2. CASE isScope(d, "Range") /\ s.kind = "cidr"
  <2>1. s \in CidrStrings /\ p = CidrPrefix(s)
    BY <1>2, DecisionAssumption DEF Strings, AddrStrings, Junk, Blank, Nil, IndexPrefix
  <2>. DEFINE host == BitLen(s.fam) - s.len
  <2>2. /\ s.fam \in {4, 6} /\ s.len \in Nat /\ s.len <= BitLen(s.fam) /\ host \in Nat
        /\ BitLen(s.fam) \in Nat /\ BitLen(4) = V4Bits /\ BitLen(6) = V6Bits
    BY <2>1, RangeFacts DEF BitLen
  <2>3. IsFiniteSet(Block(s)) /\ Cardinality(Block(s)) = 2^host
    BY <2>1, BlockSize
  <2>4. Cardinality(Block(s)) = 1 <=> host = 0
    BY <2>2, <2>3, PowerIsOne
  <2>5. [fam |-> s.fam, n |-> masked] \in Block(s)
    BY <2>1, BlockIs
  <2>6. CASE Is4In6(s.fam, masked)
    <3>. DEFINE m == [fam |-> 4, n |-> masked % Low, len |-> s.len - high]
    <3>1. /\ m.len \in 0 .. V4Bits /\ V4Bits - m.len = V6Bits - s.len
          /\ \A a \in Block(s) : Is4In6(a.fam, a.n)
          /\ {Unmap(a) : a \in Block(s)} = {b \in AddressesOf(4) : Contains(m, b)}
          /\ \A a, b \in Block(s) : Unmap(a) = Unmap(b) => a = b
      BY <2>1, <2>6, MappedBlock
    <3>2. s.fam = 6 /\ s.len >= high
      BY <2>1, <2>6, MappedIsLong
    <3>3. p = IF m.len = V4Bits THEN NoPrefix ELSE m
      <4>1. m # NoPrefix /\ m.fam = 4
        BY DEF NoPrefix
      <4>2. ~ s.len < high
        BY <2>2, <3>2, Widths
      <4>. QED
        BY <2>1, <2>2, <2>6, <3>2, <4>1, <4>2 DEF CidrPrefix, Low
    <3>4. m.len = V4Bits <=> host = 0
      BY <2>2, <3>1, <3>2, Widths
    <3>5. CASE host = 0
      BY <2>4, <3>3, <3>4, <3>5 DEF Meaning
    <3>6. CASE host # 0
      <4>1. p = m /\ p # NoPrefix
        BY <3>3, <3>4, <3>6 DEF NoPrefix
      <4>2. Meaning(d) = {Unmap(a) : a \in Block(s)}
        BY <1>2, <2>4, <3>1, <3>6 DEF Meaning
      <4>3. BitLen(p.fam) - p.len = host /\ p.fam = 4 /\ p.len \in Nat /\ p.len <= V4Bits
        BY <2>2, <3>1, <3>2, <4>1, Widths
      <4>4. Cardinality({Unmap(a) : a \in Block(s)}) = Cardinality(Block(s))
        <5>. DEFINE S == Block(s)
                    T == {Unmap(a) : a \in S}
                    f == [a \in S |-> Unmap(a)]
        <5>1. \A a, b \in S : f[a] = f[b] => a = b
          BY <3>1
        <5>2. f \in [S -> T] /\ \A t \in T : \E a \in S : f[a] = t
          OBVIOUS
        <5>. HIDE DEF f, S, T
        <5>3. ExistsBijection(S, T)
          BY <5>1, <5>2 DEF ExistsBijection, Bijection, Injection, Surjection, IsInjective
        <5>4. IsFiniteSet(S)
          BY <2>3 DEF S
        <5>5. Cardinality(T) = Cardinality(S)
          BY <5>3, <5>4, FS_Bijection
        <5>. QED
          BY <5>5 DEF S, T
      <4>. QED
        BY <2>2, <2>3, <3>1, <4>1, <4>2, <4>3, <4>4
    <3>. QED
      BY <3>5, <3>6
  <2>7. CASE ~ Is4In6(s.fam, masked)
    <3>. DEFINE m == [fam |-> s.fam, n |-> masked, len |-> s.len]
    <3>1. p = IF host = 0 THEN NoPrefix ELSE m
      <4>1. m # NoPrefix
        BY <2>2 DEF NoPrefix
      <4>2. host = 0 <=> m.len = BitLen(m.fam)
        BY <2>2
      <4>. QED
        BY <2>1, <2>7, <4>1, <4>2 DEF CidrPrefix
    <3>2. CASE host = 0
      BY <2>4, <3>1, <3>2 DEF Meaning
    <3>3. CASE host # 0
      <4>1. p = m /\ p # NoPrefix
        BY <2>2, <3>1, <3>3 DEF NoPrefix
      <4>2. Meaning(d) = Block(s)
        BY <1>2, <2>4, <2>5, <2>7, <3>3 DEF Meaning
      <4>3. \A a : a \in Block(s) <=> a \in AddressesOf(s.fam) /\ Masked(s.fam, a.n, s.len) = masked
        BY <2>1, BlockIs
      <4>4. \A a \in AddressesOf(s.fam) : a.fam = s.fam
        BY DEF AddressesOf
      <4>5. Block(s) = {b \in AddressesOf(s.fam) : Contains(m, b)}
        BY <4>3, <4>4 DEF Contains
      <4>. QED
        BY <2>2, <2>3, <4>1, <4>2, <4>5
    <3>. QED
      BY <3>2, <3>3
  <2>. QED
    BY <2>6, <2>7
<1>. QED
  BY <1>1, <1>2

\* The address a client string unmaps to is an address.
LEMMA UnmapAddress ==
    ASSUME NEW s \in AddrStrings
    PROVE  Unmap(s).fam \in {4, 6} /\ Unmap(s) \in AddressesOf(Unmap(s).fam)
<1>. DEFINE a == [fam |-> s.fam, n |-> s.n]
<1>1. s.fam \in {4, 6} /\ a \in AddressesOf(s.fam)
  BY Widths DEF AddrStrings, AddressesOf, BitLen, Low
<1>2. Unmap(s) = Unmap(a)
  BY DEF Unmap
<1>3. Unmap(a) \in AddressesOf(4) \/ Unmap(a) \in AddressesOf(s.fam)
  BY <1>1, UnmapIs
<1>. QED
  BY <1>1, <1>2, <1>3 DEF AddressesOf

(* So a decision is about the addresses of a range exactly if it is indexed*)
(* under a prefix that contains them, and of two such decisions the one    *)
(* with the longer prefix is about fewer.                                  *)
THEOREM CoversMeaning ==
    ASSUME NEW d \in Decisions, NEW s \in Strings
    PROVE  Covers(d, s) <=> CoversByRange(d, s)
<1>1. CASE s.kind # "addr" \/ IndexPrefix(d) = NoPrefix
  BY <1>1, MeaningIsPrefix DEF Covers, CoversByRange
<1>2. CASE s.kind = "addr" /\ IndexPrefix(d) # NoPrefix
  <2>1. s \in AddrStrings
    BY <1>2 DEF Strings, CidrStrings, Junk, Blank, Nil
  <2>2. Contains(IndexPrefix(d), Unmap(s)) => IndexPrefix(d).fam = Unmap(s).fam
    BY DEF Contains
  <2>. QED
    BY <1>2, <2>1, <2>2, MeaningIsPrefix, UnmapAddress DEF Covers, CoversByRange
<1>. QED
  BY <1>1, <1>2

\* Of two decisions that cover an address, the longer prefix names fewer addresses.
LEMMA LongerIsNarrower ==
    ASSUME NEW d \in Decisions, NEW e \in Decisions, NEW s \in Strings,
           Covers(d, s), Covers(e, s), IndexPrefix(e).len <= IndexPrefix(d).len
    PROVE  Cardinality(Meaning(d)) <= Cardinality(Meaning(e))
<1>. DEFINE p == IndexPrefix(d)
            q == IndexPrefix(e)
<1>1. p # NoPrefix /\ q # NoPrefix /\ p.fam = q.fam
  BY DEF Covers, Contains
<1>2. /\ p.fam \in {4, 6} /\ p.len \in Nat /\ p.len <= BitLen(p.fam)
      /\ Cardinality(Meaning(d)) = 2^(BitLen(p.fam) - p.len)
  BY <1>1, MeaningIsPrefix
<1>3. /\ q.len \in Nat /\ q.len <= BitLen(q.fam)
      /\ Cardinality(Meaning(e)) = 2^(BitLen(q.fam) - q.len)
  BY <1>1, MeaningIsPrefix
<1>. HIDE DEF p, q
<1>4. BitLen(p.fam) \in Nat
  BY <1>2, Widths DEF BitLen
<1>5. /\ BitLen(p.fam) - p.len \in Nat /\ BitLen(p.fam) - q.len \in Nat
      /\ BitLen(p.fam) - p.len <= BitLen(p.fam) - q.len
  BY <1>1, <1>2, <1>3, <1>4 DEF p, q
<1>6. 2^(BitLen(p.fam) - p.len) <= 2^(BitLen(p.fam) - q.len)
  BY <1>5, PowerGrows
<1>. QED
  BY <1>1, <1>2, <1>3, <1>6

-----------------------------------------------------------------------------
\* Facts about the index.

(* A table buildIndex returns is a table; it holds, under a prefix, a      *)
(* decision of the cache with that prefix if there is one, else nothing.   *)
LEMMA BuildIndexTable ==
    ASSUME NEW cached, cached \subseteq Decisions, NEW t \in buildIndex(cached)
    PROVE  /\ t \in Tables
           /\ \A p \in Prefixes : t[p] # NoDecision => t[p] \in cached /\ IndexPrefix(t[p]) = p
           /\ \A p \in Prefixes : t[p] = NoDecision => \A d \in cached : IndexPrefix(d) # p
<1>1. PICK w \in Winners(cached) :
          t = [p \in Prefixes |-> IF p \in IndexedBy(cached) THEN w[p] ELSE NoDecision]
  BY DEF buildIndex
<1>2. \A p \in IndexedBy(cached) : w[p] \in cached /\ IndexPrefix(w[p]) = p
  BY DEF Winners
<1>3. \A p \in Prefixes : p # NoPrefix
  BY DEF Prefixes
<1>4. \A d \in cached, p \in Prefixes : IndexPrefix(d) = p => p \in IndexedBy(cached)
  BY <1>3 DEF IndexedBy
<1> QED
  BY <1>1, <1>2, <1>4, DecisionAssumption DEF Tables

(* Conversely such a table is one that buildIndex may return.              *)
LEMMA TableIsBuilt ==
    ASSUME NEW cached, cached \subseteq Decisions, NEW t \in Tables,
           \A p \in Prefixes : t[p] # NoDecision => t[p] \in cached /\ IndexPrefix(t[p]) = p,
           \A p \in Prefixes : t[p] = NoDecision => \A d \in cached : IndexPrefix(d) # p
    PROVE  t \in buildIndex(cached)
<1> DEFINE w == [p \in IndexedBy(cached) |-> t[p]]
<1>1. IndexedBy(cached) \subseteq Prefixes
  BY DEF IndexedBy, Prefixes
<1>2. \A p \in IndexedBy(cached) : \E d \in cached : IndexPrefix(d) = p
  BY DEF IndexedBy
<1>3. \A p \in IndexedBy(cached) : t[p] # NoDecision
  BY <1>1, <1>2
<1>4. \A p \in Prefixes : t[p] # NoDecision => p \in IndexedBy(cached)
  BY DEF IndexedBy, Prefixes
<1>5. w \in Winners(cached)
  BY <1>1, <1>3 DEF Winners
<1>6. t = [p \in Prefixes |-> IF p \in IndexedBy(cached) THEN w[p] ELSE NoDecision]
  BY <1>1, <1>4 DEF Tables
<1> QED
  BY <1>5, <1>6 DEF buildIndex

(* Every prefix of the index is as long as a natural number bounded by the *)
(* width of IPv6, so of any prefixes one is the longest.                   *)
LEMMA PrefixLength ==
    ASSUME NEW p \in Prefixes
    PROVE  p.len \in 0 .. V6Bits
<1> USE DecisionAssumption, WidthAssumption
<1>1. PICK d \in Decisions : p = IndexPrefix(d) /\ p # NoPrefix
  BY DEF Prefixes
<1>2. d.value.kind = "cidr" /\ p = CidrPrefix(d.value)
  BY <1>1 DEF IndexPrefix
<1>3. d.value \in CidrStrings
  BY <1>2 DEF Strings, AddrStrings, Junk, Blank, Nil
<1>4. d.value.len \in 0 .. V6Bits
  BY <1>3 DEF CidrStrings
<1>5. p.len = d.value.len \/ (d.value.len >= V6Bits - V4Bits /\ p.len = d.value.len - (V6Bits - V4Bits))
  BY <1>1, <1>2, <1>4 DEF CidrPrefix, NoPrefix
<1> QED
  BY <1>4, <1>5

\* Of any prefixes of the index one is the longest, so lookup's choice exists.
LEMMA LongestPrefix ==
    ASSUME NEW S, S \subseteq Prefixes, S # {}
    PROVE  \E p \in S : \A q \in S : q.len <= p.len
<1> USE WidthAssumption
<1> DEFINE Less == OpToRel(<, Nat)
           T == {V6Bits - p.len : p \in S}
<1>1. \A p \in S : p.len \in 0 .. V6Bits
  BY PrefixLength
<1>2. T \subseteq Nat /\ T # {}
  BY <1>1
<1>3. \E x \in T : \A y \in T : ~ (<<y, x>> \in Less)
  <2> HIDE DEF T, Less
  <2>1. IsWellFoundedOn(Less, Nat)
    BY NatLessThanWellFounded DEF Less
  <2> QED
    BY <1>2, <2>1, WFMin
<1>4. PICK x \in T : \A y \in T : ~ (y < x)
  BY <1>2, <1>3 DEF OpToRel
<1>5. PICK p \in S : x = V6Bits - p.len
  OBVIOUS
<1>6. \A q \in S : ~ (V6Bits - q.len < V6Bits - p.len)
  BY <1>4, <1>5
<1> QED
  BY <1>1, <1>6

(* lookup answers with the entry of a longest prefix that contains the     *)
(* address, and with nothing only if no prefix does.                       *)
LEMMA LookupLongest ==
    ASSUME NEW t \in Tables, NEW s
    PROVE  \/ /\ lookup(t, s) = NoDecision
              /\ s.kind # "addr" \/ Hits(t, s) = {}
           \/ /\ s.kind = "addr"
              /\ \E p \in Hits(t, s) : /\ lookup(t, s) = t[p]
                                       /\ \A q \in Hits(t, s) : q.len <= p.len
<1>1. CASE s.kind # "addr" \/ Hits(t, s) = {}
  BY <1>1 DEF lookup
<1>2. CASE ~ (s.kind # "addr" \/ Hits(t, s) = {})
  <2> DEFINE longest == CHOOSE p \in Hits(t, s) : \A q \in Hits(t, s) : q.len <= p.len
  <2>1. lookup(t, s) = t[longest]
    BY <1>2 DEF lookup
  <2>2. \E p \in Hits(t, s) : \A q \in Hits(t, s) : q.len <= p.len
    BY <1>2, LongestPrefix DEF Hits
  <2>3. longest \in Hits(t, s) /\ \A q \in Hits(t, s) : q.len <= longest.len
    BY <2>2
  <2> QED
    BY <1>2, <2>1, <2>3
<1> QED
  BY <1>1, <1>2

(* Two prefixes of one length that contain one address are the same.       *)
LEMMA ContainsOnce ==
    ASSUME NEW p \in Prefixes, NEW q \in Prefixes, NEW a,
           Contains(p, a), Contains(q, a), p.len = q.len
    PROVE  p = q
<1>1. \A r \in Prefixes : r = [fam |-> r.fam, n |-> r.n, len |-> r.len]
  <2>. DEFINE Plain(r) == r = [fam |-> r.fam, n |-> r.n, len |-> r.len]
  <2>1. \A f, n, l : Plain([fam |-> f, n |-> n, len |-> l])
    OBVIOUS
  <2>2. Plain(NoPrefix)
    BY DEF NoPrefix
  <2>. HIDE DEF Plain
  <2>3. \A c : Plain(CidrPrefix(c))
    BY <2>1, <2>2 DEF CidrPrefix
  <2>4. \A d : Plain(IndexPrefix(d))
    BY <2>2, <2>3 DEF IndexPrefix
  <2>5. \A r \in Prefixes : Plain(r)
    BY <2>4 DEF Prefixes
  <2>. QED
    BY <2>5 DEF Plain
<1>2. p.fam = q.fam /\ p.n = q.n
  BY DEF Contains
<1>. QED
  BY <1>1, <1>2

(* The order in which buildIndex ranges over the Go map decides only which *)
(* of the decisions on one prefix wins: every index it can build answers an*)
(* address from the same prefix, and none of them answers where another    *)
(* does not (buildIndex, Lookup).                                          *)
THEOREM OrderDecidesLittle ==
    ASSUME NEW cached, cached \subseteq Decisions, NEW s,
           NEW t \in buildIndex(cached), NEW u \in buildIndex(cached)
    PROVE  /\ lookup(t, s) = NoDecision <=> lookup(u, s) = NoDecision
           /\ lookup(t, s) # NoDecision => IndexPrefix(lookup(t, s)) = IndexPrefix(lookup(u, s))
<1>1. t \in Tables /\ u \in Tables
  BY BuildIndexTable
<1>2. Hits(t, s) = Hits(u, s)
  <2>1. \A p \in Prefixes : t[p] = NoDecision <=> \A d \in cached : IndexPrefix(d) # p
    BY BuildIndexTable
  <2>2. \A p \in Prefixes : u[p] = NoDecision <=> \A d \in cached : IndexPrefix(d) # p
    BY BuildIndexTable
  <2>. QED
    BY <2>1, <2>2 DEF Hits
<1>3. CASE s.kind # "addr" \/ Hits(t, s) = {}
  BY <1>2, <1>3 DEF lookup
<1>4. CASE s.kind = "addr" /\ Hits(t, s) # {}
  <2>1. PICK p \in Hits(t, s) : lookup(t, s) = t[p] /\ \A q \in Hits(t, s) : q.len <= p.len
    BY <1>1, <1>4, LookupLongest
  <2>2. PICK q \in Hits(t, s) : lookup(u, s) = u[q] /\ \A r \in Hits(t, s) : r.len <= q.len
    BY <1>1, <1>2, <1>4, LookupLongest
  <2>3. /\ p \in Prefixes /\ t[p] # NoDecision /\ Contains(p, Unmap(s))
        /\ q \in Prefixes /\ u[q] # NoDecision /\ Contains(q, Unmap(s))
    BY <1>2, <2>1, <2>2 DEF Hits
  <2>4. p.len = q.len
    <3>1. p.len \in Nat /\ q.len \in Nat
      BY <2>3, PrefixLength, Widths
    <3>2. p.len <= q.len /\ q.len <= p.len
      BY <2>1, <2>2
    <3>. QED
      BY <3>1, <3>2
  <2>5. p = q
    BY <2>3, <2>4, ContainsOnce
  <2>. QED
    BY <2>1, <2>2, <2>3, <2>5, BuildIndexTable
<1>. QED
  BY <1>3, <1>4

\* A lookup answers with a decision or with nothing.
LEMMA LookupType ==
    ASSUME NEW t \in Tables, NEW s
    PROVE  lookup(t, s) \in Decisions \cup {NoDecision}
  BY LookupLongest DEF Hits, Tables
=============================================================================
