-------------------------- MODULE LeaseTableProofs --------------------------
(***************************************************************************)
(* Lemmas about the operators of LeaseTable: what each of them makes of a  *)
(* list of leases, whatever the addresses, the stations and their number.  *)
(***************************************************************************)
EXTENDS LeaseTable, FiniteSetTheorems, SequenceTheorems, WellFoundedInduction, TLAPS

-----------------------------------------------------------------------------
(* 1. Sequences and places in them.                                        *)

\* A set of natural numbers that is not empty has a least element.
LEMMA MinFacts ==
  ASSUME NEW I, I \subseteq Nat, I # {}
  PROVE  Min(I) \in I /\ \A y \in I : Min(I) <= y
<1>1. PICK x \in I : \A y \in I : ~ (<<y, x>> \in OpToRel(<, Nat))
  BY NatLessThanWellFounded, WFMin
<1>2. \A y \in I : ~ (y < x)
  BY <1>1 DEF OpToRel
<1>3. \A y \in I : x <= y
  BY <1>2
<1> QED BY <1>3 DEF Min

\* So has a bounded one a greatest.
LEMMA MaxFacts ==
  ASSUME NEW n \in Nat, NEW I, I \subseteq 0 .. n, I # {}
  PROVE  Max(I) \in I /\ \A y \in I : y <= Max(I)
<1> DEFINE J == {j \in 0 .. n : n - j \in I}
<1>1. J \subseteq Nat /\ J # {}
  <2>1. PICK i \in I : TRUE
    OBVIOUS
  <2>2. n - i \in 0 .. n /\ n - (n - i) = i
    BY <2>1
  <2> QED BY <2>1, <2>2
<1>2. Min(J) \in J /\ \A y \in J : Min(J) <= y
  BY <1>1, MinFacts
<1>3. PICK j \in J : \A y \in J : j <= y
  BY <1>2
<1>4. \A y \in I : n - y \in J
  OBVIOUS
<1>5. n - j \in I /\ \A y \in I : y <= n - j
  BY <1>3, <1>4
<1>6. \E x \in I : \A y \in I : x >= y
  BY <1>5
<1> QED BY <1>6 DEF Max

\* Taking the element at i out of a sequence.
LEMMA RemoveAtFacts ==
  ASSUME NEW S, NEW s \in Seq(S), NEW i \in 1 .. Len(s)
  PROVE  /\ RemoveAt(s, i) \in Seq(S)
         /\ Len(RemoveAt(s, i)) = Len(s) - 1
         /\ \A j \in 1 .. Len(s) - 1 :
              RemoveAt(s, i)[j] = IF j < i THEN s[j] ELSE s[j + 1]
<1> DEFINE a == SubSeq(s, 1, i - 1)
           b == SubSeq(s, i + 1, Len(s))
           t == a \o b
<1>1. Len(s) \in Nat /\ \A j \in 1 .. Len(s) : s[j] \in S
  BY LenProperties, ElementOfSeq
<1>2. /\ a \in Seq(S) /\ Len(a) = i - 1 /\ \A j \in 1 .. i - 1 : a[j] = s[j]
  <2>1. \A j \in 1 .. i - 1 : s[j] \in S
    BY <1>1
  <2> QED BY <1>1, <2>1, SubSeqProperties
<1>3. /\ b \in Seq(S) /\ Len(b) = Len(s) - i
      /\ \A j \in 1 .. Len(s) - i : b[j] = s[i + j]
  <2>1. \A j \in i + 1 .. Len(s) : s[j] \in S
    BY <1>1
  <2> QED BY <1>1, <2>1, SubSeqProperties
<1> HIDE DEF a, b
<1>4. /\ t \in Seq(S) /\ Len(t) = Len(a) + Len(b)
      /\ \A j \in 1 .. Len(a) + Len(b) :
           t[j] = IF j <= Len(a) THEN a[j] ELSE b[j - Len(a)]
  BY <1>2, <1>3, ConcatProperties
<1>5. RemoveAt(s, i) = t
  BY DEF RemoveAt, a, b
<1> HIDE DEF t
<1>6. /\ Len(t) = Len(s) - 1
      /\ \A j \in 1 .. Len(s) - 1 : t[j] = IF j <= i - 1 THEN a[j] ELSE b[j - (i - 1)]
  <2>1. Len(a) + Len(b) = Len(s) - 1
    BY <1>1, <1>2, <1>3
  <2> QED BY <1>2, <1>4, <2>1
<1>7. ASSUME NEW j \in 1 .. Len(s) - 1 PROVE t[j] = IF j < i THEN s[j] ELSE s[j + 1]
  <2>1. CASE j < i
    <3>1. j \in 1 .. i - 1 /\ t[j] = a[j]
      BY <2>1, <1>1, <1>6
    <3> QED BY <3>1, <2>1, <1>2
  <2>2. CASE ~(j < i)
    <3>1. j - (i - 1) \in 1 .. Len(s) - i /\ i + (j - (i - 1)) = j + 1
      BY <2>2, <1>1
    <3>2. t[j] = b[j - (i - 1)]
      BY <2>2, <1>1, <1>6
    <3> QED BY <3>1, <3>2, <1>3, <2>2
  <2> QED BY <2>1, <2>2
<1> QED BY <1>4, <1>5, <1>6, <1>7

\* Putting an element at place i of a sequence.
LEMMA InsertAtFacts ==
  ASSUME NEW S, NEW s \in Seq(S), NEW i \in 1 .. Len(s), NEW e \in S
  PROVE  /\ InsertAt(s, i, e) \in Seq(S)
         /\ Len(InsertAt(s, i, e)) = Len(s) + 1
         /\ \A j \in 1 .. Len(s) + 1 :
              InsertAt(s, i, e)[j] = IF j < i THEN s[j] ELSE IF j = i THEN e ELSE s[j - 1]
<1> DEFINE a == SubSeq(s, 1, i - 1)
           u == Append(a, e)
           b == SubSeq(s, i, Len(s))
           t == u \o b
<1>1. Len(s) \in Nat /\ \A j \in 1 .. Len(s) : s[j] \in S
  BY LenProperties, ElementOfSeq
<1>2. /\ a \in Seq(S) /\ Len(a) = i - 1 /\ \A j \in 1 .. i - 1 : a[j] = s[j]
  <2>1. \A j \in 1 .. i - 1 : s[j] \in S
    BY <1>1
  <2> QED BY <1>1, <2>1, SubSeqProperties
<1>3. /\ b \in Seq(S) /\ Len(b) = Len(s) - i + 1
      /\ \A j \in 1 .. Len(s) - i + 1 : b[j] = s[i + j - 1]
  <2>1. \A j \in i .. Len(s) : s[j] \in S
    BY <1>1
  <2> QED BY <1>1, <2>1, SubSeqProperties
<1> HIDE DEF a, b
<1>4. /\ u \in Seq(S) /\ Len(u) = i /\ u[i] = e /\ \A j \in 1 .. i - 1 : u[j] = s[j]
  BY <1>2, AppendProperties
<1>5. a \o <<e>> = u
  BY <1>2, AppendIsConcat
<1>6. InsertAt(s, i, e) = (a \o <<e>>) \o b
  BY DEF InsertAt, a, b
<1> HIDE DEF u
<1>7. /\ t \in Seq(S) /\ Len(t) = Len(u) + Len(b)
      /\ \A j \in 1 .. Len(u) + Len(b) :
           t[j] = IF j <= Len(u) THEN u[j] ELSE b[j - Len(u)]
  BY <1>3, <1>4, ConcatProperties
<1>8. InsertAt(s, i, e) = t
  BY <1>5, <1>6
<1> HIDE DEF t
<1>9. ASSUME NEW j \in 1 .. Len(s) + 1
      PROVE  t[j] = IF j < i THEN s[j] ELSE IF j = i THEN e ELSE s[j - 1]
  <2>1. CASE j <= i
    BY <2>1, <1>1, <1>3, <1>4, <1>7
  <2>2. CASE ~(j <= i)
    <3>1. j - i \in 1 .. Len(s) - i + 1 /\ i + (j - i) - 1 = j - 1
      BY <2>2, <1>1
    <3>2. t[j] = b[j - i]
      BY <2>2, <1>1, <1>3, <1>4, <1>7
    <3> QED BY <3>1, <3>2, <1>3, <2>2
  <2> QED BY <2>1, <2>2
<1> QED BY <1>1, <1>3, <1>4, <1>7, <1>8, <1>9

-----------------------------------------------------------------------------
(* 2. Addresses and searches.                                              *)

\* Addresses and their order are numbers.
LEMMA AddrFacts ==
  /\ NETS \in Nat \ {0} /\ OCTET \in Nat \ {0} /\ DHCPS_LEASE_TIMER \in Nat \ {0}
  /\ Addr \subseteq Nat
  /\ \A ip \in Nat : ip % OCTET \in Nat /\ ip \div OCTET \in Nat /\ Raw(ip) \in Nat
<1>1. /\ NETS \in Nat \ {0} /\ OCTET \in Nat \ {0} /\ DHCPS_LEASE_TIMER \in Nat \ {0}
  BY LeaseConstants
<1>2. Addr \subseteq Nat
  BY DEF Addr
<1>3. ASSUME NEW ip \in Nat
      PROVE  ip % OCTET \in Nat /\ ip \div OCTET \in Nat /\ Raw(ip) \in Nat
  <2>1. ip % OCTET \in Nat
    BY <1>1
  <2>2. ip \div OCTET \in Nat
    BY <1>1
  <2>3. (ip % OCTET) * NETS \in Nat
    BY <1>1, <2>1
  <2> QED BY <2>1, <2>2, <2>3 DEF Raw
<1> QED BY <1>1, <1>2, <1>3

\* IPADDR_ANY is one of them.
LEMMA AnyInAddr == IPADDR_ANY \in Addr
<1>1. NETS * OCTET \in Nat /\ NETS * OCTET >= 1
  BY AddrFacts
<1> QED BY <1>1 DEF Addr, IPADDR_ANY, IPADDR_BROADCAST

\* Within one network the order of the code is that of the addresses.
LEMMA RawOrder ==
  ASSUME NEW a \in Nat, NEW b \in Nat, a \div OCTET = b \div OCTET
  PROVE  Raw(a) < Raw(b) <=> a < b
<1> DEFINE q == a \div OCTET
           x == a % OCTET
           y == b % OCTET
<1>1. /\ NETS \in Nat /\ NETS > 0 /\ q \in Nat /\ x \in Nat /\ y \in Nat
      /\ Raw(a) = x * NETS + q /\ Raw(b) = y * NETS + q
  BY AddrFacts DEF Raw
<1>2. a = OCTET * q + x /\ b = OCTET * q + y
  BY AddrFacts
<1>3. OCTET * q \in Nat
  BY AddrFacts, <1>1
<1> HIDE DEF q, x, y
<1>4. a < b <=> x < y
  BY <1>1, <1>2, <1>3
<1>5. x * NETS \in Nat /\ y * NETS \in Nat
  BY <1>1
<1>6. ASSUME NEW u \in Nat, NEW v \in Nat, u < v PROVE u * NETS < v * NETS
  <2>1. v = u + (v - u) /\ v - u \in Nat /\ v - u >= 1
    BY <1>6
  <2>2. v * NETS = u * NETS + (v - u) * NETS
    BY <1>1, <2>1
  <2>3. (v - u) * NETS >= NETS
    BY <1>1, <2>1
  <2> QED BY <1>1, <2>2, <2>3
<1>7. x * NETS < y * NETS <=> x < y
  BY <1>1, <1>5, <1>6
<1> QED BY <1>1, <1>4, <1>5, <1>7

\* FirstOf and LastOf find a client's lease, LastAt an address's, or 0.
LEMMA FirstOfFacts ==
  ASSUME NEW list \in Seq(Node), NEW m
  PROVE  /\ FirstOf(list, m) \in 0 .. Len(list)
         /\ FirstOf(list, m) # 0 => list[FirstOf(list, m)].mac = m
         /\ \A j \in 1 .. Len(list) : list[j].mac = m => FirstOf(list, m) \in 1 .. j
<1> DEFINE I == {j \in 1 .. Len(list) : list[j].mac = m}
<1>1. FirstOf(list, m) = IF I # {} THEN Min(I) ELSE 0
  BY DEF FirstOf, SelectInSeq
<1>2. Len(list) \in Nat
  BY LenProperties
<1>3. I \subseteq Nat
  OBVIOUS
<1>0. \A j : j \in I <=> j \in 1 .. Len(list) /\ list[j].mac = m
  OBVIOUS
<1> HIDE DEF I
<1>4. I # {} => Min(I) \in I /\ \A y \in I : Min(I) <= y
  BY <1>3, MinFacts
<1>5. CASE I = {}
  BY <1>1, <1>2, <1>0, <1>5
<1>6. CASE I # {}
  <2>1. FirstOf(list, m) \in I /\ \A y \in I : FirstOf(list, m) <= y
    BY <1>1, <1>4, <1>6
  <2> QED BY <1>2, <1>0, <2>1
<1> QED BY <1>5, <1>6

\* LastOf is the last place of a client in the list, 0 if it has none.
LEMMA LastOfFacts ==
  ASSUME NEW list \in Seq(Node), NEW m
  PROVE  /\ LastOf(list, m) \in 0 .. Len(list)
         /\ LastOf(list, m) # 0 => list[LastOf(list, m)].mac = m
         /\ \A j \in 1 .. Len(list) : list[j].mac = m => LastOf(list, m) # 0
<1> DEFINE I == {j \in 1 .. Len(list) : list[j].mac = m}
<1>1. LastOf(list, m) = IF I # {} THEN Max(I) ELSE 0
  BY DEF LastOf, SelectLastInSeq
<1>2. Len(list) \in Nat
  BY LenProperties
<1>3. I \subseteq 0 .. Len(list)
  BY <1>2
<1>0. \A j : j \in I <=> j \in 1 .. Len(list) /\ list[j].mac = m
  OBVIOUS
<1> HIDE DEF I
<1>4. I # {} => Max(I) \in I
  BY <1>2, <1>3, MaxFacts
<1>5. CASE I = {}
  BY <1>1, <1>2, <1>0, <1>5
<1>6. CASE I # {}
  <2>1. LastOf(list, m) \in I
    BY <1>1, <1>4, <1>6
  <2> QED BY <1>2, <1>0, <2>1
<1> QED BY <1>5, <1>6

\* LastAt is the last place of an address in the list, 0 if nobody has it.
LEMMA LastAtFacts ==
  ASSUME NEW list \in Seq(Node), NEW ip
  PROVE  /\ LastAt(list, ip) \in 0 .. Len(list)
         /\ LastAt(list, ip) # 0 => list[LastAt(list, ip)].ip = ip
         /\ \A j \in 1 .. Len(list) : list[j].ip = ip => LastAt(list, ip) # 0
<1> DEFINE I == {j \in 1 .. Len(list) : list[j].ip = ip}
<1>1. LastAt(list, ip) = IF I # {} THEN Max(I) ELSE 0
  BY DEF LastAt, SelectLastInSeq
<1>2. Len(list) \in Nat
  BY LenProperties
<1>3. I \subseteq 0 .. Len(list)
  BY <1>2
<1>0. \A j : j \in I <=> j \in 1 .. Len(list) /\ list[j].ip = ip
  OBVIOUS
<1> HIDE DEF I
<1>4. I # {} => Max(I) \in I
  BY <1>2, <1>3, MaxFacts
<1>5. CASE I = {}
  BY <1>1, <1>2, <1>0, <1>5
<1>6. CASE I # {}
  <2>1. LastAt(list, ip) \in I
    BY <1>1, <1>4, <1>6
  <2> QED BY <1>2, <1>0, <2>1
<1> QED BY <1>5, <1>6

\* LeaseOf finds a lease by client and address, or 0.
LEMMA LeaseOfFacts ==
  ASSUME NEW list \in Seq(Node), NEW m, NEW ip
  PROVE  /\ LeaseOf(list, m, ip) \in 0 .. Len(list)
         /\ LeaseOf(list, m, ip) # 0 => /\ list[LeaseOf(list, m, ip)].mac = m
                                        /\ list[LeaseOf(list, m, ip)].ip = ip
<1> DEFINE I == {j \in 1 .. Len(list) : list[j].mac = m /\ list[j].ip = ip}
<1>1. LeaseOf(list, m, ip) = IF I # {} THEN Min(I) ELSE 0
  BY DEF LeaseOf, SelectInSeq
<1>2. Len(list) \in Nat
  BY LenProperties
<1>3. I \subseteq Nat
  OBVIOUS
<1> HIDE DEF I
<1>4. I # {} => Min(I) \in I
  BY <1>3, MinFacts
<1> QED BY <1>1, <1>2, <1>4 DEF I

-----------------------------------------------------------------------------
(* 3. Well-formed lists.                                                   *)

UniqueMac(list) == \A i, j \in 1 .. Len(list) : list[i].mac = list[j].mac => i = j
UniqueIp(list) == \A i, j \in 1 .. Len(list) : list[i].ip = list[j].ip => i = j
SortedList(list) ==
  \A i, j \in 1 .. Len(list) : i < j => Raw(list[i].ip) <= Raw(list[j].ip)

\* A list of leases as the server keeps it.
GoodList(list) == list \in Seq(Node) /\ UniqueMac(list) /\ SortedList(list)

\* From address s on, in its network.
InNet(ip, s) == ip >= s /\ ip \div OCTET = s \div OCTET
AllInNet(list, s) == \A i \in 1 .. Len(list) : InNet(list[i].ip, s)

\* Client m has a lease of ip that did not lapse, and has w minutes left.
Holds(list, m, ip, w) ==
  \E i \in 1 .. Len(list) : /\ list[i].mac = m /\ list[i].ip = ip
                            /\ list[i].state = "ONLINE" /\ list[i].lease_timer >= w

\* The entries of new are entries of old, in the same order.
Embedded(new, old) ==
  \E f \in [1 .. Len(new) -> 1 .. Len(old)] :
    /\ \A j, k \in 1 .. Len(new) : j < k => f[j] < f[k]
    /\ \A j \in 1 .. Len(new) : new[j].ip = old[f[j]].ip /\ new[j].mac = old[f[j]].mac

\* The entries of a list of nodes.
LEMMA NodeFacts ==
  ASSUME NEW list \in Seq(Node)
  PROVE  /\ Len(list) \in Nat /\ DOMAIN list = 1 .. Len(list)
         /\ \A i \in 1 .. Len(list) :
              /\ list[i] \in Node /\ list[i].ip \in Addr /\ list[i].ip \in Nat
              /\ list[i].mac \in Mac /\ Raw(list[i].ip) \in Nat
              /\ list[i].lease_timer \in 1 .. DHCPS_LEASE_TIMER
<1>1. Len(list) \in Nat /\ DOMAIN list = 1 .. Len(list)
  BY LenProperties
<1>2. ASSUME NEW i \in 1 .. Len(list)
      PROVE  /\ list[i] \in Node /\ list[i].ip \in Addr /\ list[i].ip \in Nat
             /\ list[i].mac \in Mac /\ Raw(list[i].ip) \in Nat
             /\ list[i].lease_timer \in 1 .. DHCPS_LEASE_TIMER
  <2>1. list[i] \in Node
    BY ElementOfSeq
  <2>2. /\ list[i].ip \in Addr /\ list[i].mac \in Mac
        /\ list[i].lease_timer \in 1 .. DHCPS_LEASE_TIMER
    BY <2>1 DEF Node
  <2> QED BY <2>1, <2>2, AddrFacts
<1> QED BY <1>1, <1>2

\* The empty list is well-formed.
LEMMA EmptyFacts == GoodList(<<>>) /\ UniqueIp(<<>>) /\ \A s : AllInNet(<<>>, s)
<1>1. <<>> \in Seq(Node) /\ Len(<<>>) = 0
  BY EmptySeq
<1> QED BY <1>1 DEF GoodList, UniqueMac, SortedList, UniqueIp, AllInNet

\* A lease that lasts for the whole lease time lasts for any time up to it.
LEMMA HoldsLess ==
  ASSUME NEW list, GoodList(list), NEW m, NEW ip, Holds(list, m, ip, DHCPS_LEASE_TIMER),
         NEW w \in 0 .. DHCPS_LEASE_TIMER
  PROVE  Holds(list, m, ip, w)
<1>1. PICK i \in 1 .. Len(list) : /\ list[i].mac = m /\ list[i].ip = ip
                                  /\ list[i].state = "ONLINE"
                                  /\ list[i].lease_timer >= DHCPS_LEASE_TIMER
  BY DEF Holds
<1>2. list[i].lease_timer \in 1 .. DHCPS_LEASE_TIMER
  BY NodeFacts DEF GoodList
<1>3. list[i].lease_timer >= w
  <2>1. DHCPS_LEASE_TIMER \in Nat
    BY AddrFacts
  <2>2. list[i].lease_timer \in Nat /\ w \in Nat /\ w <= DHCPS_LEASE_TIMER
    BY <1>2, <2>1
  <2>3. ASSUME NEW a \in Nat, a >= DHCPS_LEASE_TIMER PROVE a >= w
    BY <2>1, <2>2, <2>3
  <2> QED BY <1>1, <2>2, <2>3
<1> QED BY <1>1, <1>3 DEF Holds

\* Leaving out entries keeps a list well-formed.
LEMMA EmbeddedFacts ==
  ASSUME NEW old, GoodList(old), NEW new \in Seq(Node), Embedded(new, old)
  PROVE  /\ GoodList(new)
         /\ UniqueIp(old) => UniqueIp(new)
         /\ \A s : AllInNet(old, s) => AllInNet(new, s)
<1>1. PICK f \in [1 .. Len(new) -> 1 .. Len(old)] :
        /\ \A j, k \in 1 .. Len(new) : j < k => f[j] < f[k]
        /\ \A j \in 1 .. Len(new) : new[j].ip = old[f[j]].ip /\ new[j].mac = old[f[j]].mac
  BY DEF Embedded
<1>2. Len(new) \in Nat /\ Len(old) \in Nat
  BY LenProperties DEF GoodList
<1>3. \A j, k \in 1 .. Len(new) : f[j] = f[k] => j = k
  <2>1. SUFFICES ASSUME NEW j \in 1 .. Len(new), NEW k \in 1 .. Len(new), f[j] = f[k], j # k
                 PROVE  FALSE
    OBVIOUS
  <2>2. f[j] \in 1 .. Len(old)
    OBVIOUS
  <2> QED BY <1>1, <1>2, <2>1, <2>2
<1>4. UniqueMac(new) /\ SortedList(new)
  <2>1. UniqueMac(new)
    <3>1. SUFFICES ASSUME NEW j \in 1 .. Len(new), NEW k \in 1 .. Len(new),
                          new[j].mac = new[k].mac
                   PROVE  j = k
      BY DEF UniqueMac
    <3>2. f[j] \in 1 .. Len(old) /\ f[k] \in 1 .. Len(old)
      OBVIOUS
    <3>3. old[f[j]].mac = old[f[k]].mac
      BY <1>1, <3>1
    <3>4. f[j] = f[k]
      BY <3>2, <3>3 DEF GoodList, UniqueMac
    <3> QED BY <1>3, <3>4
  <2>2. SortedList(new)
    BY <1>1 DEF SortedList, GoodList
  <2> QED BY <2>1, <2>2
<1>5. UniqueIp(old) => UniqueIp(new)
  BY <1>1, <1>3 DEF UniqueIp
<1>6. \A s : AllInNet(old, s) => AllInNet(new, s)
  BY <1>1 DEF AllInNet
<1> QED BY <1>4, <1>5, <1>6 DEF GoodList

\* There are no more leases than stations, and fewer if one has none.
LEMMA LengthBound ==
  ASSUME NEW list, GoodList(list), IsFiniteSet(Mac)
  PROVE  /\ Len(list) <= Cardinality(Mac)
         /\ \A m \in Mac : (\A i \in 1 .. Len(list) : list[i].mac # m)
                             => Len(list) < Cardinality(Mac)
<1> DEFINE f == [i \in 1 .. Len(list) |-> list[i].mac]
<1>1. /\ Len(list) \in Nat /\ Cardinality(Mac) \in Nat
      /\ \A i \in 1 .. Len(list) : list[i].mac \in Mac
  BY NodeFacts, FS_CardinalityType DEF GoodList
<1>2. f \in Injection(1 .. Len(list), Mac)
  BY <1>1 DEF Injection, IsInjective, GoodList, UniqueMac
<1>3. Cardinality(1 .. Len(list)) = Len(list)
  <2>1. PICK n \in Nat : n = Len(list)
    BY <1>1
  <2>2. Cardinality(1 .. n) = IF 1 > n THEN 0 ELSE n - 1 + 1
    BY FS_Interval
  <2> QED BY <2>1, <2>2
<1>4. /\ Cardinality(1 .. Len(list)) <= Cardinality(Mac)
      /\ Cardinality(1 .. Len(list)) = Cardinality(Mac) => f \in Surjection(1 .. Len(list), Mac)
  BY <1>2, FS_Injection
<1>5. ASSUME NEW m \in Mac, \A i \in 1 .. Len(list) : list[i].mac # m
      PROVE  f \notin Surjection(1 .. Len(list), Mac)
  BY <1>5 DEF Surjection
<1> QED BY <1>1, <1>3, <1>4, <1>5

-----------------------------------------------------------------------------
(* 4. Changes of the list.                                                 *)

\* node_insert_to_list puts the node between the lower and the greater ones.
LEMMA InsertFacts ==
  ASSUME NEW list \in Seq(Node), SortedList(list), NEW node \in Node
  PROVE  /\ Insert(list, node) \in Seq(Node)
         /\ Len(Insert(list, node)) = Len(list) + 1
         /\ \E p \in 1 .. Len(list) + 1 :
              /\ \A j \in 1 .. Len(list) + 1 :
                   Insert(list, node)[j] = IF j < p THEN list[j]
                                           ELSE IF j = p THEN node ELSE list[j - 1]
              /\ \A j \in 1 .. p - 1 : Raw(list[j].ip) <= Raw(node.ip)
              /\ \A j \in p .. Len(list) : Raw(node.ip) <= Raw(list[j].ip)
<1> DEFINE I == {j \in 1 .. Len(list) : Raw(node.ip) < Raw(list[j].ip)}
           i == IF I # {} THEN Min(I) ELSE 0
<1>1. Insert(list, node) = IF i = 0 THEN Append(list, node) ELSE InsertAt(list, i, node)
  BY DEF Insert, SelectInSeq
<1>2. /\ Len(list) \in Nat /\ Raw(node.ip) \in Nat
      /\ \A j \in 1 .. Len(list) : Raw(list[j].ip) \in Nat
  BY NodeFacts, AddrFacts DEF Node
<1>3. \A j : j \in I <=> j \in 1 .. Len(list) /\ Raw(node.ip) < Raw(list[j].ip)
  OBVIOUS
<1>4. I \subseteq Nat
  OBVIOUS
<1> HIDE DEF I
<1>5. CASE I = {}
  <2> DEFINE t == Append(list, node)
  <2>1. Insert(list, node) = t
    BY <1>1, <1>5
  <2>2. /\ t \in Seq(Node) /\ Len(t) = Len(list) + 1 /\ t[Len(list) + 1] = node
        /\ \A j \in 1 .. Len(list) : t[j] = list[j]
    BY AppendProperties
  <2> HIDE DEF t
  <2>3. \A j \in 1 .. Len(list) : Raw(list[j].ip) <= Raw(node.ip)
    BY <1>2, <1>3, <1>5
  <2> DEFINE p == Len(list) + 1
  <2>4. /\ p \in 1 .. Len(list) + 1
        /\ \A j \in 1 .. Len(list) + 1 : t[j] = IF j < p THEN list[j]
                                               ELSE IF j = p THEN node ELSE list[j - 1]
        /\ \A j \in 1 .. p - 1 : Raw(list[j].ip) <= Raw(node.ip)
        /\ \A j \in p .. Len(list) : Raw(node.ip) <= Raw(list[j].ip)
    BY <1>2, <2>2, <2>3
  <2> QED BY <2>1, <2>2, <2>4
<1>6. CASE I # {}
  <2>1. i \in I /\ \A y \in I : i <= y
    BY <1>4, <1>6, MinFacts
  <2>2. i \in 1 .. Len(list) /\ Raw(node.ip) < Raw(list[i].ip)
    BY <1>3, <2>1
  <2> HIDE DEF i
  <2>3. \A j \in 1 .. i - 1 : Raw(list[j].ip) <= Raw(node.ip)
    <3>1. SUFFICES ASSUME NEW j \in 1 .. i - 1 PROVE Raw(list[j].ip) <= Raw(node.ip)
      OBVIOUS
    <3>2. j \in 1 .. Len(list) /\ j < i
      BY <1>2, <2>2
    <3>3. j \notin I
      BY <2>1, <2>2, <3>2
    <3> QED BY <1>2, <1>3, <3>2, <3>3
  <2>4. \A j \in i .. Len(list) : Raw(node.ip) <= Raw(list[j].ip)
    <3>1. SUFFICES ASSUME NEW j \in i .. Len(list) PROVE Raw(list[i].ip) <= Raw(list[j].ip)
      BY <1>2, <2>2
    <3>2. CASE j = i
      BY <3>2, <1>2, <2>2
    <3>3. CASE i < j
      BY <3>3, <1>2, <2>2 DEF SortedList
    <3> QED BY <3>2, <3>3, <2>2, <1>2
  <2> DEFINE t == InsertAt(list, i, node)
  <2>5. Insert(list, node) = t
    BY <1>1, <2>2
  <2>6. /\ t \in Seq(Node) /\ Len(t) = Len(list) + 1
        /\ \A j \in 1 .. Len(list) + 1 :
             t[j] = IF j < i THEN list[j] ELSE IF j = i THEN node ELSE list[j - 1]
    <3>1. i \in 1 .. Len(list)
      BY <2>2
    <3> HIDE DEF t
    <3>2. t = InsertAt(list, i, node)
      BY DEF t
    <3> QED BY <3>1, <3>2, InsertAtFacts
  <2>7. i \in 1 .. Len(list) + 1
    BY <1>2, <2>2
  <2> HIDE DEF t
  <2> QED BY <2>3, <2>4, <2>5, <2>6, <2>7
<1> QED BY <1>5, <1>6

\* A lease put into the list for a client that has none.
LEMMA InsertKeeps ==
  ASSUME NEW list, GoodList(list), NEW node \in Node,
         \A i \in 1 .. Len(list) : list[i].mac # node.mac
  PROVE  /\ GoodList(Insert(list, node))
         /\ node.state = "ONLINE"
              => Holds(Insert(list, node), node.mac, node.ip, node.lease_timer)
         /\ \A n, a, w : Holds(list, n, a, w) => Holds(Insert(list, node), n, a, w)
         /\ UniqueIp(list) /\ (\A i \in 1 .. Len(list) : list[i].ip # node.ip)
              => UniqueIp(Insert(list, node))
         /\ \A s : AllInNet(list, s) /\ InNet(node.ip, s) => AllInNet(Insert(list, node), s)
<1> DEFINE t == Insert(list, node)
<1>1. /\ Len(list) \in Nat /\ Raw(node.ip) \in Nat
      /\ \A j \in 1 .. Len(list) : Raw(list[j].ip) \in Nat
  BY NodeFacts, AddrFacts DEF Node, GoodList
<1>2. PICK p \in 1 .. Len(list) + 1 :
        /\ t \in Seq(Node) /\ Len(t) = Len(list) + 1
        /\ \A j \in 1 .. Len(list) + 1 :
             t[j] = IF j < p THEN list[j] ELSE IF j = p THEN node ELSE list[j - 1]
        /\ \A j \in 1 .. p - 1 : Raw(list[j].ip) <= Raw(node.ip)
        /\ \A j \in p .. Len(list) : Raw(node.ip) <= Raw(list[j].ip)
  BY InsertFacts DEF GoodList
<1> HIDE DEF t
\* The place in list of the entry at place j of t.
<1> DEFINE old(j) == IF j < p THEN j ELSE j - 1
<1>3. ASSUME NEW j \in 1 .. Len(t), j # p
      PROVE  old(j) \in 1 .. Len(list) /\ t[j] = list[old(j)]
  BY <1>1, <1>2, <1>3
<1>4. p \in 1 .. Len(t) /\ t[p] = node
  BY <1>1, <1>2
<1>5. \A i \in 1 .. Len(list) : \E j \in 1 .. Len(t) : t[j] = list[i]
  <2>1. SUFFICES ASSUME NEW i \in 1 .. Len(list)
                 PROVE  \E j \in 1 .. Len(t) : t[j] = list[i]
    OBVIOUS
  <2>2. CASE i < p
    BY <2>2, <1>1, <1>2
  <2>3. CASE ~(i < p)
    <3>1. i + 1 \in 1 .. Len(t) /\ t[i + 1] = list[(i + 1) - 1] /\ (i + 1) - 1 = i
      BY <2>3, <1>1, <1>2
    <3> QED BY <3>1
  <2> QED BY <2>2, <2>3
<1>6. \A j, k \in 1 .. Len(t) : j # p /\ k # p /\ old(j) = old(k) => j = k
  BY <1>1, <1>2
<1>7. UniqueMac(t)
  <2>1. SUFFICES ASSUME NEW j \in 1 .. Len(t), NEW k \in 1 .. Len(t), t[j].mac = t[k].mac
                 PROVE  j = k
    BY DEF UniqueMac
  <2>2. CASE j = p \/ k = p
    BY <1>3, <1>4, <2>1, <2>2
  <2>3. CASE j # p /\ k # p
    <3>1. old(j) = old(k)
      BY <1>3, <2>1, <2>3 DEF GoodList, UniqueMac
    <3> QED BY <1>6, <2>3, <3>1
  <2> QED BY <2>2, <2>3
<1>8. SortedList(t)
  <2>1. SUFFICES ASSUME NEW j \in 1 .. Len(t), NEW k \in 1 .. Len(t), j < k
                 PROVE  Raw(t[j].ip) <= Raw(t[k].ip)
    BY DEF SortedList
  <2>2. CASE j = p
    <3>1. k # p /\ old(k) \in p .. Len(list) /\ t[k] = list[old(k)]
      BY <1>1, <1>2, <1>3, <2>1, <2>2
    <3> HIDE DEF old
    <3> QED BY <3>1, <1>2, <1>4, <2>2
  <2>3. CASE k = p
    <3>1. j # p /\ old(j) \in 1 .. p - 1 /\ t[j] = list[old(j)]
      BY <1>1, <1>2, <1>3, <2>1, <2>3
    <3> HIDE DEF old
    <3> QED BY <3>1, <1>2, <1>4, <2>3
  <2>4. CASE j # p /\ k # p
    <3>1. /\ old(j) \in 1 .. Len(list) /\ t[j] = list[old(j)]
          /\ old(k) \in 1 .. Len(list) /\ t[k] = list[old(k)]
      BY <1>3, <2>4
    <3>2. old(j) < old(k)
      BY <1>1, <1>2, <2>1, <2>4
    <3> HIDE DEF old
    <3> QED BY <3>1, <3>2 DEF GoodList, SortedList
  <2> QED BY <2>2, <2>3, <2>4
<1>9. node.state = "ONLINE" => Holds(t, node.mac, node.ip, node.lease_timer)
  <2>1. node.lease_timer \in 1 .. DHCPS_LEASE_TIMER
    BY DEF Node
  <2>2. node.lease_timer >= node.lease_timer
    <3>1. 1 .. DHCPS_LEASE_TIMER \subseteq Nat
      BY AddrFacts
    <3>2. \A w \in Nat : w >= w
      OBVIOUS
    <3> QED BY <2>1, <3>1, <3>2
  <2> QED BY <1>4, <2>2 DEF Holds
<1>10. \A n, a, w : Holds(list, n, a, w) => Holds(t, n, a, w)
  <2>1. SUFFICES ASSUME NEW n, NEW a, NEW w, Holds(list, n, a, w) PROVE Holds(t, n, a, w)
    OBVIOUS
  <2>2. PICK i \in 1 .. Len(list) :
          /\ list[i].mac = n /\ list[i].ip = a
          /\ list[i].state = "ONLINE" /\ list[i].lease_timer >= w
    BY <2>1 DEF Holds
  <2>3. PICK j \in 1 .. Len(t) : t[j] = list[i]
    BY <1>5
  <2> QED BY <2>2, <2>3 DEF Holds
<1>11. ASSUME UniqueIp(list), \A i \in 1 .. Len(list) : list[i].ip # node.ip
       PROVE  UniqueIp(t)
  <2>1. SUFFICES ASSUME NEW j \in 1 .. Len(t), NEW k \in 1 .. Len(t), t[j].ip = t[k].ip
                 PROVE  j = k
    BY DEF UniqueIp
  <2>2. /\ j # p => old(j) \in 1 .. Len(list) /\ t[j] = list[old(j)]
        /\ k # p => old(k) \in 1 .. Len(list) /\ t[k] = list[old(k)]
    BY <1>3
  <2>3. j # p /\ k # p => (old(j) = old(k) => j = k)
    BY <1>6
  <2> HIDE DEF old
  <2>4. CASE j = p \/ k = p
    BY <1>4, <1>11, <2>1, <2>2, <2>4
  <2>5. CASE j # p /\ k # p
    <3>1. list[old(j)].ip = list[old(k)].ip
      BY <2>1, <2>2, <2>5
    <3>2. old(j) = old(k)
      BY <1>11, <2>2, <2>5, <3>1 DEF UniqueIp
    <3> QED BY <2>3, <2>5, <3>2
  <2> QED BY <2>4, <2>5
<1>12. ASSUME NEW s, AllInNet(list, s), InNet(node.ip, s) PROVE AllInNet(t, s)
  <2>1. SUFFICES ASSUME NEW j \in 1 .. Len(t) PROVE InNet(t[j].ip, s)
    BY DEF AllInNet
  <2>2. CASE j = p
    BY <1>4, <1>12, <2>2
  <2>3. CASE j # p
    BY <1>3, <1>12, <2>3 DEF AllInNet
  <2> QED BY <2>2, <2>3
<1>13. t \in Seq(Node)
  BY <1>2
<1> QED BY <1>7, <1>8, <1>9, <1>10, <1>11, <1>12, <1>13 DEF GoodList, t

\* A lease taken out of the list.
LEMMA RemoveKeeps ==
  ASSUME NEW list, GoodList(list), NEW i \in 1 .. Len(list)
  PROVE  /\ GoodList(RemoveAt(list, i))
         /\ Len(RemoveAt(list, i)) = Len(list) - 1
         /\ \A j \in 1 .. Len(RemoveAt(list, i)) : RemoveAt(list, i)[j].mac # list[i].mac
         /\ \A j \in 1 .. Len(RemoveAt(list, i)) :
              \E k \in 1 .. Len(list) : k # i /\ RemoveAt(list, i)[j] = list[k]
         /\ \A n, a, w : n # list[i].mac /\ Holds(list, n, a, w) => Holds(RemoveAt(list, i), n, a, w)
         /\ UniqueIp(list) => UniqueIp(RemoveAt(list, i))
         /\ \A s : AllInNet(list, s) => AllInNet(RemoveAt(list, i), s)
<1> DEFINE t == RemoveAt(list, i)
<1>1. Len(list) \in Nat /\ i \in 1 .. Len(list)
  BY NodeFacts DEF GoodList
<1>2. /\ t \in Seq(Node) /\ Len(t) = Len(list) - 1
      /\ \A j \in 1 .. Len(list) - 1 : t[j] = IF j < i THEN list[j] ELSE list[j + 1]
  BY RemoveAtFacts DEF GoodList
<1> HIDE DEF t
<1> DEFINE f == [j \in 1 .. Len(t) |-> IF j < i THEN j ELSE j + 1]
<1>3. /\ f \in [1 .. Len(t) -> 1 .. Len(list)]
      /\ \A j, k \in 1 .. Len(t) : j < k => f[j] < f[k]
      /\ \A j \in 1 .. Len(t) : t[j] = list[f[j]] /\ f[j] # i
  BY <1>1, <1>2
<1>4. \A k \in 1 .. Len(list) : k # i => \E j \in 1 .. Len(t) : t[j] = list[k]
  <2>1. SUFFICES ASSUME NEW k \in 1 .. Len(list), k # i
                 PROVE  \E j \in 1 .. Len(t) : t[j] = list[k]
    OBVIOUS
  <2>2. CASE k < i
    BY <2>2, <1>1, <1>2
  <2>3. CASE ~(k < i)
    <3>1. k - 1 \in 1 .. Len(t) /\ t[k - 1] = list[(k - 1) + 1] /\ (k - 1) + 1 = k
      BY <2>1, <2>3, <1>1, <1>2
    <3> QED BY <3>1
  <2> QED BY <2>2, <2>3
<1> HIDE DEF f
<1>5. Embedded(t, list)
  BY <1>3 DEF Embedded
<1>6. /\ GoodList(t)
      /\ UniqueIp(list) => UniqueIp(t)
      /\ \A s : AllInNet(list, s) => AllInNet(t, s)
  BY <1>2, <1>5, EmbeddedFacts
<1>7. \A j \in 1 .. Len(t) : t[j].mac # list[i].mac
  BY <1>3 DEF GoodList, UniqueMac
<1>8. \A j \in 1 .. Len(t) : \E k \in 1 .. Len(list) : k # i /\ t[j] = list[k]
  BY <1>3
<1>9. ASSUME NEW n, NEW a, NEW w, n # list[i].mac, Holds(list, n, a, w) PROVE Holds(t, n, a, w)
  <2>1. PICK k \in 1 .. Len(list) :
          /\ list[k].mac = n /\ list[k].ip = a
          /\ list[k].state = "ONLINE" /\ list[k].lease_timer >= w
    BY <1>9 DEF Holds
  <2>2. PICK j \in 1 .. Len(t) : t[j] = list[k]
    BY <1>4, <1>9, <2>1
  <2> QED BY <2>1, <2>2 DEF Holds
<1>10. \A n, a, w : n # list[i].mac /\ Holds(list, n, a, w) => Holds(t, n, a, w)
  BY <1>9
<1>11. Len(t) = Len(list) - 1
  BY <1>2
<1> QED BY <1>6, <1>7, <1>8, <1>10, <1>11 DEF t

\* An entry replaced by one with the same address.
LEMMA ReplaceKeeps ==
  ASSUME NEW list, GoodList(list), NEW j \in 1 .. Len(list), NEW node \in Node,
         node.ip = list[j].ip,
         \A k \in 1 .. Len(list) : k # j => list[k].mac # node.mac
  PROVE  /\ GoodList([list EXCEPT ![j] = node])
         /\ Len([list EXCEPT ![j] = node]) = Len(list)
         /\ node.state = "ONLINE"
              => Holds([list EXCEPT ![j] = node], node.mac, node.ip, node.lease_timer)
         /\ \A n, a, w : /\ n # node.mac /\ (n # list[j].mac \/ list[j].state # "ONLINE")
                      /\ Holds(list, n, a, w)
                      => Holds([list EXCEPT ![j] = node], n, a, w)
         /\ UniqueIp(list) => UniqueIp([list EXCEPT ![j] = node])
         /\ \A s : AllInNet(list, s) => AllInNet([list EXCEPT ![j] = node], s)
<1> DEFINE t == [list EXCEPT ![j] = node]
<1>1. /\ t \in Seq(Node) /\ Len(t) = Len(list) /\ t[j] = node
      /\ \A k \in 1 .. Len(list) : k # j => t[k] = list[k]
  BY ExceptSeq DEF GoodList
<1> HIDE DEF t
<1>2. \A k \in 1 .. Len(list) : t[k].ip = list[k].ip
  BY <1>1
<1>3. UniqueMac(t) /\ SortedList(t)
  BY <1>1, <1>2 DEF GoodList, UniqueMac, SortedList
<1>4. GoodList(t)
  BY <1>1, <1>3 DEF GoodList
<1>5. node.state = "ONLINE" => Holds(t, node.mac, node.ip, node.lease_timer)
  <2>1. node.lease_timer \in 1 .. DHCPS_LEASE_TIMER
    BY DEF Node
  <2>2. node.lease_timer >= node.lease_timer
    <3>1. 1 .. DHCPS_LEASE_TIMER \subseteq Nat
      BY AddrFacts
    <3>2. \A w \in Nat : w >= w
      OBVIOUS
    <3> QED BY <2>1, <3>1, <3>2
  <2> QED BY <1>1, <2>2 DEF Holds
<1>6. ASSUME NEW n, NEW a, NEW w, n # node.mac, n # list[j].mac \/ list[j].state # "ONLINE",
             Holds(list, n, a, w)
      PROVE  Holds(t, n, a, w)
  BY <1>1, <1>6 DEF Holds
<1>7. \A n, a, w : /\ n # node.mac /\ (n # list[j].mac \/ list[j].state # "ONLINE")
                /\ Holds(list, n, a, w)
                => Holds(t, n, a, w)
  BY <1>6
<1>8. UniqueIp(list) => UniqueIp(t)
  BY <1>1, <1>2 DEF UniqueIp
<1>9. \A s : AllInNet(list, s) => AllInNet(t, s)
  BY <1>1, <1>2 DEF AllInNet
<1> QED BY <1>1, <1>4, <1>5, <1>7, <1>8, <1>9 DEF t

\* The nodes the table makes: a new lease is online, at full time.
LEMMA LeaseFacts ==
  ASSUME NEW m \in Mac, NEW ip \in Addr, NEW type \in {"DYNAMIC", "STATIC"}
  PROVE  /\ Lease(ip, m, type) \in Node
         /\ Lease(ip, m, type).ip = ip /\ Lease(ip, m, type).mac = m
         /\ Lease(ip, m, type).state = "ONLINE"
         /\ Lease(ip, m, type).lease_timer = DHCPS_LEASE_TIMER
BY AddrFacts DEF Lease, Node

\* A renewed lease keeps its address and client, and gets the full time.
LEMMA RenewedFacts ==
  ASSUME NEW node \in Node, NEW type \in {"DYNAMIC", "STATIC"}
  PROVE  /\ Renewed(node, type) \in Node
         /\ Renewed(node, type).ip = node.ip /\ Renewed(node, type).mac = node.mac
         /\ Renewed(node, type).state = "ONLINE"
         /\ Renewed(node, type).lease_timer = DHCPS_LEASE_TIMER
<1>1. DHCPS_LEASE_TIMER \in 1 .. DHCPS_LEASE_TIMER
  BY AddrFacts
<1> QED BY <1>1 DEF Renewed, Node

\* A lease renewed at another address keeps its client.
LEMMA MovedFacts ==
  ASSUME NEW node \in Node, NEW ip \in Addr, NEW type \in {"DYNAMIC", "STATIC"}
  PROVE  /\ Renewed([node EXCEPT !.ip = ip], type) \in Node
         /\ Renewed([node EXCEPT !.ip = ip], type).ip = ip
         /\ Renewed([node EXCEPT !.ip = ip], type).mac = node.mac
         /\ Renewed([node EXCEPT !.ip = ip], type).state = "ONLINE"
         /\ Renewed([node EXCEPT !.ip = ip], type).lease_timer = DHCPS_LEASE_TIMER
<1> DEFINE moved == [node EXCEPT !.ip = ip]
<1>1. moved \in Node /\ moved.ip = ip /\ moved.mac = node.mac
  BY DEF Node
<1> HIDE DEF moved
<1>2. /\ Renewed(moved, type) \in Node /\ Renewed(moved, type).ip = ip
      /\ Renewed(moved, type).mac = node.mac /\ Renewed(moved, type).state = "ONLINE"
      /\ Renewed(moved, type).lease_timer = DHCPS_LEASE_TIMER
  BY <1>1, RenewedFacts
<1> QED BY <1>2 DEF moved

\* A lease gone offline keeps its address and client.
LEMMA OfflineFacts ==
  ASSUME NEW node \in Node
  PROVE  /\ [node EXCEPT !.state = "OFFLINE"] \in Node
         /\ [node EXCEPT !.state = "OFFLINE"].ip = node.ip
         /\ [node EXCEPT !.state = "OFFLINE"].mac = node.mac
         /\ [node EXCEPT !.state = "OFFLINE"].state = "OFFLINE"
BY DEF Node

\* What the table does for client m, who is granted ip, and for the others.
Grants(new, list, m, ip) ==
  /\ GoodList(new)
  /\ Holds(new, m, ip, DHCPS_LEASE_TIMER)
  /\ \A n, a, w : n # m /\ Holds(list, n, a, w) => Holds(new, n, a, w)

\* The addresses stay apart, and in the network of s from s on.
StaysApart(new, list, ip) ==
  UniqueIp(list) => /\ UniqueIp(new)
                    /\ \A s : AllInNet(list, s) /\ InNet(ip, s) => AllInNet(new, s)

\* A known client's node moves to another address, that no one else has.
LEMMA MoveKeeps ==
  ASSUME NEW list, GoodList(list), NEW i \in 1 .. Len(list), NEW ip \in Addr,
         NEW type \in {"DYNAMIC", "STATIC"}
  PROVE  /\ Grants(Move(list, i, ip, type), list, list[i].mac, ip)
         /\ (\A k \in 1 .. Len(list) : list[k].ip = ip => k = i)
              => StaysApart(Move(list, i, ip, type), list, ip)
<1> DEFINE t == RemoveAt(list, i)
           node == Renewed([list[i] EXCEPT !.ip = ip], type)
           m == list[i].mac
<1>1. list[i] \in Node /\ m \in Mac
  BY NodeFacts DEF GoodList
<1>2. /\ node \in Node /\ node.ip = ip /\ node.mac = m
      /\ node.state = "ONLINE" /\ node.lease_timer = DHCPS_LEASE_TIMER
  BY <1>1, MovedFacts
<1>3. /\ GoodList(t)
      /\ \A j \in 1 .. Len(t) : t[j].mac # m
      /\ \A j \in 1 .. Len(t) : \E k \in 1 .. Len(list) : k # i /\ t[j] = list[k]
      /\ \A n, a, w : n # m /\ Holds(list, n, a, w) => Holds(t, n, a, w)
      /\ UniqueIp(list) => UniqueIp(t)
      /\ \A s : AllInNet(list, s) => AllInNet(t, s)
  BY RemoveKeeps
<1>4. Move(list, i, ip, type) = Insert(t, node)
  BY DEF Move
<1> HIDE DEF t, node, m
<1>5. /\ GoodList(Insert(t, node))
      /\ node.state = "ONLINE" => Holds(Insert(t, node), node.mac, node.ip, node.lease_timer)
      /\ \A n, a, w : Holds(t, n, a, w) => Holds(Insert(t, node), n, a, w)
      /\ UniqueIp(t) /\ (\A j \in 1 .. Len(t) : t[j].ip # node.ip)
           => UniqueIp(Insert(t, node))
      /\ \A s : AllInNet(t, s) /\ InNet(node.ip, s) => AllInNet(Insert(t, node), s)
  BY <1>2, <1>3, InsertKeeps
<1> DEFINE new == Insert(t, node)
<1> HIDE DEF new
<1>6. Grants(new, list, m, ip)
  BY <1>2, <1>3, <1>5 DEF Grants, new
<1>7. ASSUME \A k \in 1 .. Len(list) : list[k].ip = ip => k = i
      PROVE  StaysApart(new, list, ip)
  <2>1. \A j \in 1 .. Len(t) : t[j].ip # ip
    BY <1>3, <1>7
  <2> QED BY <1>2, <1>3, <1>5, <2>1 DEF StaysApart, new
<1> QED BY <1>4, <1>6, <1>7 DEF new, m

\* A client without a lease gets one, for an address no one has.
LEMMA AddKeeps ==
  ASSUME NEW list, GoodList(list), NEW m \in Mac, NEW ip \in Addr,
         NEW type \in {"DYNAMIC", "STATIC"},
         \A i \in 1 .. Len(list) : list[i].mac # m
  PROVE  /\ Grants(Insert(list, Lease(ip, m, type)), list, m, ip)
         /\ (\A k \in 1 .. Len(list) : list[k].ip # ip)
              => StaysApart(Insert(list, Lease(ip, m, type)), list, ip)
<1> DEFINE node == Lease(ip, m, type)
<1>1. /\ node \in Node /\ node.ip = ip /\ node.mac = m
      /\ node.state = "ONLINE" /\ node.lease_timer = DHCPS_LEASE_TIMER
  BY LeaseFacts
<1> HIDE DEF node
<1>2. /\ GoodList(Insert(list, node))
      /\ node.state = "ONLINE" => Holds(Insert(list, node), node.mac, node.ip, node.lease_timer)
      /\ \A n, a, w : Holds(list, n, a, w) => Holds(Insert(list, node), n, a, w)
      /\ UniqueIp(list) /\ (\A i \in 1 .. Len(list) : list[i].ip # node.ip)
           => UniqueIp(Insert(list, node))
      /\ \A s : AllInNet(list, s) /\ InNet(node.ip, s) => AllInNet(Insert(list, node), s)
  BY <1>1, InsertKeeps
<1> DEFINE new == Insert(list, node)
<1> HIDE DEF new
<1>3. Grants(new, list, m, ip)
  BY <1>1, <1>2 DEF Grants, new
<1>4. (\A k \in 1 .. Len(list) : list[k].ip # ip) => StaysApart(new, list, ip)
  BY <1>1, <1>2 DEF StaysApart, new
<1> QED BY <1>3, <1>4 DEF new, node

\* The lease of an address whose client left goes to client m, whose own lease,
\* if it has one at i, goes.
LEMMA TakeOverKeeps ==
  ASSUME NEW list, GoodList(list), NEW j \in 1 .. Len(list), list[j].state # "ONLINE",
         NEW m \in Mac, NEW i \in 0 .. Len(list), i # j,
         i = 0 => \A k \in 1 .. Len(list) : list[k].mac # m,
         i # 0 => list[i].mac = m,
         NEW ip, ip = list[j].ip,
         NEW taken, taken = [list EXCEPT ![j] = Lease(ip, m, "STATIC")],
         NEW new, new = IF i = 0 THEN taken ELSE RemoveAt(taken, i)
  PROVE  Grants(new, list, m, ip) /\ StaysApart(new, list, ip)
<1> DEFINE node == Lease(ip, m, "STATIC")
<1>1. /\ Len(list) \in Nat /\ list[j] \in Node /\ ip \in Addr
      /\ list \in Seq(Node)
  BY NodeFacts DEF GoodList
<1>2. /\ node \in Node /\ node.ip = ip /\ node.mac = m
      /\ node.state = "ONLINE" /\ node.lease_timer = DHCPS_LEASE_TIMER
  BY <1>1, LeaseFacts
<1>3. taken = [list EXCEPT ![j] = node]
  OBVIOUS
<1> HIDE DEF node
<1>4. CASE i = 0
  <2> DEFINE t == [list EXCEPT ![j] = node]
  <2>1. /\ GoodList(t)
        /\ node.state = "ONLINE" => Holds(t, node.mac, node.ip, node.lease_timer)
        /\ \A n, a, w : /\ n # node.mac /\ (n # list[j].mac \/ list[j].state # "ONLINE")
                     /\ Holds(list, n, a, w)
                     => Holds(t, n, a, w)
        /\ UniqueIp(list) => UniqueIp(t)
        /\ \A s : AllInNet(list, s) => AllInNet(t, s)
    BY <1>2, <1>4, ReplaceKeeps
  <2>2. new = t
    BY <1>3, <1>4
  <2> HIDE DEF t
  <2> QED BY <1>2, <2>1, <2>2 DEF Grants, StaysApart
<1>5. CASE i # 0
  <2> DEFINE u == RemoveAt(list, i)
             place == IF j < i THEN j ELSE j - 1
  <2>1. i \in 1 .. Len(list) /\ list[i].mac = m
    BY <1>5
  <2>2. /\ u \in Seq(Node) /\ Len(u) = Len(list) - 1
        /\ \A k \in 1 .. Len(list) - 1 : u[k] = IF k < i THEN list[k] ELSE list[k + 1]
    BY <1>1, <2>1, RemoveAtFacts
  <2>3. /\ GoodList(u)
        /\ \A k \in 1 .. Len(u) : u[k].mac # m
        /\ \A n, a, w : n # m /\ Holds(list, n, a, w) => Holds(u, n, a, w)
        /\ UniqueIp(list) => UniqueIp(u)
        /\ \A s : AllInNet(list, s) => AllInNet(u, s)
    BY <2>1, RemoveKeeps
  <2> HIDE DEF u
  <2>4. place \in 1 .. Len(u) /\ u[place] = list[j]
    <3>1. CASE j < i
      <4>1. j \in 1 .. Len(list) - 1 /\ place = j
        BY <1>1, <2>1, <3>1
      <4> QED BY <2>2, <3>1, <4>1
    <3>2. CASE ~(j < i)
      <4>1. j - 1 \in 1 .. Len(list) - 1 /\ place = j - 1 /\ j - 1 + 1 = j /\ ~(j - 1 < i)
        BY <1>1, <2>1, <3>2
      <4> QED BY <2>2, <4>1
    <3> QED BY <3>1, <3>2
  <2>5. PICK p \in 1 .. Len(u) : p = place
    BY <2>4
  <2> DEFINE t == [u EXCEPT ![p] = node]
  <2>6. /\ GoodList(t)
        /\ node.state = "ONLINE" => Holds(t, node.mac, node.ip, node.lease_timer)
        /\ \A n, a, w : /\ n # node.mac /\ (n # u[p].mac \/ u[p].state # "ONLINE")
                     /\ Holds(u, n, a, w)
                     => Holds(t, n, a, w)
        /\ UniqueIp(u) => UniqueIp(t)
        /\ \A s : AllInNet(u, s) => AllInNet(t, s)
    <3>1. node.ip = u[p].ip
      BY <1>2, <2>4, <2>5
    <3>2. \A k \in 1 .. Len(u) : k # p => u[k].mac # node.mac
      BY <1>2, <2>3
    <3> HIDE DEF t
    <3> QED BY <1>2, <2>3, <3>1, <3>2, ReplaceKeeps DEF t
  <2>7. new = t
    <3>1. /\ taken \in Seq(Node) /\ Len(taken) = Len(list)
          /\ \A k \in 1 .. Len(list) : taken[k] = IF k = j THEN node ELSE list[k]
      BY <1>1, <1>2, <1>3, ExceptSeq
    <3>2. /\ t \in Seq(Node) /\ Len(t) = Len(u)
          /\ \A k \in 1 .. Len(u) : t[k] = IF k = p THEN node ELSE u[k]
      BY <1>2, <2>2, <2>5, ExceptSeq
    <3>3. new = RemoveAt(taken, i) /\ i \in 1 .. Len(taken)
      BY <1>5, <2>1, <3>1
    <3>4. /\ new \in Seq(Node) /\ Len(new) = Len(list) - 1
          /\ \A k \in 1 .. Len(list) - 1 : new[k] = IF k < i THEN taken[k] ELSE taken[k + 1]
      <4> DEFINE r == RemoveAt(taken, i)
      <4>1. /\ r \in Seq(Node) /\ Len(r) = Len(taken) - 1
            /\ \A k \in 1 .. Len(taken) - 1 : r[k] = IF k < i THEN taken[k] ELSE taken[k + 1]
        <5>1. taken \in Seq(Node)
          BY <3>1
        <5>2. i \in 1 .. Len(taken)
          BY <3>3
        <5> QED BY ONLY <5>1, <5>2, RemoveAtFacts
      <4>2. r = new
        BY <3>3
      <4> HIDE DEF r
      <4> QED BY <3>1, <4>1, <4>2
    <3> HIDE DEF t
    <3>5. p = IF j < i THEN j ELSE j - 1
      BY <2>5
    <3>6. j \in Int /\ i \in Int /\ p \in Int
      BY <1>1, <2>1, <2>2, <2>5
    <3> HIDE DEF place
    <3>7. ASSUME NEW k \in 1 .. Len(list) - 1 PROVE new[k] = t[k]
      <4>1. k \in 1 .. Len(list) /\ k + 1 \in 1 .. Len(list) /\ k \in 1 .. Len(u)
        BY <1>1, <2>2
      <4>2. CASE k < i
        <5>1. new[k] = IF k = j THEN node ELSE list[k]
          BY <3>1, <3>4, <4>1, <4>2
        <5>2. t[k] = IF k = p THEN node ELSE list[k]
          BY <2>2, <3>2, <4>1, <4>2
        <5>3. k = j <=> k = p
          BY <3>5, <3>6, <4>2
        <5> QED BY <5>1, <5>2, <5>3
      <4>3. CASE ~(k < i)
        <5>1. new[k] = IF k + 1 = j THEN node ELSE list[k + 1]
          BY <3>1, <3>4, <4>1, <4>3
        <5>2. t[k] = IF k = p THEN node ELSE list[k + 1]
          BY <2>2, <3>2, <4>1, <4>3
        <5>3. k + 1 = j <=> k = p
          BY <3>5, <3>6, <4>3
        <5> QED BY <5>1, <5>2, <5>3
      <4> QED BY <4>2, <4>3
    <3>8. Len(new) = Len(t) /\ Len(t) = Len(list) - 1
      BY <2>2, <3>2, <3>4
    <3>9. \A k \in 1 .. Len(t) : new[k] = t[k]
      BY <3>7, <3>8
    <3>10. new \in Seq(Node) /\ t \in Seq(Node)
      BY <3>2, <3>4
    <3> HIDE DEF u, node
    <3> QED BY <3>8, <3>9, <3>10, SeqEqual
  <2> HIDE DEF t
  <2>8. u[p].state # "ONLINE"
    BY <2>4, <2>5
  <2> QED BY <1>2, <2>3, <2>6, <2>7, <2>8 DEF Grants, StaysApart
<1> QED BY <1>4, <1>5

-----------------------------------------------------------------------------
(* 5. The address a client without one is given.                           *)

\* A range may start here: counting up for every station stays below the end.
GoodStart(start) ==
  start \in Addr /\ start # IPADDR_ANY /\ start + Cardinality(Mac) <= IPADDR_BROADCAST

\* Where the walk for a free address stops: at m's own node, or at the end.
WalkEnd(list, m) == IF FirstOf(list, m) = 0 THEN Len(list) ELSE FirstOf(list, m) - 1

\* The first k leases, and no more before last, have the addresses from start on.
FullUpTo(list, start, k, last) ==
  /\ \A i \in 1 .. k : list[i].ip = start + i - 1
  /\ k < last => list[k + 1].ip # start + k

\* The octets above the last of an address grow with it.
LEMMA DivMono ==
  ASSUME NEW a \in Nat, NEW b \in Nat, a <= b
  PROVE  a \div OCTET <= b \div OCTET
<1>1. OCTET \in Nat \ {0}
  BY AddrFacts
<1> QED BY ONLY <1>1, a \in Nat, b \in Nat, a <= b, Z3

\* Between two addresses of one network lie only addresses of it.
LEMMA SameNet ==
  ASSUME NEW a \in Nat, NEW b \in Nat, NEW c \in Nat, a <= b, b <= c,
         a \div OCTET = c \div OCTET
  PROVE  b \div OCTET = a \div OCTET
<1>1. /\ a \div OCTET <= b \div OCTET /\ b \div OCTET <= c \div OCTET
  BY DivMono
<1>2. a \div OCTET \in Nat /\ b \div OCTET \in Nat /\ c \div OCTET \in Nat
  BY AddrFacts
<1> QED BY <1>1, <1>2

\* The walk finds a first address that is not at its place.
LEMMA CandidateFacts ==
  ASSUME NEW list \in Seq(Node), NEW start \in Nat, NEW m
  PROVE  /\ WalkEnd(list, m) \in 0 .. Len(list)
         /\ \E k \in 0 .. WalkEnd(list, m) :
              /\ Candidate(list, start, m) = start + k
              /\ FullUpTo(list, start, k, WalkEnd(list, m))
<1> DEFINE last == WalkEnd(list, m)
           InPlace(i) == list[i].ip = start + i - 1
           Stop(k) == (\A i \in 1 .. k : InPlace(i)) /\ (k < last => ~InPlace(k + 1))
           K == {k \in 0 .. last : k < last => ~InPlace(k + 1)}
<1>1. Len(list) \in Nat /\ FirstOf(list, m) \in 0 .. Len(list)
  BY NodeFacts, FirstOfFacts
<1>2. last \in Nat /\ last <= Len(list)
  BY <1>1 DEF WalkEnd
<1>3. Candidate(list, start, m) = start + (CHOOSE k \in 0 .. last : Stop(k))
  BY DEF Candidate, WalkEnd
<1> HIDE DEF last
<1>4. last \in K /\ K \subseteq Nat
  BY <1>2
<1>5. Min(K) \in K /\ \A k \in K : Min(K) <= k
  BY <1>4, MinFacts
<1>6. PICK k \in K : \A j \in K : k <= j
  BY <1>5
<1>7. \A i \in 1 .. k : InPlace(i)
  <2>1. SUFFICES ASSUME NEW i \in 1 .. k, ~InPlace(i) PROVE FALSE
    OBVIOUS
  <2>2. i - 1 \in 0 .. last /\ (i - 1) + 1 = i /\ k \in Nat
    BY <1>2
  <2>3. i - 1 \in K
    BY <2>1, <2>2
  <2> QED BY <1>6, <2>2, <2>3
<1>8. \E n \in 0 .. last : Stop(n)
  BY <1>7
<1> DEFINE end == CHOOSE n \in 0 .. last : Stop(n)
<1>9. end \in 0 .. last /\ Stop(end)
  BY <1>8
<1>10. PICK n \in 0 .. last : Stop(n) /\ Candidate(list, start, m) = start + n
  BY <1>3, <1>9
<1>11. FullUpTo(list, start, n, last)
  <2>1. n < last => list[n + 1].ip # start + n
    BY <1>2, <1>10
  <2> QED BY <1>10, <2>1 DEF FullUpTo
<1> QED BY <1>2, <1>10, <1>11 DEF last

\* It counts up by less than the number of stations, so it does not wrap.
LEMMA CandidateInAddr ==
  ASSUME NEW list, GoodList(list), IsFiniteSet(Mac), NEW start, GoodStart(start), NEW m \in Mac
  PROVE  /\ Candidate(list, start, m) \in Addr \ {IPADDR_ANY, IPADDR_BROADCAST}
         /\ Candidate(list, start, m) >= start
         /\ Candidate(list, start, m) <= start + Cardinality(Mac) - 1
<1>1. list \in Seq(Node) /\ start \in Nat /\ start > 0
  BY AddrFacts DEF GoodList, GoodStart, IPADDR_ANY
<1>2. /\ WalkEnd(list, m) \in 0 .. Len(list)
      /\ \E k \in 0 .. WalkEnd(list, m) : Candidate(list, start, m) = start + k
  BY <1>1, CandidateFacts
<1>3. WalkEnd(list, m) < Cardinality(Mac) /\ Cardinality(Mac) \in Nat
  <2>1. /\ Len(list) <= Cardinality(Mac) /\ Cardinality(Mac) \in Nat /\ Len(list) \in Nat
        /\ (\A i \in 1 .. Len(list) : list[i].mac # m) => Len(list) < Cardinality(Mac)
    BY <1>1, LengthBound, FS_CardinalityType, NodeFacts
  <2>2. CASE FirstOf(list, m) = 0
    <3>1. \A i \in 1 .. Len(list) : list[i].mac # m
      BY <1>1, <2>2, FirstOfFacts
    <3> QED BY <2>1, <2>2, <3>1 DEF WalkEnd
  <2>3. CASE FirstOf(list, m) # 0
    BY <1>1, <2>1, <2>3, FirstOfFacts DEF WalkEnd
  <2> QED BY <2>2, <2>3
<1>4. PICK k \in 0 .. Cardinality(Mac) - 1 : Candidate(list, start, m) = start + k
  BY <1>2, <1>3
<1>5. NETS * OCTET \in Nat /\ start + Cardinality(Mac) <= NETS * OCTET - 1
  BY AddrFacts DEF GoodStart, IPADDR_BROADCAST
<1> QED BY <1>1, <1>3, <1>4, <1>5 DEF Addr, IPADDR_ANY, IPADDR_BROADCAST

\* In a list of distinct addresses of one network, from start on, the address
\* it finds is free, or the client's own.
LEMMA CandidateFree ==
  ASSUME NEW list, GoodList(list), NEW start \in Nat, AllInNet(list, start), UniqueIp(list),
         NEW m, NEW i \in 1 .. Len(list), list[i].ip = Candidate(list, start, m)
  PROVE  FirstOf(list, m) # 0 /\ i = FirstOf(list, m)
<1>1. list \in Seq(Node) /\ Len(list) \in Nat /\ \A j \in 1 .. Len(list) : list[j].ip \in Nat
  BY NodeFacts DEF GoodList
<1>2. PICK k \in 0 .. WalkEnd(list, m) :
        /\ Candidate(list, start, m) = start + k
        /\ FullUpTo(list, start, k, WalkEnd(list, m))
  BY <1>1, CandidateFacts
<1>3. WalkEnd(list, m) \in 0 .. Len(list) /\ FirstOf(list, m) \in 0 .. Len(list)
  BY <1>1, CandidateFacts, FirstOfFacts
<1>4. \A j \in 1 .. k : list[j].ip = start + j - 1
  BY <1>2 DEF FullUpTo
<1>5. \A j \in 1 .. Len(list) : list[j].ip >= start
  BY DEF AllInNet, InNet
<1>6. ASSUME NEW j \in 1 .. Len(list), NEW n \in 1 .. Len(list), j < n
      PROVE  list[j].ip < list[n].ip
  <2>1. Raw(list[j].ip) <= Raw(list[n].ip) /\ list[j].ip # list[n].ip
    BY <1>6, <1>1 DEF GoodList, SortedList, UniqueIp
  <2>2. list[j].ip \div OCTET = list[n].ip \div OCTET
    BY DEF AllInNet, InNet
  <2>3. Raw(list[n].ip) < Raw(list[j].ip) <=> list[n].ip < list[j].ip
    BY <1>1, <2>2, RawOrder
  <2>4. Raw(list[n].ip) \in Nat /\ Raw(list[j].ip) \in Nat
    BY <1>1, AddrFacts
  <2> QED BY <1>1, <2>1, <2>3, <2>4
<1>7. k < i
  <2>1. SUFFICES ASSUME i <= k PROVE FALSE
    BY <1>3
  <2>2. list[i].ip = start + i - 1
    BY <1>4, <2>1
  <2> QED BY <1>2, <1>3, <2>1, <2>2
<1>8. k + 1 \in 1 .. Len(list) /\ list[k + 1].ip >= start + k
  <2>1. k + 1 \in 1 .. Len(list)
    BY <1>3, <1>7
  <2>2. CASE k = 0
    BY <1>5, <2>1, <2>2
  <2>3. CASE k # 0
    <3>1. k \in 1 .. Len(list) /\ k \in 1 .. k /\ k < k + 1
      BY <2>1, <2>3, <1>3
    <3>2. list[k].ip = start + k - 1
      BY <1>4, <3>1
    <3>3. list[k].ip < list[k + 1].ip
      BY <1>6, <2>1, <3>1
    <3> QED BY <1>1, <2>1, <3>1, <3>2, <3>3
  <2> QED BY <2>1, <2>2, <2>3
<1>9. ~ (k + 1 < i)
  <2>1. SUFFICES ASSUME k + 1 < i PROVE FALSE
    OBVIOUS
  <2>2. list[k + 1].ip < list[i].ip
    BY <1>6, <1>8, <2>1
  <2>3. list[k + 1].ip \in Nat
    BY <1>1, <1>8
  <2> QED BY <1>2, <1>3, <1>8, <2>2, <2>3
<1>10. i = k + 1
  BY <1>3, <1>7, <1>9
<1>11. ~ (k < WalkEnd(list, m))
  BY <1>2, <1>10 DEF FullUpTo
<1>12. k = WalkEnd(list, m)
  BY <1>3, <1>11
<1> QED BY <1>1, <1>3, <1>10, <1>12 DEF WalkEnd

-----------------------------------------------------------------------------
(* 6. What a request makes of the table.                                   *)

\* The server answers m: it refuses and changes nothing, or grants an address.
Answers(u, list, m) ==
  /\ u.renew \in BOOLEAN /\ u.told \in BOOLEAN /\ u.result \in Addr
  /\ u.result = IPADDR_ANY => u.plist = list /\ ~u.told
  /\ u.result # IPADDR_ANY => u.told /\ Grants(u.plist, list, m, u.result)

\* A grant answers the request with the address and the list it made.
LEMMA GrantedFacts ==
  ASSUME NEW ip \in Addr \ {IPADDR_ANY}, NEW list, NEW m, NEW new, NEW renew \in BOOLEAN,
         Grants(new, list, m, ip)
  PROVE  Answers(Granted(ip, new, renew), list, m)
BY DEF Answers, Granted

\* A refusal changes no lease and names no address.
LEMMA RefusedFacts ==
  ASSUME NEW list, NEW m, NEW renew \in BOOLEAN
  PROVE  Answers(Refused(list, renew), list, m)
BY AnyInAddr DEF Answers, Refused

\* A client without an address is given one that is free, or refused.
LEMMA GiveFacts ==
  ASSUME NEW list, GoodList(list), IsFiniteSet(Mac), NEW range, GoodStart(range.start),
         NEW m \in Mac, NEW u, u = GiveAddress(list, range, m)
  PROVE  /\ Answers(u, list, m)
         /\ u.result = IPADDR_ANY
            \/ /\ u.result = Candidate(list, range.start, m)
               /\ AllInNet(list, range.start) /\ UniqueIp(list)
                    => StaysApart(u.plist, list, u.result)
<1> DEFINE i == FirstOf(list, m)
           ip == Candidate(list, range.start, m)
           new == IF i = 0 THEN Insert(list, Lease(ip, m, "DYNAMIC"))
                  ELSE Move(list, i, ip, "DYNAMIC")
<1>1. list \in Seq(Node) /\ range.start \in Nat
  BY AddrFacts DEF GoodList, GoodStart
<1>2. ip \in Addr \ {IPADDR_ANY}
  BY CandidateInAddr
<1>3. /\ i \in 0 .. Len(list)
      /\ i # 0 => i \in 1 .. Len(list) /\ list[i].mac = m
      /\ i = 0 => \A j \in 1 .. Len(list) : list[j].mac # m
  BY <1>1, FirstOfFacts, NodeFacts
<1>4. ASSUME AllInNet(list, range.start), UniqueIp(list)
      PROVE  \A k \in 1 .. Len(list) : list[k].ip = ip => i # 0 /\ k = i
  BY <1>1, <1>4, CandidateFree
<1>5. /\ Grants(new, list, m, ip)
      /\ AllInNet(list, range.start) /\ UniqueIp(list) => StaysApart(new, list, ip)
  <2>1. CASE i = 0
    <3>1. new = Insert(list, Lease(ip, m, "DYNAMIC"))
      BY <2>1
    <3> HIDE DEF new, ip
    <3> DEFINE added == Insert(list, Lease(ip, m, "DYNAMIC"))
    <3>2. /\ Grants(added, list, m, ip)
          /\ (\A k \in 1 .. Len(list) : list[k].ip # ip) => StaysApart(added, list, ip)
      BY <1>2, <1>3, <2>1, AddKeeps
    <3> HIDE DEF added
    <3>3. new = added
      BY <3>1 DEF added
    <3> QED BY <1>4, <2>1, <3>2, <3>3
  <2>2. CASE i # 0
    <3>1. new = Move(list, i, ip, "DYNAMIC")
      BY <2>2
    <3>2. i \in 1 .. Len(list) /\ list[i].mac = m
      BY <1>3, <2>2
    <3> HIDE DEF new, ip, i
    <3>3. /\ Grants(Move(list, i, ip, "DYNAMIC"), list, list[i].mac, ip)
          /\ (\A k \in 1 .. Len(list) : list[k].ip = ip => k = i)
               => StaysApart(Move(list, i, ip, "DYNAMIC"), list, ip)
      BY <1>2, <3>2, MoveKeeps
    <3> QED BY <1>4, <3>1, <3>2, <3>3
  <2> QED BY <2>1, <2>2
<1>6. u = IF i = 0 /\ Raw(ip) > Raw(range.end) THEN Refused(list, FALSE)
          ELSE Granted(ip, new, FALSE)
  BY DEF GiveAddress
<1> HIDE DEF new, ip, i
<1>7. CASE u = Refused(list, FALSE)
  <2>1. Answers(Refused(list, FALSE), list, m)
    BY RefusedFacts
  <2>2. u.result = IPADDR_ANY
    BY <1>7 DEF Refused
  <2> QED BY <1>7, <2>1, <2>2
<1>8. CASE u = Granted(ip, new, FALSE)
  <2>1. u.plist = new /\ u.result = ip
    BY <1>8 DEF Granted
  <2>2. Answers(Granted(ip, new, FALSE), list, m)
    BY <1>2, <1>5, GrantedFacts
  <2> QED BY <1>5, <1>8, <2>1, <2>2 DEF ip
<1> QED BY <1>6, <1>7, <1>8

\* It is refused only when every address of the range is leased.
LEMMA RefusedFull ==
  ASSUME NEW list, GoodList(list), IsFiniteSet(Mac), NEW range, GoodStart(range.start),
         range.end \in Addr, range.start \div OCTET = range.end \div OCTET,
         NEW m \in Mac, GiveAddress(list, range, m).result = IPADDR_ANY,
         NEW ip \in range.start .. range.end
  PROVE  \E i \in 1 .. Len(list) : list[i].ip = ip
<1>1. list \in Seq(Node) /\ range.start \in Nat /\ range.end \in Nat /\ Len(list) \in Nat
  BY AddrFacts, NodeFacts DEF GoodList, GoodStart
<1>2. PICK k \in 0 .. WalkEnd(list, m) :
        /\ Candidate(list, range.start, m) = range.start + k
        /\ FullUpTo(list, range.start, k, WalkEnd(list, m))
  BY <1>1, CandidateFacts
<1>3. WalkEnd(list, m) \in 0 .. Len(list)
  BY <1>1, CandidateFacts
<1>4. Candidate(list, range.start, m) # IPADDR_ANY
  BY CandidateInAddr
<1>5. Raw(range.start + k) > Raw(range.end)
  BY <1>2, <1>4 DEF GiveAddress, Granted
<1>6. range.start + k \in Nat /\ k \in Nat /\ k <= Len(list)
  BY <1>1, <1>3
<1>7. range.end < range.start + k
  <2>1. SUFFICES ASSUME range.start + k <= range.end PROVE FALSE
    BY <1>1, <1>6
  <2>2. range.start <= range.start + k
    BY <1>1, <1>6
  <2>3. (range.start + k) \div OCTET = range.end \div OCTET
    BY <1>1, <1>6, <2>1, <2>2, SameNet
  <2>4. Raw(range.start + k) < Raw(range.end) \/ range.start + k = range.end
    BY <1>1, <1>6, <2>1, <2>3, RawOrder
  <2>5. Raw(range.start + k) \in Nat /\ Raw(range.end) \in Nat
    BY <1>1, <1>6, AddrFacts
  <2> QED BY <1>5, <2>4, <2>5
<1>8. ip - range.start + 1 \in 1 .. k /\ range.start + (ip - range.start + 1) - 1 = ip
  BY <1>1, <1>6, <1>7
<1>9. list[ip - range.start + 1].ip = ip
  BY <1>2, <1>8 DEF FullUpTo
<1> QED BY <1>6, <1>8, <1>9

\* A client with an address keeps it, takes it over, or is refused.
LEMMA KeepFacts ==
  ASSUME NEW list, GoodList(list), NEW range, NEW m \in Mac,
         NEW ip \in Addr \ {IPADDR_ANY}, NEW u, u = KeepAddress(list, range, m, ip)
  PROVE  /\ Answers(u, list, m)
         /\ u.result = IPADDR_ANY \/ (u.result = ip /\ StaysApart(u.plist, list, ip))
<1> DEFINE i == LastOf(list, m)
           j == LastAt(list, ip)
           inUse == j # 0 /\ i # j /\ list[j].state # "OFFLINE"
           beyond == i = 0 /\ j = 0 /\ Raw(ip) > Raw(range.end)
           taken == [list EXCEPT ![j] = Lease(ip, m, "STATIC")]
<1>1. list \in Seq(Node) /\ Len(list) \in Nat
  BY NodeFacts DEF GoodList
<1>2. /\ i \in 0 .. Len(list) /\ j \in 0 .. Len(list)
      /\ i # 0 => i \in 1 .. Len(list) /\ list[i].mac = m
      /\ i = 0 => \A k \in 1 .. Len(list) : list[k].mac # m
      /\ j # 0 => j \in 1 .. Len(list) /\ list[j].ip = ip
      /\ j = 0 => \A k \in 1 .. Len(list) : list[k].ip # ip
  BY <1>1, LastOfFacts, LastAtFacts
<1>3. u = CASE inUse \/ beyond -> Refused(list, FALSE)
            [] j # 0 /\ i = j  -> Granted(ip, [list EXCEPT ![j] = Renewed(@, "DYNAMIC")], TRUE)
            [] j = 0 /\ i # 0  -> Granted(ip, Move(list, i, ip, "STATIC"), FALSE)
            [] j = 0 /\ i = 0 /\ ~beyond
                 -> Granted(ip, Insert(list, Lease(ip, m, "STATIC")), FALSE)
            [] j # 0 /\ i # j /\ ~inUse
                 -> Granted(ip, IF i = 0 THEN taken ELSE RemoveAt(taken, i), FALSE)
  BY DEF KeepAddress
<1> HIDE DEF i, j
<1>4. ASSUME NEW new, NEW renewed \in BOOLEAN, u = Granted(ip, new, renewed),
             Grants(new, list, m, ip), StaysApart(new, list, ip)
      PROVE  Answers(u, list, m) /\ u.result = ip /\ StaysApart(u.plist, list, ip)
  <2>1. Answers(Granted(ip, new, renewed), list, m)
    BY <1>4, GrantedFacts
  <2>2. u.plist = new /\ u.result = ip
    BY <1>4 DEF Granted
  <2> QED BY <1>4, <2>1, <2>2
<1>5. CASE inUse \/ beyond
  <2>1. u = Refused(list, FALSE)
    BY <1>3, <1>5
  <2>2. Answers(Refused(list, FALSE), list, m)
    BY RefusedFacts
  <2>3. u.result = IPADDR_ANY
    BY <2>1 DEF Refused
  <2> QED BY <2>1, <2>2, <2>3
<1>6. CASE j # 0 /\ i = j
  <2> DEFINE node == Renewed(list[j], "DYNAMIC")
             t == [list EXCEPT ![j] = node]
  <2>1. u = Granted(ip, t, TRUE)
    BY <1>3, <1>6
  <2>2. list[j] \in Node /\ j \in 1 .. Len(list) /\ list[j].mac = m /\ list[j].ip = ip
    BY <1>1, <1>2, <1>6, NodeFacts
  <2>3. /\ node \in Node /\ node.ip = ip /\ node.mac = m
        /\ node.state = "ONLINE" /\ node.lease_timer = DHCPS_LEASE_TIMER
    BY <2>2, RenewedFacts
  <2>4. \A k \in 1 .. Len(list) : k # j => list[k].mac # m
    BY <2>2 DEF GoodList, UniqueMac
  <2> HIDE DEF node
  <2>5. /\ GoodList(t)
        /\ node.state = "ONLINE" => Holds(t, node.mac, node.ip, node.lease_timer)
        /\ \A n, a, w : /\ n # node.mac /\ (n # list[j].mac \/ list[j].state # "ONLINE")
                     /\ Holds(list, n, a, w)
                     => Holds(t, n, a, w)
        /\ UniqueIp(list) => UniqueIp(t)
        /\ \A s : AllInNet(list, s) => AllInNet(t, s)
    BY <2>2, <2>3, <2>4, ReplaceKeeps
  <2> HIDE DEF t
  <2>6. Grants(t, list, m, ip) /\ StaysApart(t, list, ip)
    BY <2>2, <2>3, <2>5 DEF Grants, StaysApart
  <2> QED BY <1>4, <2>1, <2>6
<1>7. CASE j = 0 /\ i # 0
  <2>1. u = Granted(ip, Move(list, i, ip, "STATIC"), FALSE)
    BY <1>3, <1>7
  <2>2. i \in 1 .. Len(list) /\ list[i].mac = m /\ \A k \in 1 .. Len(list) : list[k].ip # ip
    BY <1>2, <1>7
  <2> DEFINE t == Move(list, i, ip, "STATIC")
  <2>3. /\ Grants(t, list, list[i].mac, ip)
        /\ (\A k \in 1 .. Len(list) : list[k].ip = ip => k = i) => StaysApart(t, list, ip)
    BY <2>2, MoveKeeps
  <2> HIDE DEF t
  <2>4. Grants(t, list, m, ip) /\ StaysApart(t, list, ip)
    BY <2>2, <2>3
  <2>5. u = Granted(ip, t, FALSE)
    BY <2>1 DEF t
  <2> QED BY <1>4, <2>4, <2>5
<1>8. CASE j = 0 /\ i = 0 /\ ~beyond
  <2> DEFINE t == Insert(list, Lease(ip, m, "STATIC"))
  <2>1. u = Granted(ip, t, FALSE)
    BY <1>3, <1>8
  <2>2. /\ Grants(t, list, m, ip)
        /\ (\A k \in 1 .. Len(list) : list[k].ip # ip) => StaysApart(t, list, ip)
    BY <1>2, <1>8, AddKeeps
  <2> HIDE DEF t
  <2> QED BY <1>2, <1>4, <1>8, <2>1, <2>2
<1>9. CASE j # 0 /\ i # j /\ ~inUse
  <2> DEFINE t == IF i = 0 THEN taken ELSE RemoveAt(taken, i)
  <2>1. u = Granted(ip, t, FALSE)
    BY <1>3, <1>9
  <2>2. list[j].state # "ONLINE" /\ ip = list[j].ip /\ j \in 1 .. Len(list)
    BY <1>2, <1>9
  <2>3. Grants(t, list, m, ip) /\ StaysApart(t, list, ip)
    <3>1. PICK a : a = taken
      OBVIOUS
    <3>2. PICK b : b = t
      OBVIOUS
    <3>3. a = [list EXCEPT ![j] = Lease(ip, m, "STATIC")] /\ b = IF i = 0 THEN a ELSE RemoveAt(a, i)
      BY <3>1, <3>2
    <3> HIDE DEF t, taken
    <3>4. Grants(b, list, m, ip) /\ StaysApart(b, list, ip)
      BY <1>2, <1>9, <2>2, <3>3, TakeOverKeeps
    <3> QED BY <3>2, <3>4
  <2> HIDE DEF t
  <2> QED BY <1>4, <2>1, <2>3
<1> QED BY <1>5, <1>6, <1>7, <1>8, <1>9

\* What a request makes of the list: it stays well-formed, the others keep
\* what they hold, and addresses that are apart stay apart.
LEMMA UpdatedFacts ==
  ASSUME NEW list, GoodList(list), IsFiniteSet(Mac), NEW range, GoodStart(range.start),
         NEW renew \in BOOLEAN, NEW m \in Mac, NEW ip \in Addr,
         NEW u, u = Updated(list, range, renew, m, ip)
  PROVE  /\ Answers(u, list, m)
         /\ GoodList(u.plist)
         /\ \A n, a, w : n # m /\ Holds(list, n, a, w) => Holds(u.plist, n, a, w)
         /\ /\ (range.start + Cardinality(Mac) - 1) \div OCTET = range.start \div OCTET
            /\ ip \in {IPADDR_ANY, IPADDR_BROADCAST} \/ InNet(ip, range.start)
            /\ UniqueIp(list) /\ AllInNet(list, range.start)
            => /\ UniqueIp(u.plist) /\ AllInNet(u.plist, range.start)
               /\ u.result = IPADDR_ANY \/ InNet(u.result, range.start)
         /\ UniqueIp(list) /\ AllInNet(list, range.start) => UniqueIp(u.plist)
<1>1. /\ Answers(u, list, m)
      /\ \/ u.result = IPADDR_ANY
         \/ /\ ip = IPADDR_ANY /\ u.result = Candidate(list, range.start, m)
            /\ AllInNet(list, range.start) /\ UniqueIp(list) => StaysApart(u.plist, list, u.result)
         \/ /\ ip \notin {IPADDR_ANY, IPADDR_BROADCAST} /\ u.result = ip
            /\ StaysApart(u.plist, list, ip)
  <2>1. CASE ip = IPADDR_BROADCAST
    <3>1. u = Refused(list, renew)
      <4>1. IPADDR_BROADCAST # IPADDR_ANY
        BY AddrFacts DEF GoodStart, Addr, IPADDR_ANY
      <4> QED BY <2>1, <4>1 DEF Updated
    <3>2. Answers(Refused(list, renew), list, m)
      BY RefusedFacts
    <3>3. u.result = IPADDR_ANY
      BY <3>1 DEF Refused
    <3> QED BY <3>1, <3>2, <3>3
  <2>2. CASE ip = IPADDR_ANY /\ ip # IPADDR_BROADCAST
    <3>1. u = GiveAddress(list, range, m)
      BY <2>2 DEF Updated
    <3> QED BY <2>2, <3>1, GiveFacts
  <2>3. CASE ip # IPADDR_ANY /\ ip # IPADDR_BROADCAST
    <3>1. u = KeepAddress(list, range, m, ip)
      BY <2>3 DEF Updated
    <3>2. ip \in Addr \ {IPADDR_ANY}
      BY <2>3
    <3> QED BY <2>3, <3>1, <3>2, KeepFacts
  <2> QED BY <2>1, <2>2, <2>3
<1>2. GoodList(u.plist) /\ \A n, a, w : n # m /\ Holds(list, n, a, w) => Holds(u.plist, n, a, w)
  BY <1>1 DEF Answers, Grants
<1>3. ASSUME (range.start + Cardinality(Mac) - 1) \div OCTET = range.start \div OCTET,
             ip \in {IPADDR_ANY, IPADDR_BROADCAST} \/ InNet(ip, range.start),
             UniqueIp(list), AllInNet(list, range.start)
      PROVE  /\ UniqueIp(u.plist) /\ AllInNet(u.plist, range.start)
             /\ u.result = IPADDR_ANY \/ InNet(u.result, range.start)
  <2>1. CASE u.result = IPADDR_ANY
    BY <1>1, <1>3, <2>1 DEF Answers
  <2>2. CASE u.result = Candidate(list, range.start, m) /\ StaysApart(u.plist, list, u.result)
    <3> DEFINE c == Candidate(list, range.start, m)
    <3>1. c \in Addr /\ c >= range.start /\ c <= range.start + Cardinality(Mac) - 1
      BY CandidateInAddr
    <3> HIDE DEF c
    <3>2. range.start \in Nat /\ c \in Nat /\ Cardinality(Mac) \in Nat
      BY <3>1, AddrFacts, FS_CardinalityType DEF GoodStart
    <3>3. range.start + Cardinality(Mac) - 1 \in Nat
      BY <3>1, <3>2
    <3>4. c \div OCTET = range.start \div OCTET
      BY <1>3, <3>1, <3>2, <3>3, SameNet
    <3>5. InNet(c, range.start)
      BY <3>1, <3>4 DEF InNet
    <3> QED BY <1>3, <2>2, <3>5 DEF StaysApart, c
  <2>3. CASE /\ ip \notin {IPADDR_ANY, IPADDR_BROADCAST} /\ u.result = ip
             /\ StaysApart(u.plist, list, ip)
    BY <1>3, <2>3 DEF StaysApart
  <2> QED BY <1>1, <1>3, <2>1, <2>2, <2>3
<1>4. ASSUME UniqueIp(list), AllInNet(list, range.start) PROVE UniqueIp(u.plist)
  <2>1. CASE u.result = IPADDR_ANY
    BY <1>1, <1>4, <2>1 DEF Answers
  <2>2. CASE StaysApart(u.plist, list, u.result)
    BY <1>4, <2>2 DEF StaysApart
  <2> QED BY <1>1, <1>4, <2>1, <2>2
<1> QED BY <1>1, <1>2, <1>3, <1>4

\* Only a client that keeps its own node, and its address with it, is told that
\* its lease is renewed.
LEMMA RenewFacts ==
  ASSUME NEW list, NEW range, NEW m, NEW ip, Updated(list, range, FALSE, m, ip).renew
  PROVE  Updated(list, range, FALSE, m, ip).result = ip
BY DEF Updated, GiveAddress, KeepAddress, Refused, Granted

-----------------------------------------------------------------------------
(* 7. What a client's departure and the expiry tick make of the table.     *)

\* The others keep what they hold when a client leaves.
LEMMA LeftFacts ==
  ASSUME NEW list, GoodList(list), NEW i \in 1 .. Len(list), NEW force
  PROVE  /\ GoodList(Left(list, i, force))
         /\ \A n, a, w : n # list[i].mac /\ Holds(list, n, a, w) => Holds(Left(list, i, force), n, a, w)
         /\ UniqueIp(list) => UniqueIp(Left(list, i, force))
         /\ \A s : AllInNet(list, s) => AllInNet(Left(list, i, force), s)
<1> DEFINE node == [list[i] EXCEPT !.state = "OFFLINE"]
           marked == [list EXCEPT ![i] = node]
           without == RemoveAt(list, i)
<1>1. Left(list, i, force) = marked \/ Left(list, i, force) = without
  BY DEF Left
<1>2. list[i] \in Node
  BY NodeFacts DEF GoodList
<1>3. node \in Node /\ node.ip = list[i].ip /\ node.mac = list[i].mac
  BY <1>2, OfflineFacts
<1>4. \A k \in 1 .. Len(list) : k # i => list[k].mac # node.mac
  BY <1>3 DEF GoodList, UniqueMac
<1> HIDE DEF node
<1>5. /\ GoodList(marked)
      /\ \A n, a, w : /\ n # node.mac /\ (n # list[i].mac \/ list[i].state # "ONLINE")
                   /\ Holds(list, n, a, w)
                   => Holds(marked, n, a, w)
      /\ UniqueIp(list) => UniqueIp(marked)
      /\ \A s : AllInNet(list, s) => AllInNet(marked, s)
  BY <1>3, <1>4, ReplaceKeeps
<1>6. /\ GoodList(without)
      /\ \A n, a, w : n # list[i].mac /\ Holds(list, n, a, w) => Holds(without, n, a, w)
      /\ UniqueIp(list) => UniqueIp(without)
      /\ \A s : AllInNet(list, s) => AllInNet(without, s)
  BY RemoveKeeps
<1> HIDE DEF marked, without
<1>7. CASE Left(list, i, force) = marked
  BY <1>3, <1>5, <1>7
<1>8. CASE Left(list, i, force) = without
  BY <1>6, <1>8
<1> QED BY <1>1, <1>7, <1>8

\* The places of a set, counted from the first up.
LEMMA NthFacts ==
  ASSUME NEW n \in Nat, NEW places \in SUBSET (1 .. n)
  PROVE  /\ Cardinality(places) \in Nat
         /\ \A k \in 1 .. Cardinality(places) : Nth(places, k) \in places
         /\ \A j, k \in 1 .. Cardinality(places) : j < k => Nth(places, j) < Nth(places, k)
         /\ \A i \in places : \E k \in 1 .. Cardinality(places) : Nth(places, k) = i
<1> DEFINE Below(i) == {j \in places : j <= i}
           size == Cardinality(places)
           rank == [i \in places |-> Cardinality(Below(i))]
<1>1. IsFiniteSet(places) /\ places \subseteq Nat
  <2>1. IsFiniteSet(1 .. n)
    BY FS_Interval
  <2>2. IsFiniteSet(places)
    BY <2>1, FS_Subset
  <2> QED BY <2>2
<1>2. size \in Nat
  BY <1>1, FS_CardinalityType
<1>3. ASSUME NEW i \in places
      PROVE  IsFiniteSet(Below(i)) /\ Cardinality(Below(i)) \in 1 .. size
  <2>1. IsFiniteSet(Below(i)) /\ Cardinality(Below(i)) <= size
    BY <1>1, FS_Subset
  <2>2. Below(i) # {}
    OBVIOUS
  <2>3. Cardinality(Below(i)) \in Nat /\ Cardinality(Below(i)) # 0
    BY <2>1, <2>2, FS_CardinalityType, FS_EmptySet
  <2> HIDE DEF Below, size
  <2> QED BY <1>2, <2>1, <2>3
<1>4. ASSUME NEW i \in places, NEW j \in places, i < j
      PROVE  Cardinality(Below(i)) < Cardinality(Below(j))
  <2>0. i \in Nat /\ j \in Nat
    BY <1>1
  <2>1. Below(i) \subseteq Below(j) /\ j \in Below(j) /\ j \notin Below(i)
    <3>1. \A k \in places : k <= i => k <= j
      BY <1>1, <1>4, <2>0
    <3>2. j <= j /\ ~ (j <= i)
      BY <1>4, <2>0
    <3> QED BY <3>1, <3>2
  <2>2. IsFiniteSet(Below(j))
    BY <1>3
  <2> HIDE DEF Below
  <2>3. /\ Cardinality(Below(i)) <= Cardinality(Below(j))
        /\ Cardinality(Below(i)) = Cardinality(Below(j)) => Below(i) = Below(j)
    BY <2>1, <2>2, FS_Subset
  <2>4. Cardinality(Below(i)) \in Nat /\ Cardinality(Below(j)) \in Nat
    BY <1>2, <1>3
  <2> QED BY <2>1, <2>3, <2>4
<1> HIDE DEF Below, size
<1>5. rank \in Injection(places, 1 .. size)
  <2>1. rank \in [places -> 1 .. size]
    BY <1>3
  <2>2. ASSUME NEW i \in places, NEW j \in places, rank[i] = rank[j] PROVE i = j
    <3>1. rank[i] = Cardinality(Below(i)) /\ rank[j] = Cardinality(Below(j))
      OBVIOUS
    <3>2. Cardinality(Below(i)) \in Nat /\ Cardinality(Below(j)) \in Nat
      BY <1>2, <1>3
    <3>3. i \in Nat /\ j \in Nat
      BY <1>1
    <3> HIDE DEF rank
    <3>4. Cardinality(Below(i)) = Cardinality(Below(j))
      BY <2>2, <3>1
    <3>5. ~ (i < j) /\ ~ (j < i)
      BY <1>4, <3>2, <3>4
    <3> QED BY <3>3, <3>5
  <2> HIDE DEF rank
  <2> QED BY <2>1, <2>2 DEF Injection, IsInjective
<1>6. Cardinality(1 .. size) = size /\ IsFiniteSet(1 .. size)
  <2>1. /\ Cardinality(1 .. size) = IF 1 > size THEN 0 ELSE size - 1 + 1
        /\ IsFiniteSet(1 .. size)
    BY <1>2, FS_Interval
  <2> QED BY <1>2, <2>1
<1>7. rank \in Surjection(places, 1 .. size)
  <2> HIDE DEF rank
  <2>1. Cardinality(places) = Cardinality(1 .. size)
    BY <1>6 DEF size
  <2> QED BY <1>5, <1>6, <2>1, FS_Injection
<1>8. ASSUME NEW k \in 1 .. size
      PROVE  Nth(places, k) \in places /\ Cardinality(Below(Nth(places, k))) = k
  <2>1. \E i \in places : rank[i] = k
    <3> HIDE DEF rank
    <3> QED BY <1>7 DEF Surjection
  <2>2. \E i \in places : Cardinality(Below(i)) = k
    BY <2>1
  <2> QED BY <2>2 DEF Nth, Below
<1>9. ASSUME NEW j \in 1 .. size, NEW k \in 1 .. size, j < k
      PROVE  Nth(places, j) < Nth(places, k)
  <2> DEFINE a == Nth(places, j)
             b == Nth(places, k)
  <2>0. /\ a \in places /\ Cardinality(Below(a)) = j
        /\ b \in places /\ Cardinality(Below(b)) = k
    <3> HIDE DEF rank
    <3> QED BY <1>8
  <2>1. /\ a \in places /\ b \in places /\ a \in Nat /\ b \in Nat
        /\ Cardinality(Below(a)) = j /\ Cardinality(Below(b)) = k
    BY <1>1, <2>0
  <2>2. j \in Nat /\ k \in Nat
    BY <1>2
  <2> HIDE DEF a, b
  <2>3. a # b
    BY <1>9, <2>1, <2>2
  <2>4. ~ (b < a)
    BY <1>4, <1>9, <2>1, <2>2
  <2>5. a < b
    BY <2>1, <2>3, <2>4
  <2> QED BY <2>5 DEF a, b
<1>10. ASSUME NEW i \in places PROVE \E k \in 1 .. size : Nth(places, k) = i
  <2> DEFINE k == Cardinality(Below(i))
             j == Nth(places, k)
  <2>1. k \in 1 .. size /\ k \in Nat /\ i \in Nat
    BY <1>1, <1>2, <1>3
  <2> HIDE DEF rank
  <2>2. j \in places /\ Cardinality(Below(j)) = k /\ j \in Nat
    BY <1>1, <1>8, <2>1
  <2>3. ~ (i < j) /\ ~ (j < i)
    <3> HIDE DEF j
    <3> QED BY <1>4, <2>1, <2>2
  <2>4. j = i
    <3> HIDE DEF j, k
    <3> QED BY <2>1, <2>2, <2>3
  <2> QED BY <2>1, <2>4
<1> QED BY <1>2, <1>8, <1>9, <1>10 DEF size

\* A minute older, a node is the same but for its timer, that may be zero.
LEMMA OlderFacts ==
  ASSUME NEW node \in Node
  PROVE  /\ Older(node).ip = node.ip /\ Older(node).mac = node.mac
         /\ Older(node).state = node.state
         /\ Older(node).lease_timer # 0 => Older(node) \in Node
         /\ Older(node).lease_timer \in Nat
         /\ Older(node).lease_timer >= node.lease_timer - 1
<1>1. node.lease_timer \in 1 .. DHCPS_LEASE_TIMER
  BY DEF Node
<1>2. CASE node.type = "DYNAMIC"
  <2> DEFINE older == [node EXCEPT !.lease_timer = node.lease_timer - 1]
  <2>1. Older(node) = older
    BY <1>2 DEF Older
  <2>2. /\ older.ip = node.ip /\ older.mac = node.mac /\ older.state = node.state
        /\ older.lease_timer = node.lease_timer - 1
    BY DEF Node
  <2>5. older.lease_timer \in Nat /\ older.lease_timer >= node.lease_timer - 1
    BY <1>1, <2>2, AddrFacts
  <2>3. node.lease_timer - 1 # 0 => node.lease_timer - 1 \in 1 .. DHCPS_LEASE_TIMER
    BY <1>1, AddrFacts
  <2>4. older.lease_timer # 0 => older \in Node
    BY <2>2, <2>3 DEF Node
  <2> HIDE DEF older
  <2> QED BY <2>1, <2>2, <2>4, <2>5
<1>3. CASE node.type # "DYNAMIC"
  <2>1. Older(node) = node
    BY <1>3 DEF Older
  <2>2. node.lease_timer \in Nat /\ node.lease_timer >= node.lease_timer - 1
    BY <1>1, AddrFacts
  <2> QED BY <2>1, <2>2
<1> QED BY <1>2, <1>3

\* The minute leaves the list well-formed; a client that still has a lease has
\* the lease it had, and that is every client with more than this minute left.
LEMMA AgedFacts ==
  ASSUME NEW list, GoodList(list)
  PROVE  /\ GoodList(Aged(list))
         /\ UniqueIp(list) => UniqueIp(Aged(list))
         /\ \A s : AllInNet(list, s) => AllInNet(Aged(list), s)
         /\ \A n, a : /\ Holds(list, n, a, 1)
                      /\ \E k \in 1 .. Len(Aged(list)) : Aged(list)[k].mac = n
                      => Holds(Aged(list), n, a, 1)
         /\ \A n, a : \A w \in Nat : w >= 1 /\ Holds(list, n, a, w + 1)
                                   => Holds(Aged(list), n, a, w)
<1> DEFINE older == [i \in DOMAIN list |-> Older(list[i])]
           Kept == {i \in DOMAIN list : older[i].lease_timer # 0}
           size == Cardinality(Kept)
           new == [k \in 1 .. size |-> older[Nth(Kept, k)]]
<1>1. /\ Len(list) \in Nat /\ DOMAIN list = 1 .. Len(list)
      /\ \A i \in 1 .. Len(list) : list[i] \in Node
  BY NodeFacts DEF GoodList
<1>2. Aged(list) = new
  BY DEF Aged
<1>3. \A i \in 1 .. Len(list) : older[i] = Older(list[i])
  BY <1>1
<1>4. /\ Kept \subseteq 1 .. Len(list) /\ \A i \in Kept : older[i].lease_timer # 0
      /\ \A i \in 1 .. Len(list) : older[i].lease_timer # 0 => i \in Kept
  BY <1>1
<1> HIDE DEF older, Kept
<1>5. /\ size \in Nat
      /\ \A k \in 1 .. size : Nth(Kept, k) \in Kept
      /\ \A j, k \in 1 .. size : j < k => Nth(Kept, j) < Nth(Kept, k)
      /\ \A i \in Kept : \E k \in 1 .. size : Nth(Kept, k) = i
  BY <1>1, <1>4, NthFacts
<1> HIDE DEF size
<1> DEFINE f == [k \in 1 .. size |-> Nth(Kept, k)]
<1>6. /\ f \in [1 .. size -> 1 .. Len(list)]
      /\ \A j, k \in 1 .. size : j < k => f[j] < f[k]
      /\ \A k \in 1 .. size : f[k] \in Kept /\ new[k] = older[f[k]]
      /\ \A i \in Kept : \E k \in 1 .. size : f[k] = i
  BY <1>4, <1>5
<1> HIDE DEF f
<1>7. ASSUME NEW k \in 1 .. size
      PROVE  /\ new[k] \in Node /\ new[k].ip = list[f[k]].ip
             /\ new[k].mac = list[f[k]].mac /\ new[k].state = list[f[k]].state
  <2>1. /\ f[k] \in 1 .. Len(list) /\ new[k] = older[f[k]]
        /\ older[f[k]].lease_timer # 0
    BY <1>4, <1>6
  <2>2. list[f[k]] \in Node /\ new[k] = Older(list[f[k]])
    BY <1>1, <1>3, <2>1
  <2> HIDE DEF new
  <2>3. new[k].lease_timer # 0
    BY <2>1
  <2> QED BY <2>2, <2>3, OlderFacts
<1>8. new \in Seq(Node) /\ Len(new) = size
  <2>1. \A k \in 1 .. size : older[Nth(Kept, k)] \in Node
    BY <1>7
  <2>2. new \in [1 .. size -> Node]
    BY <2>1
  <2> QED BY <1>5, <2>2, SeqDef, LenProperties
<1> HIDE DEF new
<1>9. Embedded(new, list)
  BY <1>6, <1>7, <1>8 DEF Embedded
<1>10. /\ GoodList(new)
       /\ UniqueIp(list) => UniqueIp(new)
       /\ \A s : AllInNet(list, s) => AllInNet(new, s)
  BY <1>8, <1>9, EmbeddedFacts
<1>11. ASSUME NEW n, NEW a, Holds(list, n, a, 1), NEW k \in 1 .. Len(new), new[k].mac = n
       PROVE  Holds(new, n, a, 1)
  <2>1. PICK i \in 1 .. Len(list) :
          list[i].mac = n /\ list[i].ip = a /\ list[i].state = "ONLINE"
    BY <1>11 DEF Holds
  <2>2. /\ f[k] \in 1 .. Len(list) /\ list[f[k]].mac = n /\ new[k].ip = list[f[k]].ip
        /\ new[k].state = list[f[k]].state
    BY <1>6, <1>7, <1>8, <1>11
  <2>3. f[k] = i
    BY <2>1, <2>2 DEF GoodList, UniqueMac
  <2>4. new[k].lease_timer \in 1 .. DHCPS_LEASE_TIMER
    BY <1>8, <1>11, NodeFacts
  <2>5. new[k].lease_timer >= 1
    BY <2>4, AddrFacts
  <2> QED BY <1>11, <2>1, <2>2, <2>3, <2>5 DEF Holds
<1>12. ASSUME NEW n, NEW a, NEW w \in Nat, w >= 1, Holds(list, n, a, w + 1)
       PROVE  Holds(new, n, a, w)
  <2>1. PICK i \in 1 .. Len(list) :
          /\ list[i].mac = n /\ list[i].ip = a
          /\ list[i].state = "ONLINE" /\ list[i].lease_timer >= w + 1
    BY <1>12 DEF Holds
  <2>2. list[i] \in Node /\ list[i].lease_timer \in Nat
    <3>1. list[i] \in Node /\ list[i].lease_timer \in 1 .. DHCPS_LEASE_TIMER
      BY NodeFacts DEF GoodList
    <3> QED BY <3>1, AddrFacts
  <2>3. older[i].lease_timer \in Nat /\ older[i].lease_timer >= list[i].lease_timer - 1
    BY <1>3, <2>2, OlderFacts
  <2>4. older[i].lease_timer >= w /\ older[i].lease_timer # 0
    BY <1>12, <2>1, <2>2, <2>3
  <2>5. i \in Kept
    BY <1>4, <2>4
  <2>6. PICK k \in 1 .. size : f[k] = i
    BY <1>6, <2>5
  <2>7. /\ new[k] = older[i] /\ new[k].ip = list[i].ip
        /\ new[k].mac = list[i].mac /\ new[k].state = list[i].state
    BY <1>6, <1>7, <2>6
  <2>8. new[k].lease_timer >= w
    BY <2>4, <2>7
  <2> QED BY <1>8, <2>1, <2>7, <2>8 DEF Holds
<1> QED BY <1>2, <1>10, <1>11, <1>12

\* The eviction leaves the list well-formed; it takes from no client what it
\* holds but from those of the oldest lease and of the last.
LEMMA KillOldestFacts ==
  ASSUME NEW list, GoodList(list), Len(list) >= 2
  PROVE  /\ GoodList(KillOldest(list)) /\ Oldest(list) \in 1 .. Len(list)
         /\ \A n, a, w : n \notin {list[Oldest(list)].mac, list[Len(list)].mac}
                         /\ Holds(list, n, a, w) => Holds(KillOldest(list), n, a, w)
         /\ UniqueIp(list) => UniqueIp(KillOldest(list))
         /\ \A s : AllInNet(list, s) => AllInNet(KillOldest(list), s)
<1> DEFINE last == Len(list)
           node == [list[last] EXCEPT !.state = "OFFLINE"]
           marked == [list EXCEPT ![last] = node]
           First(i) == \A j \in 2 .. Len(list) :
                         \/ list[i].lease_timer < list[j].lease_timer
                         \/ list[i].lease_timer = list[j].lease_timer /\ i <= j
           oldest == Oldest(list)
           Timers == {list[i].lease_timer : i \in 2 .. Len(list)}
<1>1. /\ Len(list) \in Nat /\ last \in 1 .. Len(list) /\ list[last] \in Node
      /\ \A i \in 1 .. Len(list) : list[i].lease_timer \in Nat
  <2>1. /\ Len(list) \in Nat
        /\ \A i \in 1 .. Len(list) : /\ list[i] \in Node
                                      /\ list[i].lease_timer \in 1 .. DHCPS_LEASE_TIMER
    BY NodeFacts DEF GoodList
  <2>2. last \in 1 .. Len(list)
    BY <2>1
  <2>3. 1 .. DHCPS_LEASE_TIMER \subseteq Nat
    BY AddrFacts
  <2>4. \A i \in 1 .. Len(list) : list[i].lease_timer \in Nat
    <3> HIDE DEF last, node, marked, First, oldest, Timers
    <3> QED BY ONLY <2>1, <2>3
  <2> QED BY <2>1, <2>2, <2>4
<1>2. \E i \in 2 .. Len(list) : First(i)
  <2>1. Timers \subseteq Nat /\ Timers # {}
    BY <1>1
  <2>2. Min(Timers) \in Timers /\ \A t \in Timers : Min(Timers) <= t
    BY <2>1, MinFacts
  <2>3. PICK least \in Timers : \A t \in Timers : least <= t
    BY <2>2
  <2> DEFINE Least == {i \in 2 .. Len(list) : list[i].lease_timer = least}
  <2>4. Least \subseteq Nat /\ Least # {}
    BY <2>3
  <2>5. Min(Least) \in Least /\ \A i \in Least : Min(Least) <= i
    BY <2>4, MinFacts
  <2>6. PICK i \in Least : \A j \in Least : i <= j
    BY <2>5
  <2>7. ASSUME NEW j \in 2 .. Len(list)
        PROVE  \/ list[i].lease_timer < list[j].lease_timer
               \/ list[i].lease_timer = list[j].lease_timer /\ i <= j
    <3>1. list[i].lease_timer = least /\ list[j].lease_timer \in Timers
      BY <2>6
    <3>2. least <= list[j].lease_timer /\ least \in Nat /\ list[j].lease_timer \in Nat
      BY <2>1, <2>3, <3>1
    <3>3. CASE list[j].lease_timer = least
      BY <2>6, <3>1, <3>3
    <3>4. CASE list[j].lease_timer # least
      BY <3>1, <3>2, <3>4
    <3> QED BY <3>3, <3>4
  <2> QED BY <2>6, <2>7
<1>3. oldest \in 2 .. Len(list)
  BY <1>2 DEF Oldest
<1>4. KillOldest(list) = RemoveAt(marked, oldest)
  BY DEF KillOldest
<1>5. node \in Node /\ node.ip = list[last].ip /\ node.mac = list[last].mac
  BY <1>1, OfflineFacts
<1>6. \A k \in 1 .. Len(list) : k # last => list[k].mac # node.mac
  BY <1>1, <1>5 DEF GoodList, UniqueMac
<1> HIDE DEF oldest, First, node
<1>7. /\ GoodList(marked) /\ Len(marked) = Len(list)
      /\ \A n, a, w : n # list[last].mac /\ Holds(list, n, a, w) => Holds(marked, n, a, w)
      /\ UniqueIp(list) => UniqueIp(marked)
      /\ \A s : AllInNet(list, s) => AllInNet(marked, s)
  BY <1>1, <1>5, <1>6, ReplaceKeeps
<1>m. marked[oldest].mac = list[oldest].mac
  <2>1. list \in Seq(Node) /\ oldest \in 1 .. Len(list)
    BY <1>1, <1>3 DEF GoodList
  <2>2. /\ marked[last] = node
        /\ \A k \in 1 .. Len(list) : k # last => marked[k] = list[k]
    BY <1>1, <1>5, <2>1, ExceptSeq
  <2> HIDE DEF marked
  <2> QED BY <1>5, <2>1, <2>2
<1> HIDE DEF marked
<1>8. oldest \in 1 .. Len(marked)
  BY <1>1, <1>3, <1>7
<1> DEFINE rest == RemoveAt(marked, oldest)
<1>9. /\ GoodList(rest)
      /\ \A n, a, w : n # marked[oldest].mac /\ Holds(marked, n, a, w) => Holds(rest, n, a, w)
      /\ UniqueIp(marked) => UniqueIp(rest)
      /\ \A s : AllInNet(marked, s) => AllInNet(rest, s)
  BY <1>7, <1>8, RemoveKeeps
<1> HIDE DEF rest
<1>10. KillOldest(list) = rest
  BY <1>4 DEF rest
<1>11. ASSUME NEW n, NEW a, NEW w, n \notin {list[oldest].mac, list[last].mac},
              Holds(list, n, a, w)
       PROVE  Holds(rest, n, a, w)
  BY <1>7, <1>9, <1>11, <1>m
<1>12. oldest \in 1 .. Len(list)
  BY <1>7, <1>8
<1> QED BY <1>7, <1>9, <1>10, <1>11, <1>12 DEF oldest

\* The tick leaves the list well-formed; with fewer stations than leases the
\* table takes no one loses a lease before its time.
LEMMA TickedFacts ==
  ASSUME NEW list, GoodList(list)
  PROVE  /\ GoodList(Ticked(list))
         /\ UniqueIp(list) => UniqueIp(Ticked(list))
         /\ \A s : AllInNet(list, s) => AllInNet(Ticked(list), s)
         /\ IsFiniteSet(Mac) /\ Cardinality(Mac) < MAX_STATION_NUM
              => /\ \A n, a : /\ Holds(list, n, a, 1)
                              /\ \E k \in 1 .. Len(Ticked(list)) : Ticked(list)[k].mac = n
                              => Holds(Ticked(list), n, a, 1)
                 /\ \A n, a : \A w \in Nat : w >= 1 /\ Holds(list, n, a, w + 1)
                                           => Holds(Ticked(list), n, a, w)
<1> DEFINE aged == Aged(list)
<1>1. /\ GoodList(aged)
      /\ UniqueIp(list) => UniqueIp(aged)
      /\ \A s : AllInNet(list, s) => AllInNet(aged, s)
      /\ \A n, a : Holds(list, n, a, 1) /\ (\E k \in 1 .. Len(aged) : aged[k].mac = n)
                   => Holds(aged, n, a, 1)
      /\ \A n, a : \A w \in Nat : w >= 1 /\ Holds(list, n, a, w + 1) => Holds(aged, n, a, w)
  BY AgedFacts
<1>2. Ticked(list) = IF Len(aged) >= MAX_STATION_NUM THEN KillOldest(aged) ELSE aged
  BY DEF Ticked, Crowded
<1> HIDE DEF aged
<1>3. Len(aged) \in Nat /\ MAX_STATION_NUM \in Nat /\ MAX_STATION_NUM >= 2
  BY <1>1, NodeFacts, LeaseConstants DEF GoodList
<1>4. CASE Len(aged) >= MAX_STATION_NUM
  <2>1. Ticked(list) = KillOldest(aged) /\ Len(aged) >= 2
    BY <1>2, <1>3, <1>4
  <2>2. /\ GoodList(KillOldest(aged))
        /\ UniqueIp(aged) => UniqueIp(KillOldest(aged))
        /\ \A s : AllInNet(aged, s) => AllInNet(KillOldest(aged), s)
    BY <1>1, <2>1, KillOldestFacts
  <2>3. ~ (IsFiniteSet(Mac) /\ Cardinality(Mac) < MAX_STATION_NUM)
    <3>1. SUFFICES ASSUME IsFiniteSet(Mac), Cardinality(Mac) < MAX_STATION_NUM PROVE FALSE
      OBVIOUS
    <3>2. Len(aged) <= Cardinality(Mac) /\ Cardinality(Mac) \in Nat
      BY <1>1, <3>1, LengthBound, FS_CardinalityType
    <3> QED BY <1>3, <1>4, <3>1, <3>2
  <2> QED BY <1>1, <2>1, <2>2, <2>3
<1>5. CASE ~ (Len(aged) >= MAX_STATION_NUM)
  <2>1. Ticked(list) = aged
    BY <1>2, <1>5
  <2> QED BY <1>1, <2>1
<1> QED BY <1>4, <1>5

=============================================================================
