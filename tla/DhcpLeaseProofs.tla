-------------------------- MODULE DhcpLeaseProofs --------------------------
(***************************************************************************)
(* Theorems about DhcpLease, whatever the stations, the addresses and the  *)
(* ranges.  What each operation makes of a list is in LeaseTableProofs;    *)
(* here: the inductive invariants, one step per operation, the theorems.   *)
(***************************************************************************)
EXTENDS DhcpLease, LeaseTableProofs

-----------------------------------------------------------------------------
(* 1. Invariants.                                                          *)

\* One lease per client, in order: what every search and walk relies on.
IInv == TypeOK /\ GoodList(plist)

\* What a client uses is leased to it for at least a minute, unless evicted.
InUse == \A m \in Mac \ struck : uses[m] # IPADDR_ANY => /\ station[m] = uses[m]
                                                         /\ Holds(plist, m, uses[m], 1)

\* While all leases were in their place they are for different addresses.
Apart == placed => UniqueIp(plist) /\ AllInNet(plist, dhcps_lease.start)

\* A range does not reach into another network.
RangesInOneNet == \A range \in Ranges : range.start \div OCTET = range.end \div OCTET

-----------------------------------------------------------------------------
(* 2. What the constants and the operators give each step.                 *)

\* The constants are as LeaseTableProofs wants them.
LEMMA InputFacts ==
  /\ IPADDR_ANY \in Addr /\ IsFiniteSet(Mac) /\ Ciaddr \subseteq Addr
  /\ \A range \in Ranges : GoodStart(range.start) /\ range.end \in Addr
<1>1. IPADDR_ANY \in Addr
  BY AnyInAddr
<1>2. ASSUME NEW range \in Ranges PROVE GoodStart(range.start) /\ range.end \in Addr
  BY InputConstants DEF GoodStart
<1> QED BY <1>1, <1>2, InputConstants

\* Being in place, as the model and as the lemmas about lists say it.
LEMMA InPlaceFacts ==
  ASSUME NEW list, GoodList(list), NEW range
  PROVE  InPlace(list, range) <=> AllInNet(list, range.start)
<1>1. DOMAIN list = 1 .. Len(list)
  BY NodeFacts DEF GoodList
<1> QED BY <1>1 DEF InPlace, AllInNet, InNet

\* What a request answers, in the state it is made in.
LEMMA UpdateStep ==
  ASSUME IInv, NEW m \in Mac, NEW ip \in Ciaddr, ClientUpdate(m, ip)
  PROVE  /\ IInv'
         /\ \A n, a, w : n # m /\ Holds(plist, n, a, w) => Holds(plist', n, a, w)
         /\ \/ uses'[m] = IPADDR_ANY
            \/ station'[m] = uses'[m] /\ Holds(plist', m, uses'[m], 1)
         /\ \A n \in Mac \ {m} : uses'[n] = uses[n] /\ station'[n] = station[n]
         /\ struck' = struck \ {m}
         /\ Apart => Apart'
<1> DEFINE u == Updated(plist, dhcps_lease, renew, m, ip)
<1>1. /\ GoodList(plist) /\ dhcps_lease \in Ranges /\ renew \in BOOLEAN
      /\ station \in [Mac -> Addr] /\ uses \in [Mac -> Addr]
      /\ struck \subseteq Mac /\ placed \in BOOLEAN
  BY DEF IInv, TypeOK
<1>2. GoodStart(dhcps_lease.start) /\ ip \in Addr /\ IsFiniteSet(Mac)
  BY <1>1, InputFacts
<1>3. /\ Answers(u, plist, m)
      /\ GoodList(u.plist)
      /\ \A n, a, w : n # m /\ Holds(plist, n, a, w) => Holds(u.plist, n, a, w)
      /\ UniqueIp(plist) /\ AllInNet(plist, dhcps_lease.start) => UniqueIp(u.plist)
  <2> HIDE DEF u
  <2>1. \A w : w = u => w = Updated(plist, dhcps_lease, renew, m, ip)
    BY DEF u
  <2> QED BY <1>1, <1>2, <2>1, UpdatedFacts
<1>4. /\ plist' = u.plist /\ renew' = u.renew /\ result' = u.result
      /\ station' = IF u.told THEN [station EXCEPT ![m] = u.result] ELSE station
      /\ uses' = [uses EXCEPT ![m] = u.result]
      /\ dhcps_lease' = dhcps_lease
      /\ struck' = struck \ {m}
      /\ placed' = (placed /\ InPlace(u.plist, dhcps_lease))
  BY DEF ClientUpdate
<1> HIDE DEF u
<1>5. /\ u.renew \in BOOLEAN /\ u.result \in Addr
      /\ u.result # IPADDR_ANY => u.told /\ Holds(u.plist, m, u.result, 1)
  <2>1. /\ u.renew \in BOOLEAN /\ u.result \in Addr
        /\ u.result # IPADDR_ANY => u.told /\ Holds(u.plist, m, u.result, DHCPS_LEASE_TIMER)
    BY <1>3 DEF Answers, Grants
  <2>2. Holds(u.plist, m, u.result, DHCPS_LEASE_TIMER) => Holds(u.plist, m, u.result, 1)
    <3>1. 1 \in 0 .. DHCPS_LEASE_TIMER
      BY AddrFacts
    <3> QED BY <1>3, <3>1, HoldsLess
  <2> QED BY <2>1, <2>2
<1>6. station' \in [Mac -> Addr] /\ uses' \in [Mac -> Addr]
  BY <1>1, <1>4, <1>5
<1>7. IInv'
  <2>1. u.plist \in Seq(Node)
    BY <1>3 DEF GoodList
  <2> QED BY <1>1, <1>3, <1>4, <1>5, <1>6, <2>1 DEF IInv, TypeOK
<1>8. /\ uses'[m] = u.result
      /\ u.told => station'[m] = u.result
      /\ \A n \in Mac \ {m} : uses'[n] = uses[n] /\ station'[n] = station[n]
  BY <1>1, <1>4
<1>9. ASSUME Apart PROVE Apart'
  <2>1. InPlace(u.plist, dhcps_lease) <=> AllInNet(u.plist, dhcps_lease.start)
    BY <1>3, InPlaceFacts
  <2>2. placed' => placed /\ InPlace(u.plist, dhcps_lease)
    BY <1>4
  <2> QED BY <1>3, <1>4, <1>9, <2>1, <2>2 DEF Apart
<1> QED BY <1>3, <1>4, <1>5, <1>7, <1>8, <1>9

\* What a departure changes, in the state it happens in.
LEMMA LeaveStep ==
  ASSUME IInv, NEW m \in Mac, NEW ip \in Addr, NEW force \in BOOLEAN,
         ClientLeave(m, ip, force)
  PROVE  /\ IInv'
         /\ \A n, a, w : n # m /\ Holds(plist, n, a, w) => Holds(plist', n, a, w)
         /\ uses'[m] = IPADDR_ANY
         /\ \A n \in Mac \ {m} : uses'[n] = uses[n] /\ station'[n] = station[n]
         /\ struck' = struck \ {m}
         /\ Apart => Apart'
<1> DEFINE i == LeaseOf(plist, m, ip)
           left == Left(plist, i, force)
<1>1. /\ GoodList(plist) /\ plist \in Seq(Node)
      /\ station \in [Mac -> Addr] /\ uses \in [Mac -> Addr]
  BY DEF IInv, TypeOK
<1>2. i \in 1 .. Len(plist) /\ plist[i].mac = m
  <2>1. Len(plist) \in Nat /\ i # 0
    BY <1>1, NodeFacts DEF ClientLeave
  <2>2. i \in 0 .. Len(plist) /\ (i # 0 => plist[i].mac = m)
    BY <1>1, LeaseOfFacts
  <2> QED BY <2>1, <2>2
<1>3. /\ plist' = left
      /\ station' = [station EXCEPT ![m] = IPADDR_ANY]
      /\ uses' = [uses EXCEPT ![m] = IPADDR_ANY]
      /\ dhcps_lease' = dhcps_lease /\ renew' = renew /\ result' = result
      /\ struck' = struck \ {m} /\ placed' = placed
  BY DEF ClientLeave
<1> HIDE DEF i
<1>4. /\ GoodList(left)
      /\ \A n, a, w : n # plist[i].mac /\ Holds(plist, n, a, w) => Holds(left, n, a, w)
      /\ UniqueIp(plist) => UniqueIp(left)
      /\ \A s : AllInNet(plist, s) => AllInNet(left, s)
  BY <1>1, <1>2, LeftFacts
<1> HIDE DEF left
<1>5. /\ station' \in [Mac -> Addr] /\ uses' \in [Mac -> Addr] /\ uses'[m] = IPADDR_ANY
      /\ \A n \in Mac \ {m} : uses'[n] = uses[n] /\ station'[n] = station[n]
  BY <1>1, <1>3, InputFacts
<1>6. IInv'
  <2>1. left \in Seq(Node)
    BY <1>4 DEF GoodList
  <2> QED BY <1>3, <1>4, <1>5, <2>1 DEF IInv, TypeOK
<1>7. Apart => Apart'
  BY <1>3, <1>4 DEF Apart
<1> QED BY <1>2, <1>3, <1>4, <1>5, <1>6, <1>7

\* It is clients the tick strikes.
LEMMA StruckInMac ==
  ASSUME GoodList(plist)
  PROVE  StruckBy(plist) \subseteq Mac
<1> DEFINE aged == Aged(plist)
<1>1. GoodList(aged)
  BY AgedFacts
<1>2. CASE Crowded(plist)
  <2>1. /\ Len(aged) \in Nat /\ Len(aged) >= MAX_STATION_NUM
        /\ \A i \in 1 .. Len(aged) : aged[i] \in Node
    BY <1>1, <1>2, NodeFacts DEF GoodList, Crowded
  <2>2. StruckBy(plist) = {aged[Oldest(aged)].mac, aged[Len(aged)].mac}
    BY <1>2 DEF StruckBy, Last
  <2> HIDE DEF aged
  <2>3. Len(aged) >= 2 /\ Len(aged) \in 1 .. Len(aged)
    BY <2>1, LeaseConstants
  <2>4. Oldest(aged) \in 1 .. Len(aged)
    BY <1>1, <2>3, KillOldestFacts
  <2>5. aged[Oldest(aged)] \in Node /\ aged[Len(aged)] \in Node
    BY <2>1, <2>3, <2>4
  <2> QED BY <2>2, <2>5 DEF Node
<1>3. CASE ~Crowded(plist)
  BY <1>3 DEF StruckBy
<1> QED BY <1>2, <1>3

\* A client the tick does not strike holds what it held after the minute.
LEMMA NotStruckFacts ==
  ASSUME GoodList(plist), NEW n, n \notin StruckBy(plist), NEW a, NEW w,
         Holds(Aged(plist), n, a, w)
  PROVE  Holds(Ticked(plist), n, a, w)
<1> DEFINE aged == Aged(plist)
<1>1. GoodList(aged)
  BY AgedFacts
<1>2. CASE Crowded(plist)
  <2>1. Len(aged) \in Nat /\ Len(aged) >= 2
    <3>1. Len(aged) \in Nat /\ Len(aged) >= MAX_STATION_NUM
      BY <1>1, <1>2, NodeFacts DEF GoodList, Crowded
    <3> HIDE DEF aged
    <3> QED BY <3>1, LeaseConstants
  <2>2. n \notin {aged[Oldest(aged)].mac, aged[Len(aged)].mac}
    BY <1>2 DEF StruckBy, Last
  <2>3. Ticked(plist) = KillOldest(aged)
    BY <1>2 DEF Ticked
  <2> HIDE DEF aged
  <2>4. Holds(KillOldest(aged), n, a, w)
    <3>1. Holds(aged, n, a, w)
      BY DEF aged
    <3> QED BY <1>1, <2>1, <2>2, <3>1, KillOldestFacts
  <2> QED BY <2>3, <2>4
<1>3. CASE ~Crowded(plist)
  BY <1>3 DEF Ticked
<1> QED BY <1>2, <1>3

\* What the tick changes, in the state it happens in.
LEMMA TickStep ==
  ASSUME IInv, CoarseTmr
  PROVE  /\ IInv'
         /\ \A m \in Mac : uses'[m] # IPADDR_ANY =>
              uses'[m] = uses[m] /\ (HasLease(plist, m) => HasLease(Aged(plist), m))
         /\ station' = station
         /\ struck' = {m \in struck \cup StruckBy(plist) : uses'[m] # IPADDR_ANY}
         /\ \A n, a : /\ n \notin StruckBy(plist)
                      /\ Holds(plist, n, a, 1) /\ HasLease(Aged(plist), n)
                      => Holds(plist', n, a, 1)
         /\ Apart => Apart'
<1> DEFINE ticked == Ticked(plist)
<1>1. GoodList(plist) /\ uses \in [Mac -> Addr] /\ struck \subseteq Mac
  BY DEF IInv, TypeOK
<1>2. /\ plist' = ticked
      /\ dhcps_lease' = dhcps_lease /\ renew' = renew /\ result' = result
      /\ station' = station /\ placed' = placed
      /\ struck' = {m \in struck \cup StruckBy(plist) : uses'[m] # IPADDR_ANY}
  BY DEF CoarseTmr
<1>u. PICK gone \in SUBSET {m \in Mac : uses[m] # IPADDR_ANY /\ ~HasLease(plist, m)} :
        uses' = [m \in Mac |-> IF m \in gone \/ (HasLease(plist, m) /\ ~HasLease(Aged(plist), m))
                               THEN IPADDR_ANY ELSE uses[m]]
  BY DEF CoarseTmr
<1>3. /\ GoodList(ticked)
      /\ UniqueIp(plist) => UniqueIp(ticked)
      /\ \A s : AllInNet(plist, s) => AllInNet(ticked, s)
  BY <1>1, TickedFacts
<1> HIDE DEF ticked
<1>4. ticked \in Seq(Node) /\ DOMAIN ticked = 1 .. Len(ticked)
  BY <1>3, NodeFacts DEF GoodList
<1>5. uses' \in [Mac -> Addr]
  BY <1>1, <1>u, InputFacts
<1>s. struck' \subseteq Mac
  <2>1. StruckBy(plist) \subseteq Mac
    BY <1>1, StruckInMac
  <2> QED BY <1>1, <1>2, <2>1
<1>6. IInv'
  BY <1>2, <1>3, <1>4, <1>5, <1>s DEF IInv, TypeOK
<1>7. \A m \in Mac : uses'[m] # IPADDR_ANY =>
        uses'[m] = uses[m] /\ (HasLease(plist, m) => HasLease(Aged(plist), m))
  BY <1>1, <1>u
<1>8. ASSUME NEW n, n \notin StruckBy(plist), NEW a, Holds(plist, n, a, 1),
             HasLease(Aged(plist), n)
      PROVE  Holds(plist', n, a, 1)
  <2>1. GoodList(Aged(plist)) /\ DOMAIN Aged(plist) = 1 .. Len(Aged(plist))
    BY <1>1, AgedFacts, NodeFacts DEF GoodList
  <2>2. \E k \in 1 .. Len(Aged(plist)) : Aged(plist)[k].mac = n
    BY <1>8, <2>1 DEF HasLease
  <2>3. Holds(Aged(plist), n, a, 1)
    BY <1>1, <1>8, <2>2, AgedFacts
  <2>4. Holds(Ticked(plist), n, a, 1)
    BY <1>1, <1>8, <2>3, NotStruckFacts
  <2> QED BY <1>2, <2>4 DEF ticked
<1>9. Apart => Apart'
  BY <1>2, <1>3 DEF Apart
<1> QED BY <1>2, <1>6, <1>7, <1>8, <1>9

-----------------------------------------------------------------------------
(* 3. One step of each operation.                                          *)

\* The server starts without leases.
LEMMA InitFacts ==
  ASSUME Init
  PROVE  IInv /\ InUse /\ Apart
<1>1. IPADDR_ANY \in Addr /\ GoodList(<<>>) /\ UniqueIp(<<>>) /\ \A s : AllInNet(<<>>, s)
  BY InputFacts, EmptyFacts
<1>2. /\ plist = <<>> /\ dhcps_lease \in Ranges /\ renew = FALSE /\ result = IPADDR_ANY
      /\ struck = {} /\ placed = TRUE
  BY DEF Init
<1>3. /\ station \in [Mac -> Addr] /\ uses \in [Mac -> Addr]
      /\ \A m \in Mac : uses[m] = IPADDR_ANY
  BY <1>1 DEF Init
<1>4. plist \in Seq(Node)
  BY <1>1, <1>2 DEF GoodList
<1>5. IInv
  BY <1>1, <1>2, <1>3, <1>4 DEF IInv, TypeOK
<1>6. InUse
  BY <1>3 DEF InUse
<1> QED BY <1>1, <1>2, <1>5, <1>6 DEF Apart

\* The restart on another range keeps the leases.
LEMMA StartStep ==
  ASSUME IInv, NEW range \in Ranges, DhcpsStart(range)
  PROVE  /\ IInv' /\ plist' = plist /\ station' = station /\ uses' = uses
         /\ struck' = struck
         /\ Apart => Apart'
<1>1. /\ dhcps_lease' = range /\ plist' = plist /\ renew' = renew /\ result' = result
      /\ station' = station /\ uses' = uses /\ struck' = struck
      /\ placed' = (placed /\ InPlace(plist, range))
  BY DEF DhcpsStart
<1>2. GoodList(plist) /\ placed \in BOOLEAN
  BY DEF IInv, TypeOK
<1>3. placed' \in BOOLEAN /\ (placed' => placed /\ AllInNet(plist, range.start))
  BY <1>1, <1>2, InPlaceFacts
<1>4. IInv'
  BY <1>1, <1>3 DEF IInv, TypeOK
<1>5. Apart => Apart'
  BY <1>1, <1>3 DEF Apart
<1> QED BY <1>1, <1>4, <1>5

\* The stop drops every lease, and no client uses an address after it.
LEMMA StopStep ==
  ASSUME IInv, DhcpsStop
  PROVE  IInv' /\ (\A m \in Mac : uses'[m] = IPADDR_ANY) /\ Apart'
<1>1. /\ plist' = <<>>
      /\ station' = [m \in Mac |-> IF HasLease(plist, m) THEN IPADDR_ANY ELSE station[m]]
      /\ uses' = [m \in Mac |-> IPADDR_ANY]
      /\ dhcps_lease' = dhcps_lease /\ renew' = renew /\ result' = result
      /\ struck' = {} /\ placed' = TRUE
  BY DEF DhcpsStop
<1>2. GoodList(<<>>) /\ UniqueIp(<<>>) /\ \A s : AllInNet(<<>>, s)
  BY EmptyFacts
<1>3. station' \in [Mac -> Addr] /\ uses' \in [Mac -> Addr]
  BY <1>1, InputFacts DEF IInv, TypeOK
<1>4. IInv'
  BY <1>1, <1>2, <1>3 DEF IInv, TypeOK, GoodList
<1>5. (\A m \in Mac : uses'[m] = IPADDR_ANY) /\ Apart'
  BY <1>1, <1>2 DEF Apart
<1> QED BY <1>4, <1>5

\* Every step keeps the list well-formed.
LEMMA ListStep == IInv /\ [Next]_vars => IInv'
<1> SUFFICES ASSUME IInv, [Next]_vars PROVE IInv'
  OBVIOUS
<1>1. CASE \E m \in Mac, ip \in Ciaddr : ClientUpdate(m, ip)
  BY <1>1, UpdateStep
<1>2. CASE \E m \in Mac, ip \in Addr, force \in BOOLEAN : ClientLeave(m, ip, force)
  BY <1>2, LeaveStep
<1>3. CASE CoarseTmr
  BY <1>3, TickStep
<1>4. CASE \E range \in Ranges : DhcpsStart(range)
  BY <1>4, StartStep
<1>5. CASE DhcpsStop
  BY <1>5, StopStep
<1>6. CASE UNCHANGED vars
  BY <1>6 DEF vars, IInv, TypeOK
<1> QED BY <1>1, <1>2, <1>3, <1>4, <1>5, <1>6 DEF Next

\* Every step keeps what clients use leased to them, evicted ones aside.
LEMMA InUseStep == IInv /\ InUse /\ [Next]_vars => InUse'
<1> SUFFICES ASSUME IInv, InUse, [Next]_vars, NEW n \in Mac, n \notin struck',
                    uses'[n] # IPADDR_ANY
             PROVE  station'[n] = uses'[n] /\ Holds(plist', n, uses'[n], 1)
  BY DEF InUse
<1>1. ASSUME NEW m \in Mac, NEW ip \in Ciaddr, ClientUpdate(m, ip)
      PROVE  station'[n] = uses'[n] /\ Holds(plist', n, uses'[n], 1)
  <2>1. /\ \A k, a, w : k # m /\ Holds(plist, k, a, w) => Holds(plist', k, a, w)
        /\ \/ uses'[m] = IPADDR_ANY
           \/ station'[m] = uses'[m] /\ Holds(plist', m, uses'[m], 1)
        /\ \A k \in Mac \ {m} : uses'[k] = uses[k] /\ station'[k] = station[k]
        /\ struck' = struck \ {m}
    BY <1>1, UpdateStep
  <2>2. CASE n = m
    BY <2>1, <2>2
  <2>3. CASE n # m
    BY <2>1, <2>3 DEF InUse
  <2> QED BY <2>2, <2>3
<1>2. ASSUME NEW m \in Mac, NEW ip \in Addr, NEW force \in BOOLEAN, ClientLeave(m, ip, force)
      PROVE  station'[n] = uses'[n] /\ Holds(plist', n, uses'[n], 1)
  <2>1. /\ \A k, a, w : k # m /\ Holds(plist, k, a, w) => Holds(plist', k, a, w)
        /\ uses'[m] = IPADDR_ANY
        /\ \A k \in Mac \ {m} : uses'[k] = uses[k] /\ station'[k] = station[k]
        /\ struck' = struck \ {m}
    BY <1>2, LeaveStep
  <2>2. n # m
    BY <2>1
  <2> QED BY <2>1, <2>2 DEF InUse
<1>3. CASE CoarseTmr
  <2>1. /\ uses'[n] = uses[n] /\ station' = station
        /\ HasLease(plist, n) => HasLease(Aged(plist), n)
        /\ n \notin struck /\ n \notin StruckBy(plist)
        /\ \A k, a : /\ k \notin StruckBy(plist)
                     /\ Holds(plist, k, a, 1) /\ HasLease(Aged(plist), k)
                     => Holds(plist', k, a, 1)
    BY <1>3, TickStep
  <2>2. station[n] = uses[n] /\ Holds(plist, n, uses[n], 1)
    BY <2>1 DEF InUse
  <2>3. HasLease(plist, n)
    <3>1. DOMAIN plist = 1 .. Len(plist)
      BY NodeFacts DEF IInv, GoodList
    <3> QED BY <2>2, <3>1 DEF Holds, HasLease
  <2> QED BY <2>1, <2>2, <2>3
<1>4. CASE \E range \in Ranges : DhcpsStart(range)
  <2>1. plist' = plist /\ station' = station /\ uses' = uses /\ struck' = struck
    BY <1>4, StartStep
  <2> QED BY <2>1 DEF InUse
<1>5. CASE DhcpsStop
  BY <1>5, StopStep
<1>6. CASE UNCHANGED vars
  BY <1>6 DEF vars, InUse
<1> QED BY <1>1, <1>2, <1>3, <1>4, <1>5, <1>6 DEF Next

\* Every step keeps the leased addresses apart, while leases are in place.
LEMMA ApartStep == IInv /\ Apart /\ [Next]_vars => Apart'
<1> SUFFICES ASSUME IInv, Apart, [Next]_vars PROVE Apart'
  OBVIOUS
<1>1. CASE \E m \in Mac, ip \in Ciaddr : ClientUpdate(m, ip)
  BY <1>1, UpdateStep
<1>2. CASE \E m \in Mac, ip \in Addr, force \in BOOLEAN : ClientLeave(m, ip, force)
  BY <1>2, LeaveStep
<1>3. CASE CoarseTmr
  BY <1>3, TickStep
<1>4. CASE \E range \in Ranges : DhcpsStart(range)
  BY <1>4, StartStep
<1>5. CASE DhcpsStop
  BY <1>5, StopStep
<1>6. CASE UNCHANGED vars
  BY <1>6 DEF vars, Apart
<1> QED BY <1>1, <1>2, <1>3, <1>4, <1>5, <1>6 DEF Next

-----------------------------------------------------------------------------
(* 4. The theorems.                                                        *)

\* The list of leases is always well-formed.
THEOREM IInvAlways == Spec => []IInv
<1>1. Init => IInv
  BY InitFacts
<1>2. IInv /\ [Next]_vars => IInv'
  BY ListStep
<1> QED BY <1>1, <1>2, PTL DEF Spec

\* The variables of the server keep their types.
THEOREM TypeCorrect == Spec => []TypeOK
<1>1. IInv => TypeOK
  BY DEF IInv
<1> QED BY <1>1, IInvAlways, PTL

\* A client has one lease, however it asks, leaves or comes back
\* (wifi_softap_dhcps_client_update).
THEOREM OneLease == Spec => []OneLeasePerClient
<1>1. IInv => OneLeasePerClient
  <2> SUFFICES ASSUME IInv PROVE OneLeasePerClient
    OBVIOUS
  <2>1. DOMAIN plist = 1 .. Len(plist)
    BY NodeFacts DEF IInv, GoodList
  <2> QED BY <2>1 DEF IInv, GoodList, UniqueMac, OneLeasePerClient
<1> QED BY <1>1, IInvAlways, PTL

\* The list is sorted the way node_insert_to_list compares addresses, after
\* every request, departure and tick.
THEOREM StaysSorted == Spec => []Sorted
<1>1. IInv => Sorted
  <2> SUFFICES ASSUME IInv PROVE Sorted
    OBVIOUS
  <2>1. DOMAIN plist = 1 .. Len(plist)
    BY NodeFacts DEF IInv, GoodList
  <2> QED BY <2>1 DEF IInv, GoodList, SortedList, Sorted
<1> QED BY <1>1, IInvAlways, PTL

\* Clients use what the list leases to them.
LEMMA InUseAlways == Spec => []InUse
<1>1. Init => InUse
  BY InitFacts
<1>2. IInv /\ InUse /\ [Next]_vars => InUse'
  BY InUseStep
<1> QED BY <1>1, <1>2, IInvAlways, PTL DEF Spec

\* A client that kill_oldest_dhcps_pool did not strike uses an address only
\* while the list has an unlapsed lease of it for that client, and the blob was
\* told of that address.
THEOREM UsesOnlyLeased == Spec => []UsesWhatIsLeased
<1>1. IInv /\ InUse => UsesWhatIsLeased
  <2> SUFFICES ASSUME IInv, InUse PROVE UsesWhatIsLeased
    OBVIOUS
  <2>1. DOMAIN plist = 1 .. Len(plist)
    BY NodeFacts DEF IInv, GoodList
  <2> QED BY <2>1 DEF InUse, Holds, UsesWhatIsLeased
<1> QED BY <1>1, IInvAlways, InUseAlways, PTL

\* No two clients use one address, whatever ranges the server is started on and
\* whatever clients ask for, until a lease is out of its place: below the start
\* of the range or in another network.
THEOREM NothingShared == Spec => []NoSharedAddress
<1>1. Init => Apart
  BY InitFacts
<1>2. IInv /\ Apart /\ [Next]_vars => Apart'
  BY ApartStep
<1>3. IInv /\ InUse /\ Apart => NoSharedAddress
  <2> SUFFICES ASSUME InUse, Apart, placed,
                      NEW m \in Mac \ struck, NEW n \in Mac \ struck,
                      uses[m] = uses[n], m # n, uses[m] # IPADDR_ANY
               PROVE  FALSE
    BY DEF NoSharedAddress
  <2>1. PICK i \in 1 .. Len(plist) : plist[i].mac = m /\ plist[i].ip = uses[m]
    BY DEF InUse, Holds
  <2>2. PICK j \in 1 .. Len(plist) : plist[j].mac = n /\ plist[j].ip = uses[n]
    BY DEF InUse, Holds
  <2>3. i = j
    BY <2>1, <2>2 DEF Apart, UniqueIp
  <2> QED BY <2>1, <2>2, <2>3
<1> QED BY <1>1, <1>2, <1>3, IInvAlways, InUseAlways, PTL DEF Spec

\* A client without an address is refused (what it would get is past end_ip)
\* only if every address of the range is leased, when a range is in one network.
THEOREM RefusalIsJust ==
  ASSUME RangesInOneNet
  PROVE  Spec => RefusedOnlyWhenFull
<1>1. IInv /\ [Next]_vars =>
        [\A m \in Mac : result' = IPADDR_ANY /\ ClientUpdate(m, IPADDR_ANY) =>
           \A ip \in dhcps_lease.start .. dhcps_lease.end :
             \E i \in DOMAIN plist : plist[i].ip = ip]_vars
  <2> SUFFICES ASSUME IInv, NEW m \in Mac, ClientUpdate(m, IPADDR_ANY), result' = IPADDR_ANY,
                      NEW ip \in dhcps_lease.start .. dhcps_lease.end
               PROVE  \E i \in DOMAIN plist : plist[i].ip = ip
    OBVIOUS
  <2>1. GoodList(plist) /\ dhcps_lease \in Ranges /\ DOMAIN plist = 1 .. Len(plist)
    BY NodeFacts DEF IInv, TypeOK, GoodList
  <2>2. /\ GoodStart(dhcps_lease.start) /\ dhcps_lease.end \in Addr /\ IsFiniteSet(Mac)
        /\ dhcps_lease.start \div OCTET = dhcps_lease.end \div OCTET
    BY <2>1, InputFacts DEF RangesInOneNet
  <2>3. IPADDR_ANY # IPADDR_BROADCAST
    BY <2>2, AddrFacts DEF GoodStart, Addr, IPADDR_ANY
  <2>4. GiveAddress(plist, dhcps_lease, m).result = IPADDR_ANY
    BY <2>3 DEF ClientUpdate, Updated
  <2>5. \E i \in 1 .. Len(plist) : plist[i].ip = ip
    BY <2>1, <2>2, <2>4, RefusedFull
  <2> QED BY <2>1, <2>5
<1> QED BY <1>1, IInvAlways, PTL DEF Spec, RefusedOnlyWhenFull

=============================================================================
