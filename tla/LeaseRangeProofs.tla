-------------------------- MODULE LeaseRangeProofs --------------------------
(***************************************************************************)
(* Proofs about LeaseRange, for every choice of its constants: the range   *)
(* of a started server is sound, and stays what it is.                     *)
(***************************************************************************)
EXTENDS LeaseRange, TLAPS

\* What a started server knows of its range: it is either the user's, checked
\* against the address it answers with, or the one made up from that address.
\* The action property needs it, to say that starting again changes nothing.
StartedInv ==
  status = "STARTED" =>
    /\ server_address = ap_ip
    /\ IF dhcps_lease.enable THEN Fits(dhcps_lease, ap_ip)
                             ELSE dhcps_lease = DefaultLease(ap_ip)

RangeInv == TypeOK /\ StartedInv

\* wifi_softap_init_dhcps_lease makes up a range of legal addresses...
LEMMA DefaultIsLease ==
  ASSUME NEW ip \in Addr
  PROVE  DefaultLease(ip) \in Lease /\ ~DefaultLease(ip).enable
<1> DEFINE first == IF ip.host >= HALF THEN ip.host - DHCPS_MAX_LEASE ELSE ip.host + 1
<1>1. /\ ip.net \in Net /\ ip.host \in 0 .. OCTET - 1
      /\ OCTET \in Nat /\ HALF \in Nat /\ DHCPS_MAX_LEASE \in Nat \ {0}
      /\ DHCPS_MAX_LEASE <= HALF /\ HALF + DHCPS_MAX_LEASE <= OCTET
  BY RangeConstants DEF Addr
<1>2. first \in 0 .. OCTET - 1 /\ first + DHCPS_MAX_LEASE - 1 \in 0 .. OCTET - 1
  BY <1>1
<1> HIDE DEF first
<1>3. DefaultLease(ip) = [enable |-> FALSE,
                          start_ip |-> [net |-> ip.net, host |-> first],
                          end_ip |-> [net |-> ip.net, host |-> first + DHCPS_MAX_LEASE - 1]]
  BY DEF DefaultLease, first
<1>4. /\ [net |-> ip.net, host |-> first] \in Addr
      /\ [net |-> ip.net, host |-> first + DHCPS_MAX_LEASE - 1] \in Addr
  BY <1>1, <1>2 DEF Addr
<1> QED  BY <1>3, <1>4 DEF Lease

\* ... that passes the check the user's range has to pass.
LEMMA DefaultFits ==
  ASSUME NEW ip \in Addr
  PROVE  Fits(DefaultLease(ip), ip)
<1>1. /\ ip.net \in Nat /\ ip.host \in 0 .. OCTET - 1
      /\ OCTET \in Nat /\ HALF \in Nat /\ DHCPS_MAX_LEASE \in Nat \ {0}
  BY RangeConstants DEF Addr
<1> QED
  BY <1>1 DEF Fits, DefaultLease, Leq

\* A range that passes the check is what a started server's has to be.
LEMMA FitsIsSound ==
  ASSUME NEW ip \in Addr, NEW lease \in Lease, Fits(lease, ip)
  PROVE  /\ lease.start_ip.net = ip.net /\ lease.end_ip.net = ip.net
         /\ lease.start_ip.host <= lease.end_ip.host
         /\ lease.end_ip.host <= lease.start_ip.host + DHCPS_MAX_LEASE
         /\ ~Contains(lease, ip)
<1>1. /\ OCTET \in Nat /\ DHCPS_MAX_LEASE \in Nat
      /\ lease.start_ip.host \in 0 .. OCTET - 1 /\ lease.end_ip.host \in 0 .. OCTET - 1
  BY RangeConstants DEF Lease, Addr
<1> QED  BY <1>1 DEF Fits, Contains

\* Starting the server, from any state and on any address: the range is as a
\* started server's range has to be, and a range that was one already, for the
\* same address, is left alone.
LEMMA StartFacts ==
  ASSUME RangeInv, NEW ip \in Addr, NEW obtained \in BOOLEAN, DhcpsStart(ip, obtained)
  PROVE  /\ RangeInv'
         /\ status = "STARTED" /\ server_address' = server_address
              => dhcps_lease' = dhcps_lease
<1> DEFINE kept == dhcps_lease.enable /\ Fits(dhcps_lease, ip)
<1>1. /\ ap_ip' = ip /\ server_address' = ip
      /\ serving' = obtained /\ status' = "STARTED" /\ dhcps_lease_time' = dhcps_lease_time
      /\ dhcps_lease' = IF kept THEN dhcps_lease ELSE DefaultLease(ip)
  BY DEF DhcpsStart
<1>2. /\ dhcps_lease \in Lease /\ dhcps_lease.enable \in BOOLEAN
      /\ DefaultLease(ip) \in Lease /\ ~DefaultLease(ip).enable
  BY DefaultIsLease DEF RangeInv, TypeOK, Lease
<1>3. TypeOK'
  BY <1>1, <1>2 DEF RangeInv, TypeOK
<1>4. StartedInv'
  <2>1. CASE kept
    <3>1. dhcps_lease' = dhcps_lease
      BY <1>1, <2>1
    <3> QED  BY <3>1, <1>1, <2>1 DEF StartedInv
  <2>2. CASE ~kept
    <3>1. dhcps_lease' = DefaultLease(ip)
      BY <1>1, <2>2
    <3>2. dhcps_lease' = DefaultLease(ap_ip')
      BY <3>1, <1>1
    <3> QED  BY <3>1, <3>2, <1>1, <1>2 DEF StartedInv
  <2> QED  BY <2>1, <2>2
<1>5. ASSUME status = "STARTED", server_address' = server_address
      PROVE  dhcps_lease' = dhcps_lease
  <2>1. ip = ap_ip
    BY <1>1, <1>5 DEF RangeInv, StartedInv
  <2> QED  BY <1>1, <1>5, <2>1 DEF RangeInv, StartedInv
<1> QED  BY <1>3, <1>4, <1>5 DEF RangeInv

\* Every step keeps the invariant, one case per operation of the module.
LEMMA RangeStep ==
  ASSUME RangeInv, [Next]_vars
  PROVE  RangeInv'
<1>1. ASSUME NEW ip \in Addr, SetIpInfo(ip)  PROVE RangeInv'
  BY <1>1 DEF RangeInv, TypeOK, StartedInv, SetIpInfo
<1>2. ASSUME NEW please \in Lease, SetDhcpsLease(please)  PROVE RangeInv'
  <2>1. dhcps_lease' \in Lease
    BY <1>2 DEF RangeInv, TypeOK, SetDhcpsLease, Lease
  <2> QED  BY <1>2, <2>1 DEF RangeInv, TypeOK, StartedInv, SetDhcpsLease
<1>3. ASSUME NEW ip \in Addr, NEW obtained \in BOOLEAN, DhcpsStart(ip, obtained)
      PROVE  RangeInv'
  BY <1>3, StartFacts
<1>4. ASSUME DhcpsStop  PROVE RangeInv'
  BY <1>4 DEF RangeInv, TypeOK, StartedInv, DhcpsStop
<1>5. ASSUME NEW minute \in 0 .. MaxMinutes, SetLeaseTime(minute)  PROVE RangeInv'
  <2>1. minute \in 1 .. MaxMinutes
    BY <1>5, RangeConstants DEF SetLeaseTime
  <2> QED  BY <1>5, <2>1 DEF RangeInv, TypeOK, StartedInv, SetLeaseTime
<1>6. ASSUME UNCHANGED vars  PROVE RangeInv'
  BY <1>6 DEF RangeInv, TypeOK, StartedInv, vars
<1> QED  BY <1>1, <1>2, <1>3, <1>4, <1>5, <1>6 DEF Next

\* The invariant holds of every reachable state.
THEOREM RangeInvAlways == Spec => []RangeInv
<1>1. Init => RangeInv
  <2> SUFFICES ASSUME Init  PROVE RangeInv
    OBVIOUS
  <2>1. Zero \in Addr /\ DHCPS_LEASE_TIME_DEF \in 1 .. MaxMinutes
    BY RangeConstants DEF Addr, Zero
  <2>2. dhcps_lease \in Lease
    BY <2>1 DEF Init, Lease
  <2> QED  BY <2>1, <2>2 DEF Init, RangeInv, TypeOK, StartedInv
<1> QED  BY <1>1, RangeStep, PTL DEF Spec

\* The range and the lease time always have values of their types: the made-up
\* range never leaves the access point's network, and a lease is never of no time.
THEOREM RangeTypeCorrect == Spec => []TypeOK
<1>1. RangeInv => TypeOK
  BY DEF RangeInv
<1> QED  BY <1>1, RangeInvAlways, PTL

\* A started server's range is in the access point's network, is not empty, not
\* too long, and does not contain the access point's address.
THEOREM RangeIsSound == Spec => []StartedRangeIsSound
<1>1. RangeInv => StartedRangeIsSound
  <2> SUFFICES ASSUME RangeInv, status = "STARTED"
               PROVE  StartedRangeIsSound
    BY DEF StartedRangeIsSound
  <2>1. ap_ip \in Addr /\ dhcps_lease \in Lease /\ server_address = ap_ip
    BY DEF RangeInv, TypeOK, StartedInv
  <2>2. Fits(dhcps_lease, ap_ip)
    BY <2>1, DefaultFits DEF RangeInv, StartedInv
  <2> QED  BY <2>1, <2>2, FitsIsSound DEF StartedRangeIsSound
<1> QED  BY <1>1, RangeInvAlways, PTL

\* Under a started server nothing changes the lease time, and nothing the range
\* but a start on another address.
THEOREM ConfigIsStable == Spec => StartedConfigIsStable
<1> DEFINE Stable ==
       status = "STARTED" =>
         /\ dhcps_lease_time' = dhcps_lease_time
         /\ dhcps_lease' # dhcps_lease => server_address' # server_address
<1>1. RangeInv /\ [Next]_vars => [Stable]_vars
  <2> SUFFICES ASSUME RangeInv, Next, status = "STARTED"
               PROVE  /\ dhcps_lease_time' = dhcps_lease_time
                      /\ dhcps_lease' # dhcps_lease => server_address' # server_address
    BY DEF vars
  <2>1. \/ \E ip \in Addr, obtained \in BOOLEAN : DhcpsStart(ip, obtained)
        \/ DhcpsStop
    BY DEF Next, SetIpInfo, SetDhcpsLease, SetLeaseTime
  <2>2. ASSUME NEW ip \in Addr, NEW obtained \in BOOLEAN, DhcpsStart(ip, obtained)
        PROVE  /\ dhcps_lease_time' = dhcps_lease_time
               /\ dhcps_lease' # dhcps_lease => server_address' # server_address
    BY <2>2, StartFacts DEF DhcpsStart
  <2>3. CASE DhcpsStop
    BY <2>3 DEF DhcpsStop
  <2> QED  BY <2>1, <2>2, <2>3
<1>2. Spec => [][Stable]_vars
  BY <1>1, RangeInvAlways, PTL DEF Spec
<1> QED  BY <1>2 DEF StartedConfigIsStable

=============================================================================
