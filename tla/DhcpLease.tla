----------------------------- MODULE DhcpLease -----------------------------
(***************************************************************************)
(* The lease table of the access point's DHCP server (dhcpserver.c), as    *)
(* its callers see it: clients ask, clients leave, the expiry tick, the    *)
(* restart of the server on another range.  What each operation makes of   *)
(* the list is in LeaseTable.                                              *)
(***************************************************************************)
EXTENDS LeaseTable

CONSTANTS
  Ciaddr,  \* the addresses clients say they have
  Ranges   \* the ranges [start, end] the server may be started on

\* The last conjunct: counting addresses from the start of a range up, one for
\* each station, does not wrap (the u32_t of the code).
ASSUME InputConstants ==
  /\ IsFiniteSet(Mac)
  /\ Ciaddr \subseteq Addr
  /\ Ranges \subseteq [start : Addr \ {IPADDR_ANY}, end : Addr]
  /\ \A range \in Ranges : range.start + Cardinality(Mac) <= IPADDR_BROADCAST

VARIABLES
  plist,        \* the leases, sorted by Raw
  dhcps_lease,  \* the range in force
  renew,        \* did the last request confirm the client's own lease?
  result,       \* what the last wifi_softap_dhcps_client_update returned
  station,      \* the address the blob was told each station has
  uses,         \* the address each client believes it may use, or IPADDR_ANY
  \* History, that no operation reads:
  struck,       \* the clients using what kill_oldest_dhcps_pool took from them
  placed        \* was every lease in the network of the range, from its start on,
                \* ever since the last stop?

vars == <<plist, dhcps_lease, renew, result, station, uses, struck, placed>>

\* Every lease is for an address of the range's network, from its start on.
InPlace(list, range) ==
  \A i \in DOMAIN list : /\ list[i].ip >= range.start
                          /\ list[i].ip \div OCTET = range.start \div OCTET

Init ==
  /\ plist = <<>>
  /\ dhcps_lease \in Ranges
  /\ renew = FALSE
  /\ result = IPADDR_ANY
  /\ station = [m \in Mac |-> IPADDR_ANY]
  /\ uses = [m \in Mac |-> IPADDR_ANY]
  /\ struck = {}
  /\ placed = TRUE

-----------------------------------------------------------------------------
\* wifi_softap_dhcps_client_update(bssid, ip).  The client uses what it is
\* granted, and nothing when it is refused.
ClientUpdate(m, ip) ==
  LET update == Updated(plist, dhcps_lease, renew, m, ip)
  IN  /\ plist' = update.plist /\ renew' = update.renew /\ result' = update.result
      /\ station' = IF update.told THEN [station EXCEPT ![m] = update.result] ELSE station
      /\ uses' = [uses EXCEPT ![m] = update.result]
      /\ struck' = struck \ {m}
      /\ placed' = (placed /\ InPlace(update.plist, dhcps_lease))
      /\ UNCHANGED dhcps_lease

\* wifi_softap_dhcps_client_leave(bssid, ip, force)
ClientLeave(m, ip, force) ==
  /\ LeaseOf(plist, m, ip) # 0
  /\ plist' = Left(plist, LeaseOf(plist, m, ip), force)
  /\ station' = [station EXCEPT ![m] = IPADDR_ANY]
  /\ uses' = [uses EXCEPT ![m] = IPADDR_ANY]
  /\ struck' = struck \ {m}
  /\ UNCHANGED <<dhcps_lease, renew, result, placed>>

\* The clients whose leases the tick evicts and marks as gone.
StruckBy(list) ==
  IF Crowded(list) THEN {Aged(list)[Oldest(Aged(list))].mac, Last(Aged(list)).mac} ELSE {}

\* dhcps_coarse_tmr.  A client whose lease ran out stops using its address.
\* One whose lease was evicted is told nothing: it goes on until its own time
\* is over, at whichever tick that is.
CoarseTmr ==
  /\ plist # <<>>
  /\ plist' = Ticked(plist)
  /\ \E gone \in SUBSET {m \in Mac : uses[m] # IPADDR_ANY /\ ~HasLease(plist, m)} :
       LET Ends(m) == m \in gone \/ (HasLease(plist, m) /\ ~HasLease(Aged(plist), m))
       IN  uses' = [m \in Mac |-> IF Ends(m) THEN IPADDR_ANY ELSE uses[m]]
  /\ struck' = {m \in struck \cup StruckBy(plist) : uses'[m] # IPADDR_ANY}
  /\ UNCHANGED <<dhcps_lease, renew, result, station, placed>>

\* dhcps_start on a running server: the leases stay.
DhcpsStart(range) ==
  /\ dhcps_lease' = range
  /\ placed' = (placed /\ InPlace(plist, range))
  /\ UNCHANGED <<plist, renew, result, station, uses, struck>>

\* dhcps_stop
DhcpsStop ==
  /\ plist' = <<>>
  /\ station' = [m \in Mac |-> IF HasLease(plist, m) THEN IPADDR_ANY ELSE station[m]]
  /\ uses' = [m \in Mac |-> IPADDR_ANY]
  /\ struck' = {}
  /\ placed' = TRUE
  /\ UNCHANGED <<dhcps_lease, renew, result>>

Next ==
  \/ \E m \in Mac, ip \in Ciaddr : ClientUpdate(m, ip)
  \/ \E m \in Mac, ip \in Addr, force \in BOOLEAN : ClientLeave(m, ip, force)
  \/ CoarseTmr
  \/ \E range \in Ranges : DhcpsStart(range)
  \/ DhcpsStop

Spec == Init /\ [][Next]_vars

-----------------------------------------------------------------------------
(* Properties.                                                             *)

TypeOK ==
  /\ plist \in Seq(Node)
  /\ dhcps_lease \in Ranges
  /\ renew \in BOOLEAN
  /\ result \in Addr
  /\ station \in [Mac -> Addr]
  /\ uses \in [Mac -> Addr]
  /\ struck \subseteq Mac
  /\ placed \in BOOLEAN

\* A client has one lease, however it moves between addresses.
OneLeasePerClient ==
  \A i, j \in DOMAIN plist : plist[i].mac = plist[j].mac => i = j

\* The list stays sorted: Candidate finds holes only in a sorted list.
Sorted ==
  \A i, j \in DOMAIN plist : i < j => Raw(plist[i].ip) <= Raw(plist[j].ip)

\* No two clients use one address: an address goes to another client only
\* after the first left or its lease ran out ("ip is used", dhcpserver.c).
AddressesDiffer ==
  \A m, n \in Mac : uses[m] = uses[n] /\ m # n => uses[m] = IPADDR_ANY

\* So it is as long as no lease was for an address below the range or of another
\* network, clients with evicted leases aside, however leases move and end.
NoSharedAddress ==
  placed => \A m, n \in Mac \ struck :
              uses[m] = uses[n] /\ m # n => uses[m] = IPADDR_ANY

\* What a client uses is leased to it, and is what the blob was told, unless
\* the client's lease was evicted.
UsesWhatIsLeased ==
  \A m \in Mac \ struck : uses[m] # IPADDR_ANY =>
    /\ station[m] = uses[m]
    /\ \E i \in DOMAIN plist : /\ plist[i].mac = m /\ plist[i].ip = uses[m]
                               /\ plist[i].state = "ONLINE"

\* The lease of the address a client uses is not taken away by another client's
\* request ("ip is used", wifi_softap_dhcps_client_update).  It is, once
\* kill_oldest_dhcps_pool has marked the wrong client as gone.
LeasedTo(list, m, a) ==
  a # IPADDR_ANY /\ \E i \in DOMAIN list : list[i].mac = m /\ list[i].ip = a

UsedIsKept ==
  [][\A m, n \in Mac, ip \in Ciaddr :
       m # n /\ LeasedTo(plist, m, uses[m]) /\ ClientUpdate(n, ip)
         => LeasedTo(plist', m, uses[m])]_vars

\* A client without an address is turned away only if the range is all leased.
RefusedOnlyWhenFull ==
  [][\A m \in Mac : result' = IPADDR_ANY /\ ClientUpdate(m, IPADDR_ANY) =>
       \A ip \in dhcps_lease.start .. dhcps_lease.end :
         \E i \in DOMAIN plist : plist[i].ip = ip]_vars

=============================================================================
