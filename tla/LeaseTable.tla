----------------------------- MODULE LeaseTable -----------------------------
(***************************************************************************)
(* The list of leases of the access point's DHCP server (dhcpserver.c) and *)
(* what each operation makes of it: the choice of an address for a client, *)
(* its departure, the expiry tick.  DhcpLease and DhcpServer have the      *)
(* state machines.                                                         *)
(*                                                                         *)
(* An address is its host-order number.  The code compares addresses as    *)
(* they lie in memory, so the last octet weighs most: that order is Raw.   *)
(***************************************************************************)
EXTENDS Integers, FiniteSets, Sequences, SequencesExt

CONSTANTS
  Mac,              \* the stations
  NETS, OCTET,      \* number of networks, and of addresses in each (2^8)
  DHCPS_LEASE_TIMER,
  MAX_STATION_NUM

ASSUME LeaseConstants ==
  /\ NETS \in Nat \ {0} /\ OCTET \in Nat \ {0}
  /\ DHCPS_LEASE_TIMER \in Nat \ {0}
  /\ MAX_STATION_NUM \in Nat \ {0, 1}

IPADDR_ANY == 0
IPADDR_BROADCAST == NETS * OCTET - 1
Addr == 0 .. IPADDR_BROADCAST

Raw(ip) == (ip % OCTET) * NETS + ip \div OCTET

Node == [ip : Addr, mac : Mac, lease_timer : 1 .. DHCPS_LEASE_TIMER,
         type : {"DYNAMIC", "STATIC"}, state : {"ONLINE", "OFFLINE"}]

\* node_insert_to_list: before the first node with a greater address.
Insert(list, node) ==
  LET i == SelectInSeq(list, LAMBDA n : Raw(node.ip) < Raw(n.ip))
  IN  IF i = 0 THEN Append(list, node) ELSE InsertAt(list, i, node)

\* (A mistake: the lease runs on from its first day.)
Renewed_KeepTimer(node, type) == [node EXCEPT !.type = type, !.state = "ONLINE"]

Renewed(node, type) ==
  [node EXCEPT !.lease_timer = DHCPS_LEASE_TIMER, !.type = type, !.state = "ONLINE"]

Lease(ip, m, type) ==
  [ip |-> ip, mac |-> m, lease_timer |-> DHCPS_LEASE_TIMER, type |-> type,
   state |-> "ONLINE"]

HasLease(list, m) == \E i \in DOMAIN list : list[i].mac = m
FirstOf(list, m) == SelectInSeq(list, LAMBDA n : n.mac = m)
LastOf(list, m) == SelectLastInSeq(list, LAMBDA n : n.mac = m)
LastAt(list, ip) == SelectLastInSeq(list, LAMBDA n : n.ip = ip)

\* (A mistake: the node keeps its place.)
Move_InPlace(list, i, ip, type) ==
  [list EXCEPT ![i] = Renewed([@ EXCEPT !.ip = ip], type)]

\* The node of a known client gets another address, and its place for it.
Move(list, i, ip, type) ==
  Insert(RemoveAt(list, i), Renewed([list[i] EXCEPT !.ip = ip], type))

\* (A mistake: the next address after all the leases, holes or not.)
Candidate_PastLast(list, start, m) == start + Len(list)

\* The first address from start on that the walk did not find at its place.
\* The walk ends at the client's own node.
Candidate(list, start, m) ==
  LET last == IF FirstOf(list, m) = 0 THEN Len(list) ELSE FirstOf(list, m) - 1
      InPlace(i) == list[i].ip = start + i - 1
      k == CHOOSE k \in 0 .. last : /\ \A i \in 1 .. k : InPlace(i)
                                    /\ k < last => ~InPlace(k + 1)
  IN  start + k

-----------------------------------------------------------------------------
(* wifi_softap_dhcps_client_update(bssid, ip): what it returns, the list   *)
(* and renew it leaves, and whether it tells the blob.                     *)

Refused(list, renew) ==
  [result |-> IPADDR_ANY, plist |-> list, renew |-> renew, told |-> FALSE]

\* (A mistake: the blob is not told.)
Granted_NotTold(ip, list, renew) ==
  [result |-> ip, plist |-> list, renew |-> renew, told |-> FALSE]

Granted(ip, list, renew) ==
  [result |-> ip, plist |-> list, renew |-> renew, told |-> TRUE]

\* The client has no address: it gets the lowest that is free.
GiveAddress(list, range, m) ==
  LET i == FirstOf(list, m)
      ip == Candidate(list, range.start, m)
  IN  IF i = 0 /\ Raw(ip) > Raw(range.end) THEN Refused(list, FALSE)
      ELSE Granted(ip, IF i = 0 THEN Insert(list, Lease(ip, m, "DYNAMIC"))
                                ELSE Move(list, i, ip, "DYNAMIC"), FALSE)

\* (A mistake: the state of the address's node is not looked at.)
KeepAddress_Steal(list, range, m, ip) ==
  LET j == LastAt(list, ip)
  IN  IF j = 0 \/ LastOf(list, m) # 0 THEN Refused(list, FALSE)
      ELSE Granted(ip, [list EXCEPT ![j] = Lease(ip, m, "STATIC")], FALSE)

\* (A mistake: taking another node over, the client keeps its own too.)
KeepAddress_KeepBoth(list, range, m, ip) ==
  LET i == LastOf(list, m)
      j == LastAt(list, ip)
  IN  CASE j = 0 /\ i = 0 -> Granted(ip, Insert(list, Lease(ip, m, "STATIC")), FALSE)
        [] j # 0 /\ i # j /\ list[j].state = "OFFLINE"
             -> Granted(ip, [list EXCEPT ![j] = Lease(ip, m, "STATIC")], FALSE)
        [] OTHER -> Refused(list, FALSE)

\* The client says it has an address: i is its node, j the address's.
KeepAddress(list, range, m, ip) ==
  LET i == LastOf(list, m)
      j == LastAt(list, ip)
      inUse == j # 0 /\ i # j /\ list[j].state # "OFFLINE"
      beyond == i = 0 /\ j = 0 /\ Raw(ip) > Raw(range.end)
      takenOver == [list EXCEPT ![j] = Lease(ip, m, "STATIC")]
  IN  CASE inUse \/ beyond -> Refused(list, FALSE)
        [] j # 0 /\ i = j  -> Granted(ip, [list EXCEPT ![j] = Renewed(@, "DYNAMIC")], TRUE)
        [] j = 0 /\ i # 0  -> Granted(ip, Move(list, i, ip, "STATIC"), FALSE)
        [] j = 0 /\ i = 0 /\ ~beyond
             -> Granted(ip, Insert(list, Lease(ip, m, "STATIC")), FALSE)
        [] j # 0 /\ i # j /\ ~inUse
             -> Granted(ip, IF i = 0 THEN takenOver ELSE RemoveAt(takenOver, i), FALSE)

Updated(list, range, renew, m, ip) ==
  CASE ip = IPADDR_BROADCAST -> Refused(list, renew)
    [] ip = IPADDR_ANY       -> GiveAddress(list, range, m)
    [] OTHER                 -> KeepAddress(list, range, m, ip)

-----------------------------------------------------------------------------
(* wifi_softap_dhcps_client_leave and dhcps_coarse_tmr                     *)

LeaseOf(list, m, ip) == SelectInSeq(list, LAMBDA n : n.mac = m /\ n.ip = ip)

\* The client of lease i has gone; force if it said so itself.
Left(list, i, force) ==
  IF list[i].type = "STATIC" \/ force THEN RemoveAt(list, i)
  ELSE [list EXCEPT ![i].state = "OFFLINE"]

Older(node) ==
  IF node.type = "DYNAMIC" THEN [node EXCEPT !.lease_timer = @ - 1] ELSE node

\* The k-th of a set of places in the list.
Nth(places, k) == CHOOSE i \in places : Cardinality({j \in places : j <= i}) = k

\* (A mistake: expired leases stay.)
Aged_KeepExpired(list) == [i \in DOMAIN list |-> Older(list[i])]

\* One minute passes for every dynamic lease; the expired ones go.
Aged(list) ==
  LET older == [i \in DOMAIN list |-> Older(list[i])]
      Kept == {i \in DOMAIN list : older[i].lease_timer # 0}
  IN  [k \in 1 .. Cardinality(Kept) |-> older[Nth(Kept, k)]]

\* kill_oldest_dhcps_pool: the search starts at the second node, and it is
\* the node the search ended on, the last, that is marked.
Oldest(list) ==
  CHOOSE i \in 2 .. Len(list) :
    \A j \in 2 .. Len(list) :
      \/ list[i].lease_timer < list[j].lease_timer
      \/ list[i].lease_timer = list[j].lease_timer /\ i <= j

KillOldest(list) ==
  RemoveAt([list EXCEPT ![Len(list)].state = "OFFLINE"], Oldest(list))

Crowded(list) == Len(Aged(list)) >= MAX_STATION_NUM

Ticked(list) == IF Crowded(list) THEN KillOldest(Aged(list)) ELSE Aged(list)

=============================================================================
