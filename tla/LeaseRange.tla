----------------------------- MODULE LeaseRange -----------------------------
(***************************************************************************)
(* The range of addresses the DHCP server hands out (dhcpserver.c): how    *)
(* the user sets it, how dhcps_start checks it again against the address   *)
(* of the access point, or makes one up, and when it is in use.            *)
(*                                                                         *)
(* An address is its network (the upper three octets) and its host number. *)
(***************************************************************************)
EXTENDS Integers

CONSTANTS
  Net,              \* the networks, as numbers; 0 is that of 0.0.0.0
  OCTET,            \* 0x100: host numbers are 0 .. OCTET - 1
  HALF,             \* 0x80
  DHCPS_MAX_LEASE,  \* 0x64
  DHCPS_LEASE_TIME_DEF,
  MaxMinutes        \* bound: the longest lease time a user sets

ASSUME RangeConstants ==
  /\ Net \subseteq Nat /\ 0 \in Net
  /\ OCTET \in Nat /\ HALF \in Nat /\ DHCPS_MAX_LEASE \in Nat \ {0}
  /\ DHCPS_MAX_LEASE <= HALF
  /\ HALF + DHCPS_MAX_LEASE <= OCTET
  /\ MaxMinutes \in Nat
  /\ DHCPS_LEASE_TIME_DEF \in 1 .. MaxMinutes

VARIABLES
  ap_ip,           \* the access point's address (wifi_get_ip_info)
  status,          \* what wifi_softap_dhcps_status answers
  serving,         \* is the server's pcb bound, so that it answers clients?
  server_address,  \* the address it answers with
  dhcps_lease,     \* the range; enable: the user set it
  dhcps_lease_time

vars == <<ap_ip, status, serving, server_address, dhcps_lease, dhcps_lease_time>>

Addr == [net : Net, host : 0 .. OCTET - 1]
Lease == [enable : BOOLEAN, start_ip : Addr, end_ip : Addr]
Zero == [net |-> 0, host |-> 0]

Leq(a, b) == a.net < b.net \/ (a.net = b.net /\ a.host <= b.host)

Init ==
  /\ ap_ip \in Addr
  /\ status = "STOPPED" /\ serving = FALSE /\ server_address = Zero
  /\ dhcps_lease = [enable |-> FALSE, start_ip |-> Zero, end_ip |-> Zero]
  /\ dhcps_lease_time = DHCPS_LEASE_TIME_DEF

\* "config ip information can't contain local ip", "must be in the same
\* segment", and end - start <= DHCPS_MAX_LEASE as an unsigned difference.
Fits(lease, ip) ==
  /\ ~(Leq(lease.start_ip, ip) /\ Leq(ip, lease.end_ip))
  /\ lease.start_ip.net = ip.net /\ lease.end_ip.net = ip.net
  /\ lease.end_ip.host - lease.start_ip.host \in 0 .. DHCPS_MAX_LEASE

\* (A mistake: the range is above the address even where there is no room.)
DefaultLease_AlwaysAbove(ip) ==
  [enable |-> FALSE,
   start_ip |-> [net |-> ip.net, host |-> ip.host + 1],
   end_ip |-> [net |-> ip.net, host |-> ip.host + DHCPS_MAX_LEASE]]

\* The DHCPS_MAX_LEASE addresses next to the access point's, on the roomier side.
DefaultLease(ip) ==
  LET first == IF ip.host >= HALF THEN ip.host - DHCPS_MAX_LEASE ELSE ip.host + 1
  IN  [enable |-> FALSE,
       start_ip |-> [net |-> ip.net, host |-> first],
       end_ip |-> [net |-> ip.net, host |-> first + DHCPS_MAX_LEASE - 1]]

-----------------------------------------------------------------------------
\* The SDK lets the access point's address change while the server is stopped.
SetIpInfo(ip) ==
  /\ status = "STOPPED"
  /\ ap_ip' = ip
  /\ UNCHANGED <<status, serving, server_address, dhcps_lease, dhcps_lease_time>>

\* (A mistake: a started server is not a reason to refuse.)
SetDhcpsLease_WhileStarted(please) ==
  /\ please.enable => Fits(please, ap_ip)
  /\ dhcps_lease' = IF please.enable THEN please ELSE [dhcps_lease EXCEPT !.enable = FALSE]
  /\ UNCHANGED <<ap_ip, status, serving, server_address, dhcps_lease_time>>

\* wifi_softap_set_dhcps_lease, in a mode that has an access point.
SetDhcpsLease(please) ==
  /\ status = "STOPPED"
  /\ please.enable => Fits(please, ap_ip)
  /\ dhcps_lease' = IF please.enable THEN please ELSE [dhcps_lease EXCEPT !.enable = FALSE]
  /\ UNCHANGED <<ap_ip, status, serving, server_address, dhcps_lease_time>>

\* (A mistake: the user's range is believed without checking it again.)
DhcpsStart_NoRecheck(ip, obtained) ==
  /\ dhcps_lease' = IF dhcps_lease.enable THEN dhcps_lease ELSE DefaultLease(ip)
  /\ server_address' = ip /\ ap_ip' = ip
  /\ serving' = obtained /\ status' = "STARTED"
  /\ UNCHANGED dhcps_lease_time

\* dhcps_start(info) with wifi_softap_init_dhcps_lease, on a stopped server or
\* again on a started one: info's address is checked against, answered with,
\* and given to the access point (wifi_set_ip_info).  Where udp_new has no
\* memory a message is printed, and all goes on without a pcb.
DhcpsStart(ip, obtained) ==
  /\ dhcps_lease' = IF dhcps_lease.enable /\ Fits(dhcps_lease, ip)
                    THEN dhcps_lease ELSE DefaultLease(ip)
  /\ server_address' = ip /\ ap_ip' = ip
  /\ serving' = obtained /\ status' = "STARTED"
  /\ UNCHANGED dhcps_lease_time

\* The blob stops its server. What it calls is the stub dhcps_stop of
\* lwip-esp.c: the pcb stays bound (the dhcps_stop of dhcpserver.c, renamed by
\* arch/cc.h, is called by nothing).
DhcpsStop ==
  /\ status = "STARTED"
  /\ status' = "STOPPED"
  /\ UNCHANGED <<ap_ip, serving, server_address, dhcps_lease, dhcps_lease_time>>

\* wifi_softap_set_dhcps_lease_time and wifi_softap_reset_dhcps_lease_time
SetLeaseTime(minute) ==
  /\ status = "STOPPED" /\ minute # 0
  /\ dhcps_lease_time' = minute
  /\ UNCHANGED <<ap_ip, status, serving, server_address, dhcps_lease>>

Next ==
  \/ \E ip \in Addr : SetIpInfo(ip)
  \/ \E please \in Lease : SetDhcpsLease(please)
  \/ \E ip \in Addr, obtained \in BOOLEAN : DhcpsStart(ip, obtained)
  \/ DhcpsStop
  \/ \E minute \in 0 .. MaxMinutes : SetLeaseTime(minute)

Spec == Init /\ [][Next]_vars

-----------------------------------------------------------------------------
(* Properties.                                                             *)

TypeOK ==
  /\ ap_ip \in Addr /\ server_address \in Addr
  /\ status \in {"STOPPED", "STARTED"} /\ serving \in BOOLEAN
  /\ dhcps_lease \in Lease
  /\ dhcps_lease_time \in 1 .. MaxMinutes

Contains(lease, ip) == Leq(lease.start_ip, ip) /\ Leq(ip, lease.end_ip)

\* While the server is started, whatever the user set and wherever the access
\* point was moved before, the range is in its network, is not empty, is not
\* too long, and does not contain its address.
StartedRangeIsSound ==
  status = "STARTED" =>
    /\ server_address = ap_ip
    /\ dhcps_lease.start_ip.net = ap_ip.net /\ dhcps_lease.end_ip.net = ap_ip.net
    /\ dhcps_lease.start_ip.host <= dhcps_lease.end_ip.host
    /\ dhcps_lease.end_ip.host <= dhcps_lease.start_ip.host + DHCPS_MAX_LEASE
    /\ ~Contains(dhcps_lease, ap_ip)

\* Under a started server the lease time does not change, and the range only
\* with the server's address, not even when it is started again
\* (wifi_softap_set_dhcps_lease and its like refuse; for the same address
\* wifi_softap_init_dhcps_lease finds what it found the first time).
StartedConfigIsStable ==
  [][status = "STARTED" =>
       /\ dhcps_lease_time' = dhcps_lease_time
       /\ dhcps_lease' # dhcps_lease => server_address' # server_address]_vars

=============================================================================
