------------------------------- MODULE Netif --------------------------------
(* The network interfaces of lwip-esp.c and lwip-git.c.  The blob has one  *)
(* struct netif for each of its two interfaces (esp); lwIP-2 has another   *)
(* (git).  The two are linked by the number netif_add gives, and by the    *)
(* one the blob knows an interface by (eagle_lwip_getif).  Both sides set  *)
(* addresses: the blob calls netif_set_addr, lwIP-2's DHCP client calls    *)
(* lwIP-2's, whose status callback writes back to the blob's copy.         *)
(*                                                                         *)
(* Every call runs to its end, callbacks included, before the next starts: *)
(* an action is one call of the blob or one event of the DHCP client.      *)
(* `net' is the netmask and the gateway, which are always set together.    *)
EXTENDS ErrCodes, Sequences, FiniteSets

CONSTANTS
  Ip,        \* addresses
  NoIp,      \* 0.0.0.0
  Net,       \* pairs of netmask and gateway
  NoNet,     \* both 0.0.0.0
  Config,    \* the addresses, with netmask and gateway, an interface is given
  NtpLists,  \* the lists of NTP servers a DHCP server may send
  AnyOrder,  \* may the blob add its interfaces in any order?
  NULL

Zero == [ip |-> NoIp, net |-> NoNet]

\* user_interface.h
STATION_IF == 0
SOFTAP_IF == 1
Idx == {STATION_IF, SOFTAP_IF}

ASSUME NetifConstants ==
  /\ NoIp \in Ip
  /\ NoNet \in Net
  /\ Zero \in Config /\ Config \subseteq [ip : Ip, net : Net]
  /\ \A l \in NtpLists : Len(l) \in Nat
  /\ AnyOrder \in BOOLEAN
  /\ NULL \notin Idx /\ NULL \notin Ip /\ NULL \notin NtpLists
  /\ NULL \notin [by : {"blob", "client"}, of : Idx, to : Config]

VARIABLES
  \* lwip-esp.c
  esp,           \* the blob's struct netif, one for each of its interfaces
  num,           \* their field num
  netif_esp,     \* number -> the blob's interface, or NULL
  esp_netif_num,
  \* lwip-git.c
  netif_git,     \* number -> lwIP-2's struct netif
  netif_default, \* lwIP-2's default route, a number or NULL
  dhcp,          \* the numbers lwIP-2 runs a DHCP client for
  ntp_servers,   \* a list, or NULL
  ntp_servers_number,
  \* what the blob knows, and what went wrong
  added,         \* the interfaces whose last netif_add returned the netif
  dhcpOk,        \* the interfaces whose last dhcp_start returned ERR_OK
  set,           \* what the last step was asked to set, by whom; or NULL
  told,          \* the call of system_station_got_ip_set in the last step:
                 \*   the address it was given as the old one, or NULL
  failed         \* the uasserts that have printed

esp_vars == <<esp, num, netif_esp, esp_netif_num>>
git_vars == <<netif_git, netif_default, dhcp>>
ntp_vars == <<ntp_servers, ntp_servers_number>>
vars == <<esp_vars, git_vars, ntp_vars, added, dhcpOk, set, told, failed>>

AddressOf(netif) == [ip |-> netif.ip, net |-> netif.net]
At(netif, a) == [netif EXCEPT !.ip = a.ip, !.net = a.net]

Asked(who, i, a) == [by |-> who, of |-> i, to |-> a]

\* A step computes the new values of these four together: a call of one side
\* calls the other back.
World(e, slot) ==
  [esp |-> e, slot |-> slot, git |-> netif_git, default |-> netif_default,
   told |-> NULL]

Becomes(w, asked) ==
  /\ esp' = w.esp
  /\ netif_esp' = w.slot
  /\ netif_git' = w.git
  /\ netif_default' = w.default
  /\ told' = w.told
  /\ set' = asked

-----------------------------------------------------------------------------
\* (A mistake the runs must find: the old address is saved too late.)
glue2esp_ifup_NewForOld(w, idx, a) ==
  LET i == w.slot[idx] IN
  [w EXCEPT !.esp[i] = [At(w.esp[i], a) EXCEPT !.up = TRUE], !.told = a.ip]

\* The blob takes lwIP-2's address, is up, and is told the old address "to
\* check it has changed".
glue2esp_ifup(w, idx, a) ==
  LET i == w.slot[idx] IN
  [w EXCEPT !.esp[i] = [At(w.esp[i], a) EXCEPT !.up = TRUE],
            !.told = w.esp[i].ip]

netif_sta_status_callback(w, idx, a) ==
  IF w.git[idx].link
  THEN [glue2esp_ifup(w, idx, a) EXCEPT !.default = STATION_IF]
  ELSE w

\* lwIP-2's netif_set_addr: the callback runs when the address changes.  An
\* address is removed before the netmask and the gateway are set, which the
\* callback then finds as they were.
lwip2_set_addr(w, idx, a) ==
  LET old == w.git[idx]
      seen == IF a.ip = NoIp THEN [a EXCEPT !.net = old.net] ELSE a
      new == [w EXCEPT !.git[idx] = At(old, a)]
  IN IF old.callback /\ a.ip # old.ip
     THEN netif_sta_status_callback(new, idx, seen)
     ELSE new

\* The callback is the station's only: the blob brings its access point up.
netif_init(idx) == idx = STATION_IF

esp2glue_netif_add(w, idx, a) ==
  [w EXCEPT !.git[idx] = [ip |-> a.ip, net |-> a.net, up |-> TRUE,
                          link |-> TRUE, callback |-> netif_init(idx)]]

\* getif: the interfaces eagle_lwip_getif knows.
esp_guess_netif_idx(i, number, getif) == IF i \in getif THEN i ELSE number[i]

GuessAsserts(slot, getif) ==
  IF \A i \in getif : slot[i] \in {NULL, i} THEN {} ELSE {"eagle_lwip_getif"}

-----------------------------------------------------------------------------
Init ==
  /\ esp = [i \in Idx |-> [ip |-> NoIp, net |-> NoNet, up |-> FALSE,
                           link |-> FALSE]]
  /\ num = [i \in Idx |-> 0]
  /\ netif_esp = [n \in Idx |-> NULL]
  /\ esp_netif_num = 0
  /\ netif_git = [n \in Idx |-> [ip |-> NoIp, net |-> NoNet, up |-> FALSE,
                                 link |-> FALSE, callback |-> FALSE]]
  /\ netif_default = NULL
  /\ dhcp = {}
  /\ ntp_servers = NULL
  /\ ntp_servers_number = 0
  /\ added = {}
  /\ dhcpOk = {}
  /\ set = NULL
  /\ told = NULL
  /\ failed = {}

\* (Mistakes: lwIP-2 is not told; a call that keeps the address does nothing.)
SetAddr_BlobOnly(w, i, a, number, getif) ==
  [w EXCEPT !.esp[i] = At(w.esp[i], a)]

SetAddr_SkipSame(w, i, a, number, getif) ==
  IF w.esp[i].ip = a.ip THEN w
  ELSE lwip2_set_addr([w EXCEPT !.esp[i] = At(w.esp[i], a)],
                      esp_guess_netif_idx(i, number, getif), a)

\* netif_set_addr, from the world w, with the numbers in number.  (The copy
\* wifi_set_ip_info makes for the SDK is not read here.)
SetAddr(w, i, a, number, getif) ==
  lwip2_set_addr([w EXCEPT !.esp[i] = At(w.esp[i], a)],
                 esp_guess_netif_idx(i, number, getif), a)

NetifSetAddr(i, a, getif) ==
  /\ i \in added
  /\ Becomes(SetAddr(World(esp, netif_esp), i, a, num, getif),
             Asked("blob", i, a))
  /\ failed' = failed \cup GuessAsserts(netif_esp, getif)
  /\ UNCHANGED <<num, esp_netif_num, dhcp, ntp_vars, added, dhcpOk>>

\* The struct is cleared before the blob's init is called.
Cleared(i) ==
  [esp EXCEPT ![i] = [ip |-> NoIp, net |-> NoNet, up |-> FALSE,
                      link |-> FALSE]]

LinkUp(w, i) == [w EXCEPT !.esp[i].link = TRUE]

\* (A mistake: the number is cleared with the rest.)
NetifAddFails_ClearNum(i) ==
  /\ Becomes(World(Cleared(i), netif_esp), NULL)
  /\ num' = [num EXCEPT ![i] = 0]
  /\ added' = added \ {i}
  /\ UNCHANGED <<esp_netif_num, dhcp, ntp_vars, dhcpOk, failed>>

NetifAddFails(i) ==
  /\ Becomes(World(Cleared(i), netif_esp), NULL)
  /\ added' = added \ {i}
  /\ UNCHANGED <<num, esp_netif_num, dhcp, ntp_vars, dhcpOk, failed>>

\* An interface gets the next number (the station should be the first, and
\* neither be added again before both are there: "esp is messing with me") ...
NetifAdd(i, a, getif) ==
  LET number == [num EXCEPT ![i] = esp_netif_num]
      slot == [netif_esp EXCEPT ![esp_netif_num] = i]
      w == esp2glue_netif_add(World(Cleared(i), slot), esp_netif_num, a)
  IN
  /\ esp_netif_num < 2
  /\ AnyOrder \/ i = esp_netif_num
  /\ num' = number
  /\ esp_netif_num' = esp_netif_num + 1
  /\ Becomes(SetAddr(LinkUp(w, i), i, a, number, getif),
             Asked("blob", i, a))
  /\ failed' = failed \cup GuessAsserts(slot, getif)
  /\ added' = added \cup {i}
  /\ UNCHANGED <<dhcp, ntp_vars, dhcpOk>>

\* ... until there are two: then it is taken for one that is there already.
NetifReAdd(i, a, getif) ==
  LET w == lwip2_set_addr(World(Cleared(i), netif_esp), num[i], a) IN
  /\ esp_netif_num = 2
  /\ Becomes(SetAddr(LinkUp(w, i), i, a, num, getif),
             Asked("blob", i, a))
  /\ failed' = failed \cup GuessAsserts(netif_esp, getif)
               \cup (IF \A n \in Idx : netif_esp[n] = i => num[i] = n
                     THEN {} ELSE {"re-add"})
  /\ added' = added \cup {i}
  /\ UNCHANGED <<num, esp_netif_num, dhcp, ntp_vars, dhcpOk>>

\* (The blob's own netif_default, which is set first, is read by nothing here.)
NetifSetDefault(i, getif) ==
  /\ i \in added
  /\ netif_default' = esp_guess_netif_idx(i, num, getif)
  /\ set' = NULL /\ told' = NULL
  /\ failed' = failed \cup GuessAsserts(netif_esp, getif)
  /\ UNCHANGED <<esp_vars, netif_git, dhcp, ntp_vars, added, dhcpOk>>

\* lwIP-2's netif_set_up calls back if the interface was down.
esp2glue_netif_set_up(w, idx) ==
  LET old == w.git[idx]
      new == [w EXCEPT !.git[idx].link = TRUE, !.git[idx].up = TRUE]
  IN IF old.callback /\ ~old.up
     THEN netif_sta_status_callback(new, idx, AddressOf(old))
     ELSE new

NetifSetUp(i) ==
  /\ i \in added
  /\ LET up == [esp EXCEPT ![i].up = TRUE, ![i].link = TRUE] IN
     Becomes(esp2glue_netif_set_up(World(up, netif_esp), num[i]), NULL)
  /\ UNCHANGED <<num, esp_netif_num, dhcp, ntp_vars, added, dhcpOk, failed>>

\* dhcps_start says of the access point that it is up.
DhcpsStart ==
  LET i == netif_esp[SOFTAP_IF] IN
  /\ i # NULL
  /\ esp' = [esp EXCEPT ![i].up = TRUE, ![i].link = TRUE]
  /\ set' = NULL /\ told' = NULL
  /\ UNCHANGED <<num, netif_esp, esp_netif_num, git_vars, ntp_vars, added,
                 dhcpOk, failed>>

\* netif_remove, netif_set_down, dhcp_stop, dhcp_release and dhcp_cleanup do
\* nothing: lwIP-2's interface stays, and so does its DHCP client.
Stub ==
  /\ set' = NULL /\ told' = NULL
  /\ UNCHANGED <<esp_vars, git_vars, ntp_vars, added, dhcpOk, failed>>

-----------------------------------------------------------------------------
(* The DHCP client.                                                        *)

\* lwIP-2's client runs, or has stopped for want of memory; the blob is told
\* through two translations.  The address of the interface stays.
DhcpStart(i, err, getif) ==
  LET idx == esp_guess_netif_idx(i, num, getif)
      answer == glue2esp_err(git2glue_err(err))
  IN
  /\ i \in added
  /\ dhcp' = IF err = GIT.OK THEN dhcp \cup {idx} ELSE dhcp \ {idx}
  /\ dhcpOk' = IF answer = ESP.OK THEN dhcpOk \cup {i} ELSE dhcpOk \ {i}
  /\ set' = NULL /\ told' = NULL
  /\ failed' = failed \cup GuessAsserts(netif_esp, getif)
  /\ UNCHANGED <<esp_vars, netif_git, netif_default, ntp_vars, added>>

\* (A mistake: the number of the freed list stays.)
dhcp_set_ntp_servers_KeepNumber(list, memory) ==
  IF list # <<>> /\ memory
  THEN ntp_servers' = list /\ ntp_servers_number' = Len(list)
  ELSE ntp_servers' = NULL /\ UNCHANGED ntp_servers_number

\* mem_malloc may fail; no list is not a list of no server.
dhcp_set_ntp_servers(list, memory) ==
  IF list # <<>> /\ memory
  THEN ntp_servers' = list /\ ntp_servers_number' = Len(list)
  ELSE ntp_servers' = NULL /\ ntp_servers_number' = 0

\* An ACK, the first or a renewal's, which may change anything; lwIP-2 makes
\* up the netmask and the gateway the server does not give.
DhcpAck(idx, a, list, memory) ==
  /\ idx \in dhcp
  /\ a.ip # NoIp /\ a.net # NoNet
  /\ dhcp_set_ntp_servers(list, memory)
  /\ Becomes(lwip2_set_addr(World(esp, netif_esp), idx, a),
             Asked("client", idx, a))
  /\ UNCHANGED <<num, esp_netif_num, dhcp, added, dhcpOk, failed>>

\* A NAK, or the end of the lease: the address is removed.
DhcpLost(idx) ==
  /\ idx \in dhcp
  /\ Becomes(lwip2_set_addr(World(esp, netif_esp), idx, Zero),
             Asked("client", idx, Zero))
  /\ UNCHANGED <<num, esp_netif_num, dhcp, ntp_vars, added, dhcpOk, failed>>

-----------------------------------------------------------------------------
Next ==
  \/ \E i \in Idx, a \in Config, getif \in SUBSET Idx :
       \/ NetifAdd(i, a, getif)
       \/ NetifReAdd(i, a, getif)
       \/ NetifSetAddr(i, a, getif)
  \/ \E i \in Idx : NetifAddFails(i) \/ NetifSetUp(i)
  \/ \E i \in Idx, getif \in SUBSET Idx : NetifSetDefault(i, getif)
  \/ \E getif \in SUBSET Idx, err \in {GIT.OK, GIT.MEM} :
       DhcpStart(STATION_IF, err, getif)
  \/ DhcpsStart
  \/ Stub
  \/ \E idx \in Idx, a \in Config, list \in NtpLists, memory \in BOOLEAN :
       DhcpAck(idx, a, list, memory)
  \/ \E idx \in Idx : DhcpLost(idx)

Spec == Init /\ [][Next]_vars

-----------------------------------------------------------------------------
(* Properties.                                                             *)

TypeOK ==
  /\ esp \in [Idx -> [ip : Ip, net : Net, up : BOOLEAN, link : BOOLEAN]]
  /\ num \in [Idx -> Idx]
  /\ netif_esp \in [Idx -> Idx \cup {NULL}]
  /\ esp_netif_num \in 0..2
  /\ netif_git \in [Idx -> [ip : Ip, net : Net, up : BOOLEAN, link : BOOLEAN,
                           callback : BOOLEAN]]
  /\ netif_default \in Idx \cup {NULL}
  /\ dhcp \subseteq Idx
  /\ ntp_servers \in (NtpLists \ {<<>>}) \cup {NULL}
  /\ ntp_servers_number = IF ntp_servers = NULL THEN 0 ELSE Len(ntp_servers)
  /\ added \subseteq Idx
  /\ dhcpOk \subseteq {STATION_IF}
  /\ set \in {NULL} \cup [by : {"blob", "client"}, of : Idx, to : Config]
  /\ told \in Ip \cup {NULL}
  /\ failed \subseteq {"eagle_lwip_getif", "re-add"}

\* lwip-git.c takes number 0 for the station and 1 for the access point, and
\* netif_add counts.  The blob has kept to it if it added the station before
\* the access point, and added neither a second time before both were there.
NumbersRight == \A n \in Idx : netif_esp[n] \in {NULL, n}

\* The order of the first two netif_add is all the glue depends on: if they
\* were right, no uassert of esp_guess_netif_idx or netif_add ever fails,
\* whatever is added again, fails, or is asked for, in any order.
AssertsHold == NumbersRight => failed = {}

\* The blob and lwIP-2 give each interface the same address, whichever of
\* them changed it last and through whichever callback.
IpAgrees ==
  NumbersRight => \A i \in added : esp[i].ip = netif_git[i].ip

\* netif_set_addr and netif_add set the address, the netmask and the gateway
\* in both copies, although lwIP-2's callback writes to the blob's copy in the
\* middle.  The blob's netmask and gateway are left to NetifSetAddrSetsAll in
\* one case: when the address is removed.
BlobSetsBoth ==
  NumbersRight /\ set # NULL /\ set.by = "blob" =>
    /\ AddressOf(netif_git[set.of]) = set.to
    /\ esp[set.of].ip = set.to.ip
    /\ set.to.ip # NoIp => esp[set.of].net = set.to.net

\* "Change IP address configuration for a network interface (including netmask
\* and default gateway)": after the call both copies are what was asked for.
NetifSetAddrSetsAll ==
  NumbersRight /\ set # NULL /\ set.by = "blob" =>
    AddressOf(esp[set.of]) = set.to /\ AddressOf(netif_git[set.of]) = set.to

ClientSets == set' # NULL /\ set'.by = "client"

ToldOf(old, new) ==
  IF old = new THEN told' = NULL
               ELSE told' = old /\ esp'[STATION_IF].ip = new

\* What the client does to the station's address reaches the blob in the same
\* step, with the address it had before "to check it has changed"; and the
\* blob is told of nothing else.
ClientTellsBlob ==
  [][NumbersRight /\ STATION_IF \in added /\ ClientSets =>
       ToldOf(netif_git[STATION_IF].ip, netif_git'[STATION_IF].ip)]_vars

\* The blob does not take the client for started when it is not: neither the
\* translations of the error nor the guess of the interface goes wrong.
StartedRuns == NumbersRight => dhcpOk \subseteq dhcp

=============================================================================
