----------------------------- MODULE DhcpServer -----------------------------
(***************************************************************************)
(* The handshake of the access point's DHCP server with its clients:       *)
(* handle_dhcp, parse_msg, parse_options and send_offer/ack/nak            *)
(* (dhcpserver.c) on the lease list of LeaseTable, over a network that     *)
(* loses datagrams, with clients that repeat theirs.                       *)
(*                                                                         *)
(* The clients are other people's programs (RFC 2131).  Their messages     *)
(* name no broadcast address, so parse_msg sets renew every time, and      *)
(* neither renew nor client_address outlives the call.                     *)
(***************************************************************************)
EXTENDS LeaseTable

CONSTANTS
  ServedRange,  \* the range the server was started on
  MaxRequests,  \* bound: datagrams of a client under way to the server
  MaxReplies    \* bound: answers under way to a client

\* The third conjunct: counting addresses from the start of the range up, one
\* for each station, does not wrap (the u32_t of the code).
ASSUME ServerConstants ==
  /\ IsFiniteSet(Mac)
  /\ ServedRange \in [start : Addr \ {IPADDR_ANY}, end : Addr]
  /\ ServedRange.start + Cardinality(Mac) <= IPADDR_BROADCAST
  /\ MaxRequests \in Nat \ {0} /\ MaxReplies \in Nat \ {0}

VARIABLES
  plist,     \* the leases
  station,   \* the address the blob was told each station has
  toServer,  \* toServer[m]: m's datagrams, in the order sent
  toClient,  \* toClient[m]: the answers to m
  pc,        \* the state of each client
  addr,      \* the address it uses, or IPADDR_ANY
  asked,     \* the address it remembers, or has asked for
  ends,      \* minutes left of the client's lease
  fresh,     \* minutes left of the lease its pending request may bring
  told       \* told[m]: the last answer made to m, since m joined

server == <<plist, station>>
client == <<pc, addr, asked, ends, fresh>>
vars == <<plist, station, toServer, toClient, pc, addr, asked, ends, fresh, told>>

\* A datagram of the client's current exchange has xid = TRUE.  ciaddr is the
\* header's field, req the option DHCP_OPTION_REQ_IPADDR, or IPADDR_ANY if absent.
Request == [type : {"DISCOVER", "REQUEST", "RELEASE", "DECLINE"},
            ciaddr : Addr, req : Addr, xid : BOOLEAN]
Reply == [type : {"OFFER", "ACK", "NAK"}, yiaddr : Addr, xid : BOOLEAN]

Init ==
  /\ plist = <<>>
  /\ station = [m \in Mac |-> IPADDR_ANY]
  /\ toServer = [m \in Mac |-> <<>>] /\ toClient = [m \in Mac |-> <<>>]
  /\ pc = [m \in Mac |-> "INIT"]
  /\ addr = [m \in Mac |-> IPADDR_ANY] /\ asked = [m \in Mac |-> IPADDR_ANY]
  /\ ends = [m \in Mac |-> 0] /\ fresh = [m \in Mac |-> 0]
  /\ told = [m \in Mac |-> "NOTHING"]

\* What becomes of a queue when msg is sent: it may be lost.
Sent(queue, max, msg) ==
  {queue} \cup IF Len(queue) < max THEN {Append(queue, msg)} ELSE {}

-----------------------------------------------------------------------------
(* The server.                                                             *)

\* (A mistake: any request for an address is confirmed.)
ParseOptions_AckAny(msg, update) ==
  CASE msg.type = "DISCOVER" -> "OFFER"
    [] msg.type = "REQUEST"  -> "ACK"
    [] msg.type = "DECLINE"  -> "IDLE"
    [] msg.type = "RELEASE"  -> "RELEASE"

\* What the server answers, its table updated.
ParseOptions(msg, update) ==
  LET confirmed == IF msg.req # IPADDR_ANY THEN msg.req = update.result ELSE update.renew
  IN  CASE msg.type = "DISCOVER" -> "OFFER"
        [] msg.type = "REQUEST"  -> IF confirmed THEN "ACK" ELSE "NAK"
        [] msg.type = "DECLINE"  -> "IDLE"
        [] msg.type = "RELEASE"  -> "RELEASE"

\* What parse_msg leaves in the list, and what the blob knows of m.
ParseMsg(m, msg, update) ==
  LET i == LeaseOf(update.plist, m, msg.ciaddr)
  IN  IF ParseOptions(msg, update) = "RELEASE" /\ i # 0
      THEN [plist |-> Left(update.plist, i, TRUE), ip |-> IPADDR_ANY]
      ELSE [plist |-> update.plist, ip |-> IF update.told THEN update.result ELSE station[m]]

\* create_msg and the options: an answer goes back in the request's own bytes.
CreateMsg(msg, type, ip) == [type |-> type, yiaddr |-> ip, xid |-> msg.xid]

\* send_offer, send_nak and send_ack; nothing is sent when memory is short.
SendAnswer(m, reply) ==
  /\ \E queue \in Sent(toClient[m], MaxReplies, reply) : toClient' = [toClient EXCEPT ![m] = queue]
  /\ told' = [told EXCEPT ![m] = reply.type]

HandleDhcp(m) ==
  /\ toServer[m] # <<>>
  /\ LET msg == Head(toServer[m])
         update == Updated(plist, ServedRange, FALSE, m, msg.ciaddr)
         answer == ParseOptions(msg, update)
     IN  /\ plist' = ParseMsg(m, msg, update).plist
         /\ station' = [station EXCEPT ![m] = ParseMsg(m, msg, update).ip]
         /\ \/ /\ answer \in {"OFFER", "ACK", "NAK"}
               /\ SendAnswer(m, CreateMsg(msg, answer, update.result))
            \/ answer \in {"IDLE", "RELEASE"} /\ UNCHANGED <<toClient, told>>
  /\ toServer' = [toServer EXCEPT ![m] = Tail(@)]
  /\ UNCHANGED client

\* dhcps_coarse_tmr, each minute.  A client counts its lease from the first
\* time it sent the request for it, so never ends it after the server.
CoarseTmr ==
  LET older(n) == IF n = 0 THEN 0 ELSE n - 1
      expired == {m \in Mac : \/ pc[m] \in {"BOUND", "RENEWING"} /\ ends[m] = 1
                              \/ pc[m] = "REQUESTING" /\ fresh[m] = 1}
  IN  /\ plist' = Ticked(plist)
      /\ ends' = [m \in Mac |-> older(ends[m])]
      /\ fresh' = [m \in Mac |-> older(fresh[m])]
      /\ pc' = [m \in Mac |-> IF m \in expired THEN "INIT" ELSE pc[m]]
      /\ addr' = [m \in Mac |-> IF m \in expired THEN IPADDR_ANY ELSE addr[m]]
      /\ UNCHANGED <<station, toServer, toClient, asked, told>>

-----------------------------------------------------------------------------
(* The clients.                                                            *)

Discover == [type |-> "DISCOVER", ciaddr |-> IPADDR_ANY, req |-> IPADDR_ANY, xid |-> TRUE]
RequestFor(ip) == [type |-> "REQUEST", ciaddr |-> IPADDR_ANY, req |-> ip, xid |-> TRUE]
RenewalOf(ip) == [type |-> "REQUEST", ciaddr |-> ip, req |-> IPADDR_ANY, xid |-> TRUE]

Send(m, queue, msg) == \E q \in Sent(queue, MaxRequests, msg) : toServer' = [toServer EXCEPT ![m] = q]

\* A new exchange has a new xid: the requests under way belong to an old one,
\* and the answers under way will not be looked at.
Old(queue) == [i \in DOMAIN queue |-> [queue[i] EXCEPT !.xid = FALSE]]
Begin(m, msg) ==
  /\ Send(m, Old(toServer[m]), msg)
  /\ toClient' = [toClient EXCEPT ![m] = <<>>]
  /\ UNCHANGED <<server, told>>

\* A request for an address starts the clock of the lease it may bring.
Become(m, state, ip, wish) ==
  /\ pc' = [pc EXCEPT ![m] = state]
  /\ addr' = [addr EXCEPT ![m] = ip]
  /\ asked' = [asked EXCEPT ![m] = wish]
  /\ fresh' = [fresh EXCEPT ![m] =
                 IF state \in {"REQUESTING", "RENEWING"} THEN DHCPS_LEASE_TIMER ELSE 0]
  /\ ends' = [ends EXCEPT ![m] = CASE ip = IPADDR_ANY  -> 0
                                   [] state = "BOUND"  -> fresh[m]
                                   [] OTHER            -> @]

\* A client starts, or starts over because a request is not answered.
ClientDiscover(m) ==
  /\ pc[m] \in {"INIT", "REQUESTING"}
  /\ Begin(m, Discover)
  /\ Become(m, "SELECTING", IPADDR_ANY, IPADDR_ANY)

\* It was here before, and remembers its address (INIT-REBOOT).
ClientRejoin(m) ==
  /\ pc[m] = "INIT" /\ asked[m] # IPADDR_ANY
  /\ Begin(m, RequestFor(asked[m]))
  /\ Become(m, "REQUESTING", IPADDR_ANY, asked[m])

ClientRenew(m) ==
  /\ pc[m] = "BOUND"
  /\ Begin(m, RenewalOf(addr[m]))
  /\ Become(m, "RENEWING", addr[m], addr[m])

ClientRelease(m) ==
  /\ pc[m] = "BOUND"
  /\ Begin(m, [RenewalOf(addr[m]) EXCEPT !.type = "RELEASE"])
  /\ Become(m, "INIT", IPADDR_ANY, IPADDR_ANY)

\* The client finds that somebody else uses the address.
ClientDecline(m) ==
  /\ pc[m] = "BOUND"
  /\ Begin(m, [RequestFor(addr[m]) EXCEPT !.type = "DECLINE"])
  /\ Become(m, "INIT", IPADDR_ANY, IPADDR_ANY)

\* No answer came: the datagram is repeated, with the same xid.
ClientRepeat(m) ==
  /\ \/ pc[m] = "SELECTING"  /\ Send(m, toServer[m], Discover)
     \/ pc[m] = "REQUESTING" /\ Send(m, toServer[m], RequestFor(asked[m]))
     \/ pc[m] = "RENEWING"   /\ Send(m, toServer[m], RenewalOf(addr[m]))
  /\ UNCHANGED <<server, toClient, client, told>>

Received(m) ==
  /\ toClient[m] # <<>>
  /\ toClient' = [toClient EXCEPT ![m] = Tail(@)]
  /\ UNCHANGED <<server, told>>

Expected(m) ==
  LET reply == Head(toClient[m])
  IN  /\ reply.xid
      /\ \/ pc[m] = "SELECTING" /\ reply.type = "OFFER" /\ reply.yiaddr # IPADDR_ANY
         \/ pc[m] \in {"REQUESTING", "RENEWING"} /\ reply.type \in {"ACK", "NAK"}

ClientIgnores(m) ==
  /\ Received(m) /\ ~Expected(m)
  /\ UNCHANGED <<toServer, client>>

ClientTakes(m) ==
  LET reply == Head(toClient[m])
  IN  /\ Received(m) /\ Expected(m)
      /\ \/ /\ reply.type = "OFFER"
            /\ Send(m, toServer[m], RequestFor(reply.yiaddr))
            /\ Become(m, "REQUESTING", IPADDR_ANY, reply.yiaddr)
         \/ /\ reply.type = "ACK"
            /\ Become(m, "BOUND", reply.yiaddr, asked[m])
            /\ UNCHANGED toServer
         \/ /\ reply.type = "NAK"
            /\ Become(m, "INIT", IPADDR_ANY, IPADDR_ANY)
            /\ UNCHANGED toServer

\* The station is gone from the air, and the blob says so to the server
\* (wifi_softap_dhcps_client_leave, not forced).  It remembers its address.
ClientVanishes(m) ==
  LET i == LeaseOf(plist, m, station[m])
  IN  /\ plist' = IF i = 0 THEN plist ELSE Left(plist, i, FALSE)
      /\ station' = [station EXCEPT ![m] = IPADDR_ANY]
      /\ toServer' = [toServer EXCEPT ![m] = <<>>] /\ toClient' = [toClient EXCEPT ![m] = <<>>]
      /\ Become(m, "INIT", IPADDR_ANY, addr[m])
      /\ told' = [told EXCEPT ![m] = "NOTHING"]

Next ==
  \/ \E m \in Mac :
       \/ HandleDhcp(m)
       \/ ClientDiscover(m) \/ ClientRejoin(m) \/ ClientRenew(m) \/ ClientRepeat(m)
       \/ ClientRelease(m) \/ ClientDecline(m)
       \/ ClientIgnores(m) \/ ClientTakes(m) \/ ClientVanishes(m)
  \/ CoarseTmr

Spec == Init /\ [][Next]_vars

-----------------------------------------------------------------------------
(* Properties.                                                             *)

TypeOK ==
  /\ plist \in Seq(Node)
  /\ station \in [Mac -> Addr]
  /\ toServer \in [Mac -> Seq(Request)] /\ toClient \in [Mac -> Seq(Reply)]
  /\ pc \in [Mac -> {"INIT", "SELECTING", "REQUESTING", "BOUND", "RENEWING"}]
  /\ addr \in [Mac -> Addr] /\ asked \in [Mac -> Addr]
  /\ ends \in [Mac -> 0 .. DHCPS_LEASE_TIMER] /\ fresh \in [Mac -> 0 .. DHCPS_LEASE_TIMER]
  /\ told \in [Mac -> {"NOTHING", "OFFER", "ACK", "NAK"}]

\* The server keeps its word: while ACK is the last answer it made to a client,
\* the address that client uses is leased to it, and known to the blob.
AckIsKept ==
  \A m \in Mac : addr[m] # IPADDR_ANY /\ told[m] = "ACK" =>
    /\ station[m] = addr[m]
    /\ \E i \in DOMAIN plist : /\ plist[i].mac = m /\ plist[i].ip = addr[m]
                               /\ plist[i].state = "ONLINE"

\* A client is only ever bound to the address it asked for, whatever answers
\* to older or repeated datagrams it gets.
BoundAsAsked == \A m \in Mac : addr[m] # IPADDR_ANY => addr[m] = asked[m]

\* Two clients use one address only if the last answer the server made to one
\* of them was a refusal, which that client has not taken.
SharedOnlyAfterNak ==
  \A m, n \in Mac : m # n /\ addr[m] = addr[n] /\ addr[m] # IPADDR_ANY =>
    "NAK" \in {told[m], told[n]}

\* No two clients use one address: "ip is used" (dhcpserver.c) keeps an address
\* from a second client while the first has it.
NoSharedAddress ==
  \A m, n \in Mac : m # n /\ addr[m] = addr[n] => addr[m] = IPADDR_ANY

=============================================================================
