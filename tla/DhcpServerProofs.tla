-------------------------- MODULE DhcpServerProofs --------------------------
(***************************************************************************)
(* What DhcpServer keeps for every number of stations and every bound on   *)
(* the datagrams under way: its types, that a client is bound only to the  *)
(* address it asked for, that the server keeps its word, and that a shared *)
(* address takes a refusal which has not arrived.                          *)
(***************************************************************************)
EXTENDS DhcpServer, LeaseTableProofs

-----------------------------------------------------------------------------
(* 1. The invariants.                                                      *)

\* The request asks for ip, and for nothing else.
Asks(msg, ip) ==
  /\ msg.type = "REQUEST" /\ ip # IPADDR_ANY
  /\ \/ msg.ciaddr = IPADDR_ANY /\ msg.req = ip
     \/ msg.ciaddr = ip /\ msg.req = IPADDR_ANY

\* All the requests of a queue ask for ip.
AllAsk(qs, ip) == \A i \in 1 .. Len(qs) : Asks(qs[i], ip)

\* The datagrams of an exchange follow those of the ones before.
Following(qs) == \A i, j \in 1 .. Len(qs) : i < j /\ qs[i].xid => qs[j].xid

\* Of this exchange, only DISCOVERs were sent.
Discovering(qs) ==
  Following(qs) /\ \A i \in 1 .. Len(qs) : qs[i].xid => qs[i].type = "DISCOVER"

\* The DISCOVERs of this exchange come before the requests, all for ip.
InTurn(qs, ip) ==
  /\ Following(qs)
  /\ \A i \in 1 .. Len(qs) : qs[i].xid => qs[i].type = "DISCOVER" \/ Asks(qs[i], ip)
  /\ \A i, j \in 1 .. Len(qs) :
       i < j /\ qs[i].xid /\ Asks(qs[i], ip) => Asks(qs[j], ip)

\* The answer to a request of this exchange is under way.
Answered(qc) == \E i \in 1 .. Len(qc) : qc[i].xid /\ qc[i].type \in {"ACK", "NAK"}

\* What a client in state p has to do with the datagrams under way: it uses
\* address a, asks for w, and its lease lasts e minutes, or f if it is granted.
Handshake(p, a, w, e, f, qs, qc, t) ==
  /\ p \in {"INIT", "SELECTING", "REQUESTING"} => a = IPADDR_ANY
  /\ p = "SELECTING" => Discovering(qs) /\ ~Answered(qc)
  /\ p = "REQUESTING" => w # IPADDR_ANY /\ f >= 1 /\ InTurn(qs, w)
  /\ p \in {"BOUND", "RENEWING"} =>
       a = w /\ a # IPADDR_ANY /\ e >= 1 /\ t \in {"ACK", "NAK"} /\ AllAsk(qs, w)
  /\ p = "RENEWING" => f >= e
  /\ p \in {"REQUESTING", "RENEWING"} =>
       /\ Answered(qc) => AllAsk(qs, w) /\ t \in {"ACK", "NAK"}
       /\ \A i \in 1 .. Len(qc) : qc[i].xid /\ qc[i].type = "ACK" => qc[i].yiaddr = w

\* What the server has promised client m, by its last answer ACK: the address
\* the client uses, or the one it asked for, for as long as the client counts.
Word(list, m, st, p, a, w, e, f, qc, t) ==
  t = "ACK" =>
    /\ p \in {"BOUND", "RENEWING"} => st = a /\ Holds(list, m, a, e)
    /\ p \in {"REQUESTING", "RENEWING"} /\ Answered(qc) => st = w /\ Holds(list, m, w, f)

\* The handshake of m, with the state of the client and of its queues.
ShakenWell(m) ==
  Handshake(pc[m], addr[m], asked[m], ends[m], fresh[m], toServer[m], toClient[m], told[m])

\* The word given to m, with the table as it is.
WordKept(m) ==
  Word(plist, m, station[m], pc[m], addr[m], asked[m], ends[m], fresh[m], toClient[m], told[m])

\* The inductive invariant, whatever the constants.
IInv == TypeOK /\ GoodList(plist) /\ \A m \in Mac : ShakenWell(m)

\* The server keeps its word to every client; inductive where no one is evicted.
Kept == \A m \in Mac : WordKept(m)

\* Addresses of the network the server serves, from the start of its range on.
Netted(ip) == ip = IPADDR_ANY \/ InNet(ip, ServedRange.start)
NettedQueues(qs, qc) ==
  /\ \A i \in 1 .. Len(qs) : Netted(qs[i].ciaddr)
  /\ \A i \in 1 .. Len(qc) : Netted(qc[i].yiaddr)
NettedOf(m) == Netted(addr[m]) /\ NettedQueues(toServer[m], toClient[m])

\* Every address about is of that network, and no two leases have the same.
InOneNet ==
  /\ UniqueIp(plist) /\ AllInNet(plist, ServedRange.start)
  /\ \A m \in Mac : NettedOf(m)

\* There is a lease for every station: kill_oldest_dhcps_pool is not called for.
NoEviction == Cardinality(Mac) < MAX_STATION_NUM

\* The network has room for an address for every station, from the start on.
RoomInNet ==
  (ServedRange.start + Cardinality(Mac) - 1) \div OCTET = ServedRange.start \div OCTET

-----------------------------------------------------------------------------
(* 2. Queues of datagrams.                                                 *)

\* A queue after msg was sent: msg may be its last, the others are as before.
LEMMA SentFacts ==
  ASSUME NEW S, NEW qs \in Seq(S), NEW max, NEW msg \in S, NEW q \in Sent(qs, max, msg)
  PROVE  /\ q \in Seq(S) /\ Len(q) \in Nat /\ Len(qs) \in Nat
         /\ \A j \in 1 .. Len(q) : \/ j \in 1 .. Len(qs) /\ q[j] = qs[j]
                                   \/ j = Len(q) /\ q[j] = msg
<1>1. q = qs \/ q = Append(qs, msg)
  BY DEF Sent
<1>2. CASE q = qs
  BY <1>2, LenProperties
<1>3. CASE q = Append(qs, msg)
  BY <1>3, AppendProperties, LenProperties
<1> QED BY <1>1, <1>2, <1>3

\* A queue whose first datagram was taken.
LEMMA TailFacts ==
  ASSUME NEW S, NEW q \in Seq(S), q # <<>>
  PROVE  /\ Tail(q) \in Seq(S) /\ Len(q) \in Nat /\ Len(Tail(q)) = Len(q) - 1
         /\ 1 \in 1 .. Len(q) /\ Head(q) = q[1] /\ Head(q) \in S
         /\ \A j \in 1 .. Len(Tail(q)) : j + 1 \in 1 .. Len(q) /\ Tail(q)[j] = q[j + 1]
<1>1. /\ Tail(q) \in Seq(S) /\ Len(Tail(q)) = Len(q) - 1
      /\ \A j \in 1 .. Len(Tail(q)) : Tail(q)[j] = q[j + 1]
  BY HeadTailProperties
<1>2. Len(q) \in Nat /\ Len(q) > 0 /\ Head(q) = q[1] /\ Head(q) \in S
  BY HeadTailProperties, EmptySeq, LenProperties
<1> QED BY <1>1, <1>2

\* The requests of an exchange that is over are as they were but for their xid.
LEMMA OldFacts ==
  ASSUME NEW qs \in Seq(Request)
  PROVE  /\ Old(qs) \in Seq(Request) /\ Len(Old(qs)) = Len(qs) /\ Len(qs) \in Nat
         /\ \A j \in 1 .. Len(qs) :
              /\ ~Old(qs)[j].xid /\ Old(qs)[j].ciaddr = qs[j].ciaddr
              /\ \A ip : Asks(qs[j], ip) => Asks(Old(qs)[j], ip)
<1>1. Len(qs) \in Nat /\ DOMAIN qs = 1 .. Len(qs)
  BY LenProperties
<1>2. ASSUME NEW j \in 1 .. Len(qs)
      PROVE  /\ [qs[j] EXCEPT !.xid = FALSE] \in Request
             /\ ~[qs[j] EXCEPT !.xid = FALSE].xid
             /\ [qs[j] EXCEPT !.xid = FALSE].ciaddr = qs[j].ciaddr
             /\ [qs[j] EXCEPT !.xid = FALSE].type = qs[j].type
             /\ [qs[j] EXCEPT !.xid = FALSE].req = qs[j].req
  <2>1. qs[j] \in Request
    BY <1>2, ElementOfSeq
  <2> QED BY <2>1 DEF Request
<1>3. Old(qs) = [j \in 1 .. Len(qs) |-> [qs[j] EXCEPT !.xid = FALSE]]
  BY <1>1 DEF Old
<1>4. Old(qs) \in Seq(Request) /\ Len(Old(qs)) = Len(qs)
  BY <1>1, <1>2, <1>3, SeqDef, LenProperties
<1>5. \A j \in 1 .. Len(qs) : Old(qs)[j] = [qs[j] EXCEPT !.xid = FALSE]
  BY <1>3
<1> QED BY <1>1, <1>2, <1>4, <1>5 DEF Asks

\* The client's datagrams.
LEMMA DatagramFacts ==
  ASSUME NEW ip \in Addr
  PROVE  /\ Discover \in Request /\ Discover.xid /\ Discover.type = "DISCOVER"
         /\ Discover.ciaddr = IPADDR_ANY
         /\ RequestFor(ip) \in Request /\ RequestFor(ip).xid /\ RequestFor(ip).ciaddr = IPADDR_ANY
         /\ RenewalOf(ip) \in Request /\ RenewalOf(ip).xid /\ RenewalOf(ip).ciaddr = ip
         /\ ip # IPADDR_ANY => Asks(RequestFor(ip), ip) /\ Asks(RenewalOf(ip), ip)
<1>1. IPADDR_ANY \in Addr
  BY AnyInAddr
<1>2. Discover \in Request /\ RequestFor(ip) \in Request /\ RenewalOf(ip) \in Request
  BY <1>1 DEF Discover, RequestFor, RenewalOf, Request
<1> QED BY <1>2 DEF Discover, RequestFor, RenewalOf, Asks

-----------------------------------------------------------------------------
(* 3. What is under way between a client and the server.                   *)

\* Requests for the one address, and one more.
LEMMA AllAskSent ==
  ASSUME NEW qs \in Seq(Request), NEW ip, AllAsk(qs, ip), NEW msg \in Request, Asks(msg, ip),
         NEW max, NEW q \in Sent(qs, max, msg)
  PROVE  AllAsk(q, ip)
BY SentFacts DEF AllAsk

\* A new exchange begins, and it begins with a DISCOVER.
LEMMA DiscoverSent ==
  ASSUME NEW qs \in Seq(Request), NEW max,
         NEW old, old = Old(qs) \/ (old = qs /\ Discovering(qs)),
         NEW q \in Sent(old, max, Discover)
  PROVE  q \in Seq(Request) /\ Discovering(q)
<1>1. old \in Seq(Request) /\ Discovering(old)
  <2>1. CASE old = Old(qs)
    BY <2>1, OldFacts DEF Discovering, Following
  <2> QED BY <2>1
<1>2. Discover \in Request /\ Discover.xid /\ Discover.type = "DISCOVER"
  BY AnyInAddr, DatagramFacts
<1>3. /\ q \in Seq(Request) /\ Len(q) \in Nat /\ Len(old) \in Nat
      /\ \A j \in 1 .. Len(q) : \/ j \in 1 .. Len(old) /\ q[j] = old[j]
                                \/ j = Len(q) /\ q[j] = Discover
  BY <1>1, <1>2, SentFacts
<1>4. ASSUME NEW i \in 1 .. Len(q), NEW j \in 1 .. Len(q), i < j, q[i].xid PROVE q[j].xid
  <2>1. i # Len(q)
    BY <1>3, <1>4
  <2>2. i \in 1 .. Len(old) /\ q[i] = old[i]
    BY <1>3, <2>1
  <2> QED BY <1>1, <1>2, <1>3, <1>4, <2>2 DEF Discovering, Following
<1> QED BY <1>1, <1>2, <1>3, <1>4 DEF Discovering, Following

\* A request for ip is sent: after the DISCOVERs of its exchange, as the first
\* of a new one, or once more.
LEMMA RequestSent ==
  ASSUME NEW qs \in Seq(Request), NEW max, NEW ip \in Addr \ {IPADDR_ANY},
         NEW old, \/ old = Old(qs)
                  \/ old = qs /\ (Discovering(qs) \/ InTurn(qs, ip)),
         NEW msg \in {RequestFor(ip), RenewalOf(ip)}, NEW q \in Sent(old, max, msg)
  PROVE  q \in Seq(Request) /\ InTurn(q, ip)
<1>1. old \in Seq(Request) /\ InTurn(old, ip)
  <2>1. CASE old = Old(qs)
    BY <2>1, OldFacts DEF InTurn, Following
  <2>2. CASE old = qs /\ Discovering(qs)
    <3>1. \A i \in 1 .. Len(qs) : qs[i].xid => ~Asks(qs[i], ip)
      BY <2>2 DEF Discovering, Asks
    <3> QED BY <2>2, <3>1 DEF Discovering, InTurn
  <2> QED BY <2>1, <2>2
<1>2. msg \in Request /\ msg.xid /\ Asks(msg, ip)
  BY DatagramFacts
<1>3. /\ q \in Seq(Request) /\ Len(q) \in Nat /\ Len(old) \in Nat
      /\ \A j \in 1 .. Len(q) : \/ j \in 1 .. Len(old) /\ q[j] = old[j]
                                \/ j = Len(q) /\ q[j] = msg
  BY <1>1, <1>2, SentFacts
<1>4. ASSUME NEW i \in 1 .. Len(q), NEW j \in 1 .. Len(q), i < j, q[i].xid
      PROVE  q[j].xid /\ (Asks(q[i], ip) => Asks(q[j], ip))
  <2>1. i # Len(q)
    BY <1>3, <1>4
  <2>2. i \in 1 .. Len(old) /\ q[i] = old[i]
    BY <1>3, <2>1
  <2> QED BY <1>1, <1>2, <1>3, <1>4, <2>2 DEF InTurn, Following
<1> QED BY <1>1, <1>2, <1>3, <1>4 DEF InTurn, Following

\* What holds of a queue holds of the rest of it.
LEMMA RestFacts ==
  ASSUME NEW qs \in Seq(Request), qs # <<>>, NEW ip
  PROVE  /\ AllAsk(qs, ip) => AllAsk(Tail(qs), ip) /\ Asks(Head(qs), ip)
         /\ Discovering(qs) => /\ Discovering(Tail(qs))
                               /\ Head(qs).xid => Head(qs).type = "DISCOVER"
         /\ InTurn(qs, ip) => /\ InTurn(Tail(qs), ip)
                              /\ Head(qs).xid => \/ Head(qs).type = "DISCOVER"
                                                 \/ AllAsk(qs, ip)
<1>1. /\ Len(qs) \in Nat /\ Len(Tail(qs)) = Len(qs) - 1
      /\ 1 \in 1 .. Len(qs) /\ Head(qs) = qs[1]
      /\ \A j \in 1 .. Len(Tail(qs)) : j + 1 \in 1 .. Len(qs) /\ Tail(qs)[j] = qs[j + 1]
  BY TailFacts
<1>2. AllAsk(qs, ip) => AllAsk(Tail(qs), ip) /\ Asks(Head(qs), ip)
  BY <1>1 DEF AllAsk
<1>3. ASSUME Following(qs) PROVE Following(Tail(qs))
  <2>1. ASSUME NEW i \in 1 .. Len(Tail(qs)), NEW j \in 1 .. Len(Tail(qs)), i < j,
               Tail(qs)[i].xid
        PROVE  Tail(qs)[j].xid
    BY <1>1, <1>3, <2>1 DEF Following
  <2> QED BY <2>1 DEF Following
<1>4. Discovering(qs) => /\ Discovering(Tail(qs))
                         /\ Head(qs).xid => Head(qs).type = "DISCOVER"
  BY <1>1, <1>3 DEF Discovering
<1>5. ASSUME InTurn(qs, ip) PROVE InTurn(Tail(qs), ip)
  <2>1. ASSUME NEW i \in 1 .. Len(Tail(qs)), NEW j \in 1 .. Len(Tail(qs)), i < j,
               Tail(qs)[i].xid, Asks(Tail(qs)[i], ip)
        PROVE  Asks(Tail(qs)[j], ip)
    BY <1>1, <1>5, <2>1 DEF InTurn
  <2> QED BY <1>1, <1>3, <1>5, <2>1 DEF InTurn
<1>6. ASSUME InTurn(qs, ip), Head(qs).xid, Head(qs).type # "DISCOVER"
      PROVE  AllAsk(qs, ip)
  <2>1. Asks(qs[1], ip) /\ qs[1].xid
    BY <1>1, <1>6 DEF InTurn
  <2>2. ASSUME NEW j \in 1 .. Len(qs) PROVE Asks(qs[j], ip)
    <3>1. CASE j = 1
      BY <2>1, <3>1
    <3>2. CASE 1 < j
      BY <1>1, <1>6, <2>1, <3>2 DEF InTurn
    <3> QED BY <3>1, <3>2
  <2> QED BY <2>2 DEF AllAsk
<1> QED BY <1>2, <1>4, <1>5, <1>6

\* The answers under way, when the first is taken and when one more is sent.
LEMMA AnsweredFacts ==
  ASSUME NEW qc \in Seq(Reply)
  PROVE  /\ qc # <<>> => (Answered(Tail(qc)) => Answered(qc))
         /\ \A max, reply, q : /\ reply \in Reply /\ q \in Sent(qc, max, reply) /\ Answered(q)
                               => Answered(qc) \/ (reply.xid /\ reply.type \in {"ACK", "NAK"})
<1>1. ASSUME qc # <<>>, Answered(Tail(qc)) PROVE Answered(qc)
  BY <1>1, TailFacts DEF Answered
<1>2. ASSUME NEW max, NEW reply \in Reply, NEW q \in Sent(qc, max, reply), Answered(q)
      PROVE  Answered(qc) \/ (reply.xid /\ reply.type \in {"ACK", "NAK"})
  BY <1>2, SentFacts DEF Answered
<1> QED BY <1>1, <1>2

-----------------------------------------------------------------------------
(* 4. A datagram is handled.                                               *)

\* The range the server was started on is as LeaseTableProofs wants it.
LEMMA ServedFacts ==
  GoodStart(ServedRange.start) /\ IsFiniteSet(Mac) /\ Cardinality(Mac) \in Nat
BY ServerConstants, FS_CardinalityType DEF GoodStart

\* A DISCOVER is answered with an OFFER, a request for ip with an ACK if ip is
\* what the table granted, and otherwise with a NAK.
LEMMA AnswerFacts ==
  ASSUME NEW msg \in Request, NEW u, u.renew \in BOOLEAN, u.renew => u.result = msg.ciaddr,
         NEW answer, answer = ParseOptions(msg, u)
  PROVE  /\ answer \in {"OFFER", "ACK", "NAK", "IDLE", "RELEASE"}
         /\ msg.type = "DISCOVER" => answer = "OFFER"
         /\ \A ip : Asks(msg, ip) => /\ answer \in {"ACK", "NAK"}
                                     /\ answer = "ACK" => u.result = ip
<1>1. msg.type \in {"DISCOVER", "REQUEST", "RELEASE", "DECLINE"}
  BY DEF Request
<1>2. ASSUME NEW ip, Asks(msg, ip)
      PROVE  answer \in {"ACK", "NAK"} /\ (answer = "ACK" => u.result = ip)
  BY <1>2 DEF Asks, ParseOptions
<1> QED BY <1>1, <1>2 DEF ParseOptions

\* The handshake when the server has answered the first datagram, or not.
LEMMA HandledHandshake ==
  ASSUME NEW p, NEW a, NEW w, NEW e, NEW f, NEW t,
         NEW qs \in Seq(Request), qs # <<>>, NEW qc \in Seq(Reply),
         Handshake(p, a, w, e, f, qs, qc, t),
         NEW u, u.renew \in BOOLEAN, u.renew => u.result = Head(qs).ciaddr, u.result \in Addr,
         NEW answer, answer = ParseOptions(Head(qs), u),
         NEW q, NEW s,
         \/ /\ answer \in {"OFFER", "ACK", "NAK"} /\ s = answer
            /\ q \in Sent(qc, MaxReplies, CreateMsg(Head(qs), answer, u.result))
         \/ answer \in {"IDLE", "RELEASE"} /\ q = qc /\ s = t
  PROVE  q \in Seq(Reply) /\ Handshake(p, a, w, e, f, Tail(qs), q, s)
<1> DEFINE msg == Head(qs)
           reply == CreateMsg(msg, answer, u.result)
<1>1. msg \in Request /\ msg.xid \in BOOLEAN
  <2>1. msg \in Request
    BY TailFacts
  <2> QED BY <2>1 DEF Request
<1>2. /\ msg.type = "DISCOVER" => answer = "OFFER"
      /\ \A ip : Asks(msg, ip) => /\ answer \in {"ACK", "NAK"}
                                  /\ answer = "ACK" => u.result = ip
  BY <1>1, AnswerFacts
<1>3. \A ip : /\ AllAsk(qs, ip) => AllAsk(Tail(qs), ip) /\ Asks(msg, ip)
              /\ Discovering(qs) => /\ Discovering(Tail(qs))
                                    /\ msg.xid => msg.type = "DISCOVER"
              /\ InTurn(qs, ip) => /\ InTurn(Tail(qs), ip)
                                   /\ msg.xid => msg.type = "DISCOVER" \/ AllAsk(qs, ip)
  BY RestFacts
<1> HIDE DEF msg
<1>4. CASE answer \in {"IDLE", "RELEASE"} /\ q = qc /\ s = t
  BY <1>3, <1>4 DEF Handshake
<1>5. CASE /\ answer \in {"OFFER", "ACK", "NAK"} /\ s = answer
           /\ q \in Sent(qc, MaxReplies, reply)
  <2>1. /\ reply \in Reply /\ reply.type = answer /\ reply.yiaddr = u.result
        /\ reply.xid = msg.xid
    BY <1>1, <1>5 DEF CreateMsg, Reply
  <2> HIDE DEF reply
  <2>2. /\ q \in Seq(Reply)
        /\ \A j \in 1 .. Len(q) : \/ j \in 1 .. Len(qc) /\ q[j] = qc[j]
                                  \/ j = Len(q) /\ q[j] = reply
    BY <1>5, <2>1, SentFacts
  <2>3. Answered(q) => Answered(qc) \/ (msg.xid /\ answer \in {"ACK", "NAK"})
    BY <1>5, <2>1, AnsweredFacts
  <2>4. p = "SELECTING" => Discovering(Tail(qs)) /\ ~Answered(q)
    BY <1>2, <1>3, <2>3 DEF Handshake
  <2>5. p = "REQUESTING" => w # IPADDR_ANY /\ f >= 1 /\ InTurn(Tail(qs), w)
    BY <1>3 DEF Handshake
  <2>6. p \in {"BOUND", "RENEWING"} =>
          a = w /\ a # IPADDR_ANY /\ e >= 1 /\ answer \in {"ACK", "NAK"} /\ AllAsk(Tail(qs), w)
    BY <1>2, <1>3 DEF Handshake
  <2>7. ASSUME p \in {"REQUESTING", "RENEWING"}
        PROVE  /\ Answered(q) => AllAsk(Tail(qs), w) /\ answer \in {"ACK", "NAK"}
               /\ msg.xid /\ answer = "ACK" => u.result = w
    <3>1. AllAsk(qs, w) => AllAsk(Tail(qs), w) /\ answer \in {"ACK", "NAK"}
                           /\ (answer = "ACK" => u.result = w)
      BY <1>2, <1>3
    <3>2. Answered(qc) => AllAsk(qs, w)
      BY <2>7 DEF Handshake
    <3>3. msg.xid /\ answer \in {"ACK", "NAK"} => AllAsk(qs, w)
      BY <1>2, <1>3, <2>7 DEF Handshake
    <3> QED BY <2>3, <3>1, <3>2, <3>3
  <2>8. ASSUME p \in {"REQUESTING", "RENEWING"}, NEW j \in 1 .. Len(q), q[j].xid,
               q[j].type = "ACK"
        PROVE  q[j].yiaddr = w
    <3>1. CASE j \in 1 .. Len(qc) /\ q[j] = qc[j]
      BY <2>8, <3>1 DEF Handshake
    <3>2. CASE q[j] = reply
      BY <2>1, <2>7, <2>8, <3>2
    <3> QED BY <2>2, <3>1, <3>2
  <2>9. (p \in {"INIT", "SELECTING", "REQUESTING"} => a = IPADDR_ANY) /\ (p = "RENEWING" => f >= e)
    BY DEF Handshake
  <2> QED BY <1>5, <2>2, <2>4, <2>5, <2>6, <2>7, <2>8, <2>9 DEF Handshake
<1> QED BY <1>4, <1>5 DEF msg

\* The server keeps its word when it has answered the first datagram, or not.
LEMMA HandledWord ==
  ASSUME NEW p, NEW a, NEW w, NEW e \in 0 .. DHCPS_LEASE_TIMER,
         NEW f \in 0 .. DHCPS_LEASE_TIMER, NEW t,
         NEW qs \in Seq(Request), qs # <<>>, NEW qc \in Seq(Reply),
         Handshake(p, a, w, e, f, qs, qc, t),
         NEW u, u.renew => u.result = Head(qs).ciaddr,
         NEW answer, answer = ParseOptions(Head(qs), u),
         NEW q, NEW s,
         \/ /\ answer \in {"OFFER", "ACK", "NAK"} /\ s = answer
            /\ q \in Sent(qc, MaxReplies, CreateMsg(Head(qs), answer, u.result))
         \/ answer \in {"IDLE", "RELEASE"} /\ q = qc /\ s = t,
         NEW list, NEW m, Answers(u, list, m), NEW new, NEW st, NEW st2,
         answer # "RELEASE" => new = u.plist /\ st2 = IF u.told THEN u.result ELSE st
  PROVE  Word(new, m, st2, p, a, w, e, f, q, s)
<1> DEFINE msg == Head(qs)
           reply == CreateMsg(msg, answer, u.result)
<1>1. /\ msg \in Request /\ msg.xid \in BOOLEAN
      /\ u.renew \in BOOLEAN /\ u.result \in Addr
  <2>1. msg \in Request
    BY TailFacts
  <2> QED BY <2>1 DEF Request, Answers
<1>2. /\ msg.type = "DISCOVER" => answer = "OFFER"
      /\ \A ip : Asks(msg, ip) => /\ answer \in {"ACK", "NAK"}
                                  /\ answer = "ACK" => u.result = ip
  BY <1>1, AnswerFacts
<1>3. \A ip : /\ AllAsk(qs, ip) => Asks(msg, ip)
              /\ InTurn(qs, ip) /\ msg.xid => msg.type = "DISCOVER" \/ AllAsk(qs, ip)
  BY RestFacts
<1> HIDE DEF msg
<1>4. ASSUME AllAsk(qs, w), s = "ACK"
      PROVE  st2 = w /\ Holds(new, m, w, e) /\ Holds(new, m, w, f)
  <2>1. Asks(msg, w) /\ answer = "ACK" /\ u.result = w
    <3>1. Asks(msg, w)
      BY <1>3, <1>4
    <3>2. answer \in {"ACK", "NAK"} /\ (answer = "ACK" => u.result = w)
      BY <1>2, <3>1
    <3> QED BY <1>4, <3>1, <3>2
  <2>2. u.told /\ GoodList(u.plist) /\ Holds(u.plist, m, w, DHCPS_LEASE_TIMER)
    BY <2>1 DEF Answers, Grants, Asks
  <2>3. new = u.plist /\ st2 = w
    BY <2>1, <2>2
  <2> QED BY <2>2, <2>3, HoldsLess
<1>5. ASSUME s = "ACK", p \in {"BOUND", "RENEWING"} PROVE AllAsk(qs, w) /\ a = w
  BY <1>5 DEF Handshake
<1>6. ASSUME s = "ACK", p \in {"REQUESTING", "RENEWING"}, Answered(q) PROVE AllAsk(qs, w)
  <2>1. Answered(qc) => AllAsk(qs, w)
    BY <1>6 DEF Handshake
  <2>2. CASE answer \in {"IDLE", "RELEASE"} /\ q = qc /\ s = t
    BY <1>6, <2>1, <2>2
  <2>3. CASE /\ answer \in {"OFFER", "ACK", "NAK"} /\ s = answer
             /\ q \in Sent(qc, MaxReplies, reply)
    <3>1. reply \in Reply /\ reply.xid = msg.xid
      BY <1>1, <2>3 DEF CreateMsg, Reply
    <3> HIDE DEF reply
    <3>2. Answered(qc) \/ msg.xid
      BY <1>6, <2>3, <3>1, AnsweredFacts
    <3>3. msg.xid => AllAsk(qs, w)
      BY <1>2, <1>3, <1>6, <2>3 DEF Handshake
    <3> QED BY <2>1, <3>2, <3>3
  <2> QED BY <2>2, <2>3 DEF msg
<1> QED BY <1>4, <1>5, <1>6 DEF Word

\* What handle_dhcp does to the leases, to what the blob knows of the stations,
\* and to the queues of the client it serves.
HandledAs(m, u, answer) ==
  /\ toServer[m] \in Seq(Request) /\ toServer[m] # <<>>
  /\ Answers(u, plist, m) /\ (u.renew => u.result = Head(toServer[m]).ciaddr)
  /\ answer = ParseOptions(Head(toServer[m]), u)
  /\ GoodList(plist')
  /\ \A n, ip, w : n # m /\ Holds(plist, n, ip, w) => Holds(plist', n, ip, w)
  /\ /\ RoomInNet /\ Netted(Head(toServer[m]).ciaddr)
     /\ UniqueIp(plist) /\ AllInNet(plist, ServedRange.start)
     => /\ UniqueIp(plist') /\ AllInNet(plist', ServedRange.start)
        /\ Netted(u.result)
  /\ \E st \in Addr : /\ station' = [station EXCEPT ![m] = st]
                      /\ answer # "RELEASE" =>
                           plist' = u.plist /\ st = IF u.told THEN u.result ELSE station[m]
  /\ toServer' = [toServer EXCEPT ![m] = Tail(@)]
  /\ \/ /\ answer \in {"OFFER", "ACK", "NAK"} /\ told' = [told EXCEPT ![m] = answer]
        /\ \E q \in Sent(toClient[m], MaxReplies, CreateMsg(Head(toServer[m]), answer, u.result)) :
             toClient' = [toClient EXCEPT ![m] = q]
     \/ answer \in {"IDLE", "RELEASE"} /\ toClient' = toClient /\ told' = told
  /\ UNCHANGED client

\* handle_dhcp does that.
LEMMA HandleFacts ==
  ASSUME TypeOK, GoodList(plist), NEW m \in Mac, HandleDhcp(m),
         NEW u, u = Updated(plist, ServedRange, FALSE, m, Head(toServer[m]).ciaddr),
         NEW answer, answer = ParseOptions(Head(toServer[m]), u)
  PROVE  HandledAs(m, u, answer)
<1> DEFINE msg == Head(toServer[m])
           i == LeaseOf(u.plist, m, msg.ciaddr)
<1>1. toServer[m] \in Seq(Request) /\ toServer[m] # <<>> /\ station[m] \in Addr
  BY DEF TypeOK, HandleDhcp
<1>2. msg \in Request /\ msg.ciaddr \in Addr
  <2>1. msg \in Request
    BY <1>1, TailFacts
  <2> QED BY <2>1 DEF Request
<1> HIDE DEF msg
<1>3. u = Updated(plist, ServedRange, FALSE, m, msg.ciaddr)
  BY DEF msg
<1>4. /\ Answers(u, plist, m) /\ GoodList(u.plist)
      /\ \A n, a, w : n # m /\ Holds(plist, n, a, w) => Holds(u.plist, n, a, w)
      /\ RoomInNet /\ Netted(msg.ciaddr) /\ UniqueIp(plist) /\ AllInNet(plist, ServedRange.start)
         => /\ UniqueIp(u.plist) /\ AllInNet(u.plist, ServedRange.start)
            /\ Netted(u.result)
  <2>1. PICK ip \in Addr : ip = msg.ciaddr
    BY <1>2
  <2>2. PICK range : range = ServedRange
    OBVIOUS
  <2>3. u = Updated(plist, range, FALSE, m, ip) /\ GoodStart(range.start)
    BY <1>3, <2>1, <2>2, ServedFacts
  <2>4. /\ Answers(u, plist, m)
        /\ GoodList(u.plist)
        /\ \A n, a, w : n # m /\ Holds(plist, n, a, w) => Holds(u.plist, n, a, w)
        /\ /\ (range.start + Cardinality(Mac) - 1) \div OCTET = range.start \div OCTET
           /\ ip \in {IPADDR_ANY, IPADDR_BROADCAST} \/ InNet(ip, range.start)
           /\ UniqueIp(plist) /\ AllInNet(plist, range.start)
           => /\ UniqueIp(u.plist) /\ AllInNet(u.plist, range.start)
              /\ u.result = IPADDR_ANY \/ InNet(u.result, range.start)
    BY <2>3, ServedFacts, UpdatedFacts
  <2> QED BY <2>1, <2>2, <2>4 DEF RoomInNet, Netted
<1>5. ASSUME u.renew PROVE u.result = msg.ciaddr
  <2>1. Updated(plist, ServedRange, FALSE, m, msg.ciaddr).renew
    BY ONLY <1>3, <1>5
  <2>2. Updated(plist, ServedRange, FALSE, m, msg.ciaddr).result = msg.ciaddr
    BY ONLY <2>1, RenewFacts
  <2> QED BY ONLY <1>3, <2>2
<1>6. /\ plist' = ParseMsg(m, msg, u).plist
      /\ station' = [station EXCEPT ![m] = ParseMsg(m, msg, u).ip]
      /\ \/ /\ answer \in {"OFFER", "ACK", "NAK"}
            /\ SendAnswer(m, CreateMsg(msg, answer, u.result))
         \/ answer \in {"IDLE", "RELEASE"} /\ UNCHANGED <<toClient, told>>
      /\ toServer' = [toServer EXCEPT ![m] = Tail(@)]
      /\ UNCHANGED client
  BY DEF HandleDhcp, msg
<1>7. answer = ParseOptions(msg, u)
  BY DEF msg
<1>8. /\ i # 0 => i \in 1 .. Len(u.plist) /\ u.plist[i].mac = m
      /\ GoodList(plist')
      /\ \A n, ip, w : n # m /\ Holds(plist, n, ip, w) => Holds(plist', n, ip, w)
      /\ UniqueIp(u.plist) => UniqueIp(plist')
      /\ \A s : AllInNet(u.plist, s) => AllInNet(plist', s)
  <2>1. i # 0 => i \in 1 .. Len(u.plist) /\ u.plist[i].mac = m
    <3>1. PICK list : list = u.plist
      OBVIOUS
    <3>2. list \in Seq(Node) /\ Len(list) \in Nat
      BY <1>4, <3>1, NodeFacts DEF GoodList
    <3>3. /\ LeaseOf(list, m, msg.ciaddr) \in 0 .. Len(list)
          /\ LeaseOf(list, m, msg.ciaddr) # 0 => list[LeaseOf(list, m, msg.ciaddr)].mac = m
      BY <3>2, LeaseOfFacts
    <3>4. LeaseOf(list, m, msg.ciaddr) # 0 =>
            /\ LeaseOf(list, m, msg.ciaddr) \in 1 .. Len(list)
            /\ list[LeaseOf(list, m, msg.ciaddr)].mac = m
      BY ONLY <3>2, <3>3
    <3> QED BY ONLY <3>1, <3>4
  <2>2. plist' = IF answer = "RELEASE" /\ i # 0 THEN Left(u.plist, i, TRUE) ELSE u.plist
    BY <1>6, <1>7 DEF ParseMsg
  <2> HIDE DEF i
  <2>3. CASE answer = "RELEASE" /\ i # 0
    <3> DEFINE left == Left(u.plist, i, TRUE)
    <3>1. i \in 1 .. Len(u.plist) /\ u.plist[i].mac = m
      BY <2>1, <2>3
    <3>2. /\ GoodList(left)
          /\ \A n, ip, w : n # u.plist[i].mac /\ Holds(u.plist, n, ip, w) => Holds(left, n, ip, w)
          /\ UniqueIp(u.plist) => UniqueIp(left)
          /\ \A s : AllInNet(u.plist, s) => AllInNet(left, s)
      BY <1>4, <3>1, LeftFacts
    <3>3. plist' = left
      BY <2>2, <2>3
    <3> HIDE DEF left
    <3> QED BY <1>4, <2>1, <3>1, <3>2, <3>3
  <2>4. CASE ~(answer = "RELEASE" /\ i # 0)
    BY <1>4, <2>1, <2>2, <2>4
  <2> QED BY <2>3, <2>4
<1>9. PICK st : st = ParseMsg(m, msg, u).ip
  OBVIOUS
<1>10. /\ st \in Addr
       /\ answer # "RELEASE" =>
            plist' = u.plist /\ st = IF u.told THEN u.result ELSE station[m]
  BY <1>1, <1>4, <1>6, <1>7, <1>9, AnyInAddr DEF ParseMsg, Answers
<1>11. \/ /\ answer \in {"OFFER", "ACK", "NAK"} /\ told' = [told EXCEPT ![m] = answer]
          /\ \E q \in Sent(toClient[m], MaxReplies, CreateMsg(msg, answer, u.result)) :
               toClient' = [toClient EXCEPT ![m] = q]
       \/ answer \in {"IDLE", "RELEASE"} /\ toClient' = toClient /\ told' = told
  BY <1>6 DEF SendAnswer, CreateMsg
<1> QED BY <1>1, <1>4, <1>5, <1>6, <1>7, <1>8, <1>9, <1>10, <1>11 DEF HandledAs, msg

-----------------------------------------------------------------------------
(* 5. The pieces of a client's step.                                       *)

\* A step of m leaves the other clients as they are.
Alone(m) ==
  \A n \in Mac \ {m} :
    /\ pc'[n] = pc[n] /\ addr'[n] = addr[n] /\ asked'[n] = asked[n]
    /\ ends'[n] = ends[n] /\ fresh'[n] = fresh[n]
    /\ toServer'[n] = toServer[n] /\ toClient'[n] = toClient[n]
    /\ told'[n] = told[n] /\ station'[n] = station[n]

\* Its part of that, and of the types, for the state the clients keep.
ClientsAlone(m) ==
  \A n \in Mac \ {m} : /\ pc'[n] = pc[n] /\ addr'[n] = addr[n] /\ asked'[n] = asked[n]
                        /\ ends'[n] = ends[n] /\ fresh'[n] = fresh[n]
\* The types of that state.
ClientTypes ==
  /\ pc \in [Mac -> {"INIT", "SELECTING", "REQUESTING", "BOUND", "RENEWING"}]
  /\ addr \in [Mac -> Addr] /\ asked \in [Mac -> Addr]
  /\ ends \in [Mac -> 0 .. DHCPS_LEASE_TIMER] /\ fresh \in [Mac -> 0 .. DHCPS_LEASE_TIMER]

\* The fields of a well-typed state.
LEMMA TypeFacts ==
  ASSUME TypeOK, NEW m \in Mac
  PROVE  /\ toServer[m] \in Seq(Request) /\ toClient[m] \in Seq(Reply)
         /\ pc[m] \in {"INIT", "SELECTING", "REQUESTING", "BOUND", "RENEWING"}
         /\ addr[m] \in Addr /\ asked[m] \in Addr /\ station[m] \in Addr
         /\ ends[m] \in 0 .. DHCPS_LEASE_TIMER /\ fresh[m] \in 0 .. DHCPS_LEASE_TIMER
         /\ ends[m] \in Nat /\ fresh[m] \in Nat /\ DHCPS_LEASE_TIMER \in Nat
<1>1. DHCPS_LEASE_TIMER \in Nat
  BY AddrFacts
<1>2. /\ toServer[m] \in Seq(Request) /\ toClient[m] \in Seq(Reply)
      /\ pc[m] \in {"INIT", "SELECTING", "REQUESTING", "BOUND", "RENEWING"}
      /\ addr[m] \in Addr /\ asked[m] \in Addr /\ station[m] \in Addr
      /\ ends[m] \in 0 .. DHCPS_LEASE_TIMER /\ fresh[m] \in 0 .. DHCPS_LEASE_TIMER
  BY DEF TypeOK
<1> QED BY <1>1, <1>2

\* A client sends.
LEMMA SendFacts ==
  ASSUME TypeOK, NEW m \in Mac, NEW old \in Seq(Request), NEW msg \in Request,
         Send(m, old, msg)
  PROVE  /\ toServer' \in [Mac -> Seq(Request)]
         /\ toServer'[m] \in Sent(old, MaxRequests, msg)
         /\ \A n \in Mac \ {m} : toServer'[n] = toServer[n]
         /\ Netted(msg.ciaddr) /\ (\A i \in 1 .. Len(old) : Netted(old[i].ciaddr))
              => \A i \in 1 .. Len(toServer'[m]) : Netted(toServer'[m][i].ciaddr)
<1>1. PICK q \in Sent(old, MaxRequests, msg) : toServer' = [toServer EXCEPT ![m] = q]
  BY DEF Send
<1>2. /\ q \in Seq(Request) /\ Len(q) \in Nat
      /\ \A j \in 1 .. Len(q) : \/ j \in 1 .. Len(old) /\ q[j] = old[j]
                                \/ j = Len(q) /\ q[j] = msg
  BY SentFacts
<1>3. toServer \in [Mac -> Seq(Request)]
  BY DEF TypeOK
<1>4. /\ toServer' \in [Mac -> Seq(Request)] /\ toServer'[m] = q
      /\ \A n \in Mac \ {m} : toServer'[n] = toServer[n]
  BY <1>1, <1>2, <1>3
<1>5. Netted(msg.ciaddr) /\ (\A i \in 1 .. Len(old) : Netted(old[i].ciaddr))
        => \A i \in 1 .. Len(q) : Netted(q[i].ciaddr)
  BY <1>2
<1> QED BY <1>4, <1>5

\* A client begins an exchange.
LEMMA BeginFacts ==
  ASSUME TypeOK, NEW m \in Mac, NEW msg \in Request, Begin(m, msg)
  PROVE  /\ toServer' \in [Mac -> Seq(Request)] /\ toClient' \in [Mac -> Seq(Reply)]
         /\ toServer'[m] \in Sent(Old(toServer[m]), MaxRequests, msg)
         /\ ~Answered(toClient'[m]) /\ \A i \in 1 .. Len(toClient'[m]) : FALSE
         /\ \A n \in Mac \ {m} : toServer'[n] = toServer[n] /\ toClient'[n] = toClient[n]
         /\ plist' = plist /\ station' = station /\ told' = told
         /\ Netted(msg.ciaddr) /\ NettedQueues(toServer[m], toClient[m])
              => NettedQueues(toServer'[m], toClient'[m])
<1>1. /\ Old(toServer[m]) \in Seq(Request) /\ Len(Old(toServer[m])) = Len(toServer[m])
      /\ \A i \in 1 .. Len(toServer[m]) : Old(toServer[m])[i].ciaddr = toServer[m][i].ciaddr
  BY TypeFacts, OldFacts
<1>2. Send(m, Old(toServer[m]), msg) /\ toClient' = [toClient EXCEPT ![m] = <<>>]
  BY DEF Begin
<1>3. /\ toServer' \in [Mac -> Seq(Request)]
      /\ toServer'[m] \in Sent(Old(toServer[m]), MaxRequests, msg)
      /\ \A n \in Mac \ {m} : toServer'[n] = toServer[n]
      /\ Netted(msg.ciaddr) /\ (\A i \in 1 .. Len(toServer[m]) : Netted(toServer[m][i].ciaddr))
           => \A i \in 1 .. Len(toServer'[m]) : Netted(toServer'[m][i].ciaddr)
  BY <1>1, <1>2, SendFacts
<1>4. /\ toClient' \in [Mac -> Seq(Reply)] /\ toClient'[m] = <<>>
      /\ \A n \in Mac \ {m} : toClient'[n] = toClient[n]
  <2>1. toClient \in [Mac -> Seq(Reply)] /\ <<>> \in Seq(Reply)
    BY EmptySeq DEF TypeOK
  <2> QED BY <1>2, <2>1
<1>5. Len(toClient'[m]) = 0
  BY <1>4, EmptySeq
<1>6. plist' = plist /\ station' = station /\ told' = told
  BY DEF Begin, server
<1> QED BY <1>3, <1>4, <1>5, <1>6 DEF Answered, NettedQueues

\* A client changes its state.
LEMMA BecomeFacts ==
  ASSUME TypeOK, NEW m \in Mac, NEW state, NEW ip \in Addr, NEW wish \in Addr,
         state \in {"INIT", "SELECTING", "REQUESTING", "BOUND", "RENEWING"},
         Become(m, state, ip, wish)
  PROVE  /\ ClientTypes'
         /\ pc'[m] = state /\ addr'[m] = ip /\ asked'[m] = wish
         /\ state \in {"REQUESTING", "RENEWING"} => fresh'[m] = DHCPS_LEASE_TIMER
         /\ ip # IPADDR_ANY => ends'[m] = IF state = "BOUND" THEN fresh[m] ELSE ends[m]
         /\ ClientsAlone(m)
<1> DEFINE T == 0 .. DHCPS_LEASE_TIMER
           f == IF state \in {"REQUESTING", "RENEWING"} THEN DHCPS_LEASE_TIMER ELSE 0
           e == CASE ip = IPADDR_ANY  -> 0
                  [] state = "BOUND"  -> fresh[m]
                  [] OTHER            -> ends[m]
<1>1. /\ pc \in [Mac -> {"INIT", "SELECTING", "REQUESTING", "BOUND", "RENEWING"}]
      /\ addr \in [Mac -> Addr] /\ asked \in [Mac -> Addr]
      /\ ends \in [Mac -> T] /\ fresh \in [Mac -> T]
  BY DEF TypeOK
<1>2. 0 \in T /\ DHCPS_LEASE_TIMER \in T /\ fresh[m] \in T /\ ends[m] \in T
  BY <1>1, AddrFacts
<1> HIDE DEF T
<1>3. /\ f \in T /\ e \in T
      /\ state \in {"REQUESTING", "RENEWING"} => f = DHCPS_LEASE_TIMER
      /\ ip # IPADDR_ANY => e = IF state = "BOUND" THEN fresh[m] ELSE ends[m]
  BY <1>2
<1>4. /\ pc' = [pc EXCEPT ![m] = state] /\ addr' = [addr EXCEPT ![m] = ip]
      /\ asked' = [asked EXCEPT ![m] = wish]
      /\ fresh' = [fresh EXCEPT ![m] = f] /\ ends' = [ends EXCEPT ![m] = e]
  BY DEF Become
<1> HIDE DEF e, f
<1>5. /\ pc' \in [Mac -> {"INIT", "SELECTING", "REQUESTING", "BOUND", "RENEWING"}]
      /\ addr' \in [Mac -> Addr] /\ asked' \in [Mac -> Addr]
      /\ ends' \in [Mac -> T] /\ fresh' \in [Mac -> T]
  BY <1>1, <1>3, <1>4
<1>6. /\ pc'[m] = state /\ addr'[m] = ip /\ asked'[m] = wish
      /\ fresh'[m] = f /\ ends'[m] = e
      /\ ClientsAlone(m)
  BY <1>1, <1>4 DEF ClientsAlone
<1> QED BY <1>3, <1>5, <1>6 DEF T, ClientTypes

\* A client receives.
LEMMA ReceivedFacts ==
  ASSUME TypeOK, NEW m \in Mac, Received(m)
  PROVE  /\ toClient[m] # <<>> /\ toClient' \in [Mac -> Seq(Reply)]
         /\ toClient'[m] = Tail(toClient[m]) /\ toClient'[m] \in Seq(Reply)
         /\ \A n \in Mac \ {m} : toClient'[n] = toClient[n]
         /\ plist' = plist /\ station' = station /\ told' = told
         /\ Head(toClient[m]) \in Reply /\ Head(toClient[m]) = toClient[m][1]
         /\ 1 \in 1 .. Len(toClient[m])
         /\ \A i \in 1 .. Len(toClient'[m]) :
              i + 1 \in 1 .. Len(toClient[m]) /\ toClient'[m][i] = toClient[m][i + 1]
         /\ Answered(toClient'[m]) => Answered(toClient[m])
<1>1. /\ toClient \in [Mac -> Seq(Reply)] /\ toClient[m] \in Seq(Reply)
  BY DEF TypeOK
<1>2. toClient[m] # <<>> /\ toClient' = [toClient EXCEPT ![m] = Tail(@)]
  BY DEF Received
<1>3. /\ Tail(toClient[m]) \in Seq(Reply)
      /\ Head(toClient[m]) \in Reply /\ Head(toClient[m]) = toClient[m][1]
      /\ 1 \in 1 .. Len(toClient[m])
      /\ \A i \in 1 .. Len(Tail(toClient[m])) :
           i + 1 \in 1 .. Len(toClient[m]) /\ Tail(toClient[m])[i] = toClient[m][i + 1]
  BY <1>1, <1>2, TailFacts
<1>4. Answered(Tail(toClient[m])) => Answered(toClient[m])
  BY <1>1, <1>2, AnsweredFacts
<1>5. /\ toClient' \in [Mac -> Seq(Reply)] /\ toClient'[m] = Tail(toClient[m])
      /\ \A n \in Mac \ {m} : toClient'[n] = toClient[n]
  BY <1>1, <1>2, <1>3
<1>6. plist' = plist /\ station' = station /\ told' = told
  BY DEF Received, server
<1> QED BY <1>2, <1>3, <1>4, <1>5, <1>6

-----------------------------------------------------------------------------
(* 6. A client's step.                                                     *)

\* What each client's action does: nothing to the server or the other clients,
\* and to its own client what the invariants ask for.
ClientStep(m) ==
  /\ TypeOK' /\ plist' = plist /\ Alone(m)
  /\ ShakenWell(m)'
  /\ WordKept(m) => WordKept(m)'
  /\ NettedOf(m) => NettedOf(m)'

\* ClientDiscover: a new exchange, without an address.
LEMMA DiscoverStep ==
  ASSUME IInv, NEW m \in Mac, ClientDiscover(m)
  PROVE  ClientStep(m)
<1>1. TypeOK /\ Begin(m, Discover) /\ Become(m, "SELECTING", IPADDR_ANY, IPADDR_ANY)
  BY DEF IInv, ClientDiscover
<1>2. Discover \in Request /\ Discover.ciaddr = IPADDR_ANY /\ IPADDR_ANY \in Addr
  BY AnyInAddr, DatagramFacts
<1>3. /\ toServer' \in [Mac -> Seq(Request)] /\ toClient' \in [Mac -> Seq(Reply)]
      /\ toServer'[m] \in Sent(Old(toServer[m]), MaxRequests, Discover)
      /\ ~Answered(toClient'[m])
      /\ \A n \in Mac \ {m} : toServer'[n] = toServer[n] /\ toClient'[n] = toClient[n]
      /\ plist' = plist /\ station' = station /\ told' = told
      /\ Netted(Discover.ciaddr) /\ NettedQueues(toServer[m], toClient[m])
           => NettedQueues(toServer'[m], toClient'[m])
  BY <1>1, <1>2, BeginFacts
<1>4. /\ ClientTypes'
      /\ pc'[m] = "SELECTING" /\ addr'[m] = IPADDR_ANY
      /\ ClientsAlone(m)
  BY <1>1, <1>2, BecomeFacts
<1>5. Discovering(toServer'[m])
  BY <1>1, <1>3, TypeFacts, DiscoverSent
<1>6. TypeOK'
  BY <1>1, <1>3, <1>4 DEF TypeOK, ClientTypes
<1>7. ShakenWell(m)'
  BY <1>3, <1>4, <1>5 DEF ShakenWell, Handshake
<1>8. WordKept(m)'
  BY <1>4 DEF WordKept, Word
<1>9. NettedOf(m) => NettedOf(m)'
  BY <1>2, <1>3, <1>4 DEF NettedOf, Netted
<1> QED BY <1>3, <1>4, <1>6, <1>7, <1>8, <1>9 DEF ClientStep, Alone, ClientsAlone

\* ClientRejoin: a new exchange, that asks for the address remembered.
LEMMA RejoinStep ==
  ASSUME IInv, NEW m \in Mac, ClientRejoin(m)
  PROVE  ClientStep(m)
<1> DEFINE msg == RequestFor(asked[m])
<1>1. /\ TypeOK /\ Begin(m, msg) /\ Become(m, "REQUESTING", IPADDR_ANY, asked[m])
      /\ asked[m] # IPADDR_ANY
  BY DEF IInv, ClientRejoin
<1>2. /\ msg \in Request /\ msg.ciaddr = IPADDR_ANY /\ IPADDR_ANY \in Addr
      /\ asked[m] \in Addr
  BY <1>1, TypeFacts, AnyInAddr, DatagramFacts
<1>3. msg \in {RequestFor(asked[m]), RenewalOf(asked[m])}
  OBVIOUS
<1> HIDE DEF msg
<1>4. /\ toServer' \in [Mac -> Seq(Request)] /\ toClient' \in [Mac -> Seq(Reply)]
      /\ toServer'[m] \in Sent(Old(toServer[m]), MaxRequests, msg)
      /\ ~Answered(toClient'[m]) /\ \A i \in 1 .. Len(toClient'[m]) : FALSE
      /\ \A n \in Mac \ {m} : toServer'[n] = toServer[n] /\ toClient'[n] = toClient[n]
      /\ plist' = plist /\ station' = station /\ told' = told
      /\ Netted(msg.ciaddr) /\ NettedQueues(toServer[m], toClient[m])
           => NettedQueues(toServer'[m], toClient'[m])
  BY <1>1, <1>2, BeginFacts
<1>5. /\ ClientTypes'
      /\ pc'[m] = "REQUESTING" /\ addr'[m] = IPADDR_ANY /\ asked'[m] = asked[m]
      /\ fresh'[m] = DHCPS_LEASE_TIMER
      /\ ClientsAlone(m)
  <2>1. PICK wish \in Addr : wish = asked[m]
    BY <1>2
  <2>2. TypeOK /\ IPADDR_ANY \in Addr /\ Become(m, "REQUESTING", IPADDR_ANY, wish)
    BY <1>1, <1>2, <2>1
  <2> QED BY <2>1, <2>2, BecomeFacts
<1>6. InTurn(toServer'[m], asked[m])
  BY <1>1, <1>2, <1>3, <1>4, TypeFacts, RequestSent
<1>7. TypeOK'
  BY <1>1, <1>4, <1>5 DEF TypeOK, ClientTypes
<1>8. DHCPS_LEASE_TIMER >= 1
  BY AddrFacts
<1>9. ShakenWell(m)'
  BY <1>1, <1>4, <1>5, <1>6, <1>8 DEF ShakenWell, Handshake
<1>10. WordKept(m)'
  BY <1>4, <1>5 DEF WordKept, Word
<1>11. NettedOf(m) => NettedOf(m)'
  BY <1>2, <1>4, <1>5 DEF NettedOf, Netted
<1> QED BY <1>4, <1>5, <1>7, <1>9, <1>10, <1>11 DEF ClientStep, Alone, ClientsAlone

\* ClientRenew: a new exchange, with the address kept meanwhile.
LEMMA RenewStep ==
  ASSUME IInv, NEW m \in Mac, ClientRenew(m)
  PROVE  ClientStep(m)
<1> DEFINE msg == RenewalOf(addr[m])
<1>1. /\ TypeOK /\ Begin(m, msg) /\ Become(m, "RENEWING", addr[m], addr[m])
      /\ pc[m] = "BOUND" /\ ShakenWell(m)
  BY DEF IInv, ClientRenew, ShakenWell
<1>2. /\ addr[m] = asked[m] /\ addr[m] # IPADDR_ANY /\ ends[m] >= 1
      /\ told[m] \in {"ACK", "NAK"} /\ AllAsk(toServer[m], addr[m])
  BY <1>1 DEF ShakenWell, Handshake
<1>3. /\ msg \in Request /\ msg.ciaddr = addr[m] /\ addr[m] \in Addr
      /\ Asks(msg, addr[m])
  BY <1>1, <1>2, TypeFacts, DatagramFacts
<1> HIDE DEF msg
<1>4. /\ toServer' \in [Mac -> Seq(Request)] /\ toClient' \in [Mac -> Seq(Reply)]
      /\ toServer'[m] \in Sent(Old(toServer[m]), MaxRequests, msg)
      /\ ~Answered(toClient'[m]) /\ \A i \in 1 .. Len(toClient'[m]) : FALSE
      /\ \A n \in Mac \ {m} : toServer'[n] = toServer[n] /\ toClient'[n] = toClient[n]
      /\ plist' = plist /\ station' = station /\ told' = told
      /\ Netted(msg.ciaddr) /\ NettedQueues(toServer[m], toClient[m])
           => NettedQueues(toServer'[m], toClient'[m])
  BY <1>1, <1>3, BeginFacts
<1>5. /\ ClientTypes'
      /\ pc'[m] = "RENEWING" /\ addr'[m] = addr[m] /\ asked'[m] = addr[m]
      /\ fresh'[m] = DHCPS_LEASE_TIMER /\ ends'[m] = ends[m]
      /\ ClientsAlone(m)
  <2>1. PICK ip \in Addr : ip = addr[m]
    BY <1>3
  <2>2. Become(m, "RENEWING", ip, ip) /\ ip # IPADDR_ANY
    BY <1>1, <1>2, <2>1
  <2> QED BY <1>1, <2>1, <2>2, BecomeFacts
<1>6. AllAsk(toServer'[m], addr[m])
  <2>1. Old(toServer[m]) \in Seq(Request) /\ AllAsk(Old(toServer[m]), addr[m])
    BY <1>1, <1>2, TypeFacts, OldFacts DEF AllAsk
  <2> QED BY <1>3, <1>4, <2>1, AllAskSent
<1>7. TypeOK'
  BY <1>1, <1>4, <1>5 DEF TypeOK, ClientTypes
<1>8. DHCPS_LEASE_TIMER >= ends[m]
  BY <1>1, TypeFacts
<1>9. ShakenWell(m)'
  BY <1>2, <1>4, <1>5, <1>6, <1>8 DEF ShakenWell, Handshake
<1>10. WordKept(m) => WordKept(m)'
  BY <1>1, <1>4, <1>5 DEF WordKept, Word
<1>11. NettedOf(m) => NettedOf(m)'
  BY <1>3, <1>4, <1>5 DEF NettedOf
<1> QED BY <1>4, <1>5, <1>7, <1>9, <1>10, <1>11 DEF ClientStep, Alone, ClientsAlone

\* ClientRelease and ClientDecline: one more datagram, and no address.
LEMMA GoodbyeStep ==
  ASSUME IInv, NEW m \in Mac, ClientRelease(m) \/ ClientDecline(m)
  PROVE  ClientStep(m)
<1>1. TypeOK /\ addr[m] \in Addr /\ IPADDR_ANY \in Addr
  BY TypeFacts, AnyInAddr DEF IInv
<1>2. PICK msg \in Request :
        /\ Begin(m, msg) /\ Become(m, "INIT", IPADDR_ANY, IPADDR_ANY)
        /\ msg.ciaddr \in {IPADDR_ANY, addr[m]}
  <2>1. CASE ClientRelease(m)
    <3>1. /\ [RenewalOf(addr[m]) EXCEPT !.type = "RELEASE"] \in Request
          /\ [RenewalOf(addr[m]) EXCEPT !.type = "RELEASE"].ciaddr = addr[m]
      BY <1>1 DEF RenewalOf, Request
    <3> QED BY <2>1, <3>1 DEF ClientRelease
  <2>2. CASE ClientDecline(m)
    <3>1. /\ [RequestFor(addr[m]) EXCEPT !.type = "DECLINE"] \in Request
          /\ [RequestFor(addr[m]) EXCEPT !.type = "DECLINE"].ciaddr = IPADDR_ANY
      BY <1>1 DEF RequestFor, Request
    <3> QED BY <2>2, <3>1 DEF ClientDecline
  <2> QED BY <2>1, <2>2
<1>3. /\ toServer' \in [Mac -> Seq(Request)] /\ toClient' \in [Mac -> Seq(Reply)]
      /\ \A n \in Mac \ {m} : toServer'[n] = toServer[n] /\ toClient'[n] = toClient[n]
      /\ plist' = plist /\ station' = station /\ told' = told
      /\ Netted(msg.ciaddr) /\ NettedQueues(toServer[m], toClient[m])
           => NettedQueues(toServer'[m], toClient'[m])
  BY <1>1, <1>2, BeginFacts
<1>4. /\ ClientTypes'
      /\ pc'[m] = "INIT" /\ addr'[m] = IPADDR_ANY
      /\ ClientsAlone(m)
  BY <1>1, <1>2, BecomeFacts
<1>5. TypeOK'
  BY <1>1, <1>3, <1>4 DEF TypeOK, ClientTypes
<1>6. ShakenWell(m)' /\ WordKept(m)'
  BY <1>4 DEF ShakenWell, Handshake, WordKept, Word
<1>7. NettedOf(m) => NettedOf(m)'
  BY <1>2, <1>3, <1>4 DEF NettedOf, Netted
<1> QED BY <1>3, <1>4, <1>5, <1>6, <1>7 DEF ClientStep, Alone, ClientsAlone

\* ClientRepeat: the last datagram once more.
LEMMA RepeatStep ==
  ASSUME IInv, NEW m \in Mac, ClientRepeat(m)
  PROVE  ClientStep(m)
<1>1. TypeOK /\ toServer[m] \in Seq(Request) /\ ShakenWell(m)
  BY TypeFacts DEF IInv, ShakenWell
<1>2. addr[m] \in Addr /\ asked[m] \in Addr
  BY <1>1, TypeFacts
<1>3. UNCHANGED <<server, toClient, client, told>>
  BY DEF ClientRepeat
<1>4. ASSUME NEW msg \in Request, Send(m, toServer[m], msg), msg.ciaddr \in {IPADDR_ANY, addr[m]}
      PROVE  /\ toServer' \in [Mac -> Seq(Request)]
             /\ toServer'[m] \in Sent(toServer[m], MaxRequests, msg)
             /\ \A n \in Mac \ {m} : toServer'[n] = toServer[n]
             /\ NettedOf(m) => NettedOf(m)'
  <2>1. /\ toServer' \in [Mac -> Seq(Request)]
        /\ toServer'[m] \in Sent(toServer[m], MaxRequests, msg)
        /\ \A n \in Mac \ {m} : toServer'[n] = toServer[n]
        /\ Netted(msg.ciaddr) /\ (\A i \in 1 .. Len(toServer[m]) : Netted(toServer[m][i].ciaddr))
             => \A i \in 1 .. Len(toServer'[m]) : Netted(toServer'[m][i].ciaddr)
    BY <1>1, <1>4, SendFacts
  <2>2. addr' = addr /\ toClient' = toClient
    BY <1>3 DEF client
  <2>3. Netted(addr[m]) => Netted(msg.ciaddr)
    BY <1>4 DEF Netted
  <2> QED BY <2>1, <2>2, <2>3 DEF NettedOf, NettedQueues
<1>5. ASSUME toServer' \in [Mac -> Seq(Request)],
             \A n \in Mac \ {m} : toServer'[n] = toServer[n],
             NettedOf(m) => NettedOf(m)',
             Handshake(pc[m], addr[m], asked[m], ends[m], fresh[m], toServer'[m], toClient[m],
                       told[m])
      PROVE  ClientStep(m)
  <2>1. TypeOK'
    BY <1>1, <1>3, <1>5 DEF TypeOK, client, server
  <2>2. plist' = plist /\ Alone(m) /\ ShakenWell(m)' /\ (WordKept(m) => WordKept(m)')
    BY <1>3, <1>5 DEF client, server, Alone, ShakenWell, WordKept
  <2> QED BY <1>5, <2>1, <2>2 DEF ClientStep
<1>6. CASE pc[m] = "SELECTING" /\ Send(m, toServer[m], Discover)
  <2>1. Discover \in Request /\ Discover.ciaddr = IPADDR_ANY
    BY AnyInAddr, DatagramFacts
  <2>2. Discovering(toServer[m])
    BY <1>1, <1>6 DEF ShakenWell, Handshake
  <2>3. Discovering(toServer'[m])
    BY <1>1, <1>4, <1>6, <2>1, <2>2, DiscoverSent
  <2>4. Handshake(pc[m], addr[m], asked[m], ends[m], fresh[m], toServer'[m], toClient[m], told[m])
    BY <1>1, <1>6, <2>3 DEF ShakenWell, Handshake
  <2> QED BY <1>4, <1>5, <1>6, <2>1, <2>4
<1>7. CASE pc[m] = "REQUESTING" /\ Send(m, toServer[m], RequestFor(asked[m]))
  <2> DEFINE msg == RequestFor(asked[m])
  <2>1. /\ asked[m] \in Addr \ {IPADDR_ANY} /\ InTurn(toServer[m], asked[m])
    BY <1>1, <1>2, <1>7 DEF ShakenWell, Handshake
  <2>2. msg \in Request /\ msg.ciaddr = IPADDR_ANY /\ Asks(msg, asked[m])
    BY <2>1, DatagramFacts
  <2>3. msg \in {RequestFor(asked[m]), RenewalOf(asked[m])} /\ Send(m, toServer[m], msg)
    BY <1>7
  <2> HIDE DEF msg
  <2>4. toServer'[m] \in Sent(toServer[m], MaxRequests, msg)
    BY <1>4, <2>2, <2>3
  <2>5. InTurn(toServer'[m], asked[m])
    BY <1>1, <2>1, <2>3, <2>4, RequestSent
  <2>6. AllAsk(toServer[m], asked[m]) => AllAsk(toServer'[m], asked[m])
    BY <1>1, <2>2, <2>4, AllAskSent
  <2>7. Handshake(pc[m], addr[m], asked[m], ends[m], fresh[m], toServer'[m], toClient[m], told[m])
    BY <1>1, <1>7, <2>5, <2>6 DEF ShakenWell, Handshake
  <2> QED BY <1>4, <1>5, <2>2, <2>3, <2>7
<1>8. CASE pc[m] = "RENEWING" /\ Send(m, toServer[m], RenewalOf(addr[m]))
  <2> DEFINE msg == RenewalOf(addr[m])
  <2>1. addr[m] = asked[m] /\ addr[m] # IPADDR_ANY /\ AllAsk(toServer[m], asked[m])
    BY <1>1, <1>8 DEF ShakenWell, Handshake
  <2>2. msg \in Request /\ msg.ciaddr = addr[m] /\ Asks(msg, asked[m])
    BY <1>2, <2>1, DatagramFacts
  <2>3. Send(m, toServer[m], msg)
    BY <1>8
  <2> HIDE DEF msg
  <2>4. toServer'[m] \in Sent(toServer[m], MaxRequests, msg)
    BY <1>4, <2>2, <2>3
  <2>5. AllAsk(toServer'[m], asked[m])
    BY <1>1, <2>1, <2>2, <2>4, AllAskSent
  <2>6. Handshake(pc[m], addr[m], asked[m], ends[m], fresh[m], toServer'[m], toClient[m], told[m])
    BY <1>1, <1>8, <2>5 DEF ShakenWell, Handshake
  <2> QED BY <1>4, <1>5, <2>2, <2>3, <2>6
<1> QED BY <1>6, <1>7, <1>8 DEF ClientRepeat

\* ClientIgnores: an answer that is not expected is thrown away.
LEMMA IgnoreStep ==
  ASSUME IInv, NEW m \in Mac, ClientIgnores(m)
  PROVE  ClientStep(m)
<1>1. TypeOK /\ ShakenWell(m) /\ Received(m)
  BY DEF IInv, ShakenWell, ClientIgnores
<1>2. /\ toClient' \in [Mac -> Seq(Reply)]
      /\ \A n \in Mac \ {m} : toClient'[n] = toClient[n]
      /\ plist' = plist /\ station' = station /\ told' = told
      /\ \A i \in 1 .. Len(toClient'[m]) :
           i + 1 \in 1 .. Len(toClient[m]) /\ toClient'[m][i] = toClient[m][i + 1]
      /\ Answered(toClient'[m]) => Answered(toClient[m])
  BY <1>1, ReceivedFacts
<1>3. UNCHANGED <<toServer, client>>
  BY DEF ClientIgnores
<1>4. TypeOK'
  BY <1>1, <1>2, <1>3 DEF TypeOK, client
<1>5. ShakenWell(m)'
  <2>1. Handshake(pc[m], addr[m], asked[m], ends[m], fresh[m], toServer[m], toClient'[m], told[m])
    BY <1>1, <1>2 DEF ShakenWell, Handshake
  <2> QED BY <1>2, <1>3, <2>1 DEF ShakenWell, client
<1>6. WordKept(m) => WordKept(m)'
  BY <1>2, <1>3 DEF WordKept, Word, client
<1>7. NettedOf(m) => NettedOf(m)'
  BY <1>2, <1>3 DEF NettedOf, NettedQueues, client
<1> QED BY <1>2, <1>3, <1>4, <1>5, <1>6, <1>7 DEF ClientStep, Alone, client

\* ClientTakes: an OFFER is asked for, an ACK believed, a NAK obeyed.
LEMMA TakeStep ==
  ASSUME IInv, NEW m \in Mac, ClientTakes(m)
  PROVE  ClientStep(m)
<1> DEFINE reply == Head(toClient[m])
<1>1. TypeOK /\ ShakenWell(m) /\ Received(m)
  BY DEF IInv, ShakenWell, ClientTakes
<1>2. /\ toClient' \in [Mac -> Seq(Reply)]
      /\ \A n \in Mac \ {m} : toClient'[n] = toClient[n]
      /\ plist' = plist /\ station' = station /\ told' = told
      /\ reply \in Reply /\ reply = toClient[m][1] /\ 1 \in 1 .. Len(toClient[m])
      /\ \A i \in 1 .. Len(toClient'[m]) :
           i + 1 \in 1 .. Len(toClient[m]) /\ toClient'[m][i] = toClient[m][i + 1]
      /\ Answered(toClient'[m]) => Answered(toClient[m])
  BY <1>1, ReceivedFacts
<1>3. /\ toServer[m] \in Seq(Request) /\ addr[m] \in Addr /\ asked[m] \in Addr
      /\ IPADDR_ANY \in Addr /\ toServer \in [Mac -> Seq(Request)]
      /\ ends[m] \in Nat /\ fresh[m] \in Nat
  BY <1>1, TypeFacts, AnyInAddr DEF TypeOK
<1>4. reply.yiaddr \in Addr
  BY <1>2 DEF Reply
<1>5. /\ reply.xid
      /\ \/ pc[m] = "SELECTING" /\ reply.type = "OFFER" /\ reply.yiaddr # IPADDR_ANY
         \/ pc[m] \in {"REQUESTING", "RENEWING"} /\ reply.type \in {"ACK", "NAK"}
  BY DEF ClientTakes, Expected
<1>6. \/ /\ reply.type = "OFFER"
         /\ Send(m, toServer[m], RequestFor(reply.yiaddr))
         /\ Become(m, "REQUESTING", IPADDR_ANY, reply.yiaddr)
      \/ /\ reply.type = "ACK"
         /\ Become(m, "BOUND", reply.yiaddr, asked[m])
         /\ UNCHANGED toServer
      \/ /\ reply.type = "NAK"
         /\ Become(m, "INIT", IPADDR_ANY, IPADDR_ANY)
         /\ UNCHANGED toServer
  BY DEF ClientTakes
<1> HIDE DEF reply
<1>7. NettedOf(m) => Netted(reply.yiaddr)
  BY <1>2 DEF NettedOf, NettedQueues
<1>8. ASSUME ClientTypes', ClientsAlone(m), toServer' \in [Mac -> Seq(Request)],
             \A n \in Mac \ {m} : toServer'[n] = toServer[n],
             ShakenWell(m)', WordKept(m) => WordKept(m)',
             NettedOf(m) => /\ Netted(addr'[m])
                            /\ \A i \in 1 .. Len(toServer'[m]) : Netted(toServer'[m][i].ciaddr)
      PROVE  ClientStep(m)
  <2>1. TypeOK'
    BY <1>1, <1>2, <1>8 DEF TypeOK, ClientTypes
  <2>2. plist' = plist /\ Alone(m)
    BY <1>2, <1>8 DEF Alone, ClientsAlone
  <2>3. NettedOf(m) => NettedOf(m)'
    BY <1>2, <1>8 DEF NettedOf, NettedQueues
  <2> QED BY <1>8, <2>1, <2>2, <2>3 DEF ClientStep
<1>9. CASE /\ reply.type = "OFFER"
           /\ Send(m, toServer[m], RequestFor(reply.yiaddr))
           /\ Become(m, "REQUESTING", IPADDR_ANY, reply.yiaddr)
  <2>1. PICK ip \in Addr : ip = reply.yiaddr
    BY <1>4
  <2> DEFINE msg == RequestFor(ip)
  <2>2. /\ pc[m] = "SELECTING" /\ ip # IPADDR_ANY /\ Send(m, toServer[m], msg)
        /\ Become(m, "REQUESTING", IPADDR_ANY, ip)
    BY <1>5, <1>9, <2>1
  <2>3. msg \in Request /\ msg.ciaddr = IPADDR_ANY /\ msg \in {RequestFor(ip), RenewalOf(ip)}
    BY DatagramFacts
  <2> HIDE DEF msg
  <2>4. Discovering(toServer[m]) /\ ~Answered(toClient[m])
    BY <1>1, <2>2 DEF ShakenWell, Handshake
  <2>5. /\ toServer' \in [Mac -> Seq(Request)]
        /\ toServer'[m] \in Sent(toServer[m], MaxRequests, msg)
        /\ \A n \in Mac \ {m} : toServer'[n] = toServer[n]
        /\ Netted(msg.ciaddr) /\ (\A i \in 1 .. Len(toServer[m]) : Netted(toServer[m][i].ciaddr))
             => \A i \in 1 .. Len(toServer'[m]) : Netted(toServer'[m][i].ciaddr)
    BY <1>1, <1>3, <2>2, <2>3, SendFacts
  <2>6. InTurn(toServer'[m], ip)
    BY <1>3, <2>2, <2>3, <2>4, <2>5, RequestSent
  <2>7. /\ ClientTypes' /\ ClientsAlone(m)
        /\ pc'[m] = "REQUESTING" /\ addr'[m] = IPADDR_ANY /\ asked'[m] = ip
        /\ fresh'[m] = DHCPS_LEASE_TIMER
    BY <1>1, <1>3, <2>2, BecomeFacts
  <2>8. ~Answered(toClient'[m])
    BY <1>2, <2>4
  <2>9. \A i \in 1 .. Len(toClient'[m]) : ~(toClient'[m][i].xid /\ toClient'[m][i].type = "ACK")
    BY <2>8 DEF Answered
  <2>10. DHCPS_LEASE_TIMER >= 1
    BY AddrFacts
  <2>11. ShakenWell(m)'
    BY <2>2, <2>6, <2>7, <2>8, <2>9, <2>10 DEF ShakenWell, Handshake
  <2>12. WordKept(m)'
    BY <2>7, <2>8 DEF WordKept, Word
  <2>13. NettedOf(m) => /\ Netted(addr'[m])
                        /\ \A i \in 1 .. Len(toServer'[m]) : Netted(toServer'[m][i].ciaddr)
    BY <2>3, <2>5, <2>7 DEF NettedOf, NettedQueues, Netted
  <2> QED BY <1>8, <2>5, <2>7, <2>11, <2>12, <2>13
<1>10. CASE /\ reply.type = "ACK"
            /\ Become(m, "BOUND", reply.yiaddr, asked[m])
            /\ UNCHANGED toServer
  <2>1. pc[m] \in {"REQUESTING", "RENEWING"}
    BY <1>5, <1>10
  <2>2. Answered(toClient[m])
    BY <1>2, <1>5, <1>10 DEF Answered
  <2>3. /\ reply.yiaddr = asked[m] /\ asked[m] # IPADDR_ANY /\ fresh[m] >= 1
        /\ told[m] \in {"ACK", "NAK"} /\ AllAsk(toServer[m], asked[m])
    <3>1. reply.yiaddr = asked[m]
      BY <1>1, <1>2, <1>5, <1>10, <2>1 DEF ShakenWell, Handshake
    <3>2. told[m] \in {"ACK", "NAK"} /\ AllAsk(toServer[m], asked[m])
      BY <1>1, <2>1, <2>2 DEF ShakenWell, Handshake
    <3>3. asked[m] # IPADDR_ANY /\ fresh[m] >= 1
      BY <1>1, <1>3, <2>1 DEF ShakenWell, Handshake
    <3> QED BY <3>1, <3>2, <3>3
  <2>4. PICK ip \in Addr : ip = asked[m] /\ ip = reply.yiaddr
    BY <1>3, <2>3
  <2>5. /\ ClientTypes' /\ ClientsAlone(m)
        /\ pc'[m] = "BOUND" /\ addr'[m] = ip /\ asked'[m] = ip /\ ends'[m] = fresh[m]
    <3>1. Become(m, "BOUND", ip, ip) /\ ip # IPADDR_ANY
      BY <1>10, <2>3, <2>4
    <3> QED BY <1>1, <3>1, BecomeFacts
  <2>6. ShakenWell(m)'
    BY <1>2, <1>10, <2>3, <2>4, <2>5 DEF ShakenWell, Handshake
  <2>7. WordKept(m) => WordKept(m)'
    BY <1>2, <2>1, <2>2, <2>4, <2>5 DEF WordKept, Word
  <2>8. NettedOf(m) => /\ Netted(addr'[m])
                       /\ \A i \in 1 .. Len(toServer'[m]) : Netted(toServer'[m][i].ciaddr)
    BY <1>7, <1>10, <2>4, <2>5 DEF NettedOf, NettedQueues
  <2> QED BY <1>3, <1>8, <1>10, <2>5, <2>6, <2>7, <2>8
<1>11. CASE /\ reply.type = "NAK"
            /\ Become(m, "INIT", IPADDR_ANY, IPADDR_ANY)
            /\ UNCHANGED toServer
  <2>1. /\ ClientTypes' /\ ClientsAlone(m)
        /\ pc'[m] = "INIT" /\ addr'[m] = IPADDR_ANY
    BY <1>1, <1>3, <1>11, BecomeFacts
  <2>2. ShakenWell(m)' /\ WordKept(m)'
    BY <2>1 DEF ShakenWell, Handshake, WordKept, Word
  <2>3. NettedOf(m) => /\ Netted(addr'[m])
                       /\ \A i \in 1 .. Len(toServer'[m]) : Netted(toServer'[m][i].ciaddr)
    BY <1>11, <2>1 DEF NettedOf, NettedQueues, Netted
  <2> QED BY <1>3, <1>8, <1>11, <2>1, <2>2, <2>3
<1> QED BY <1>6, <1>9, <1>10, <1>11

\* ClientVanishes: the station's lease lapses or goes, and its queues with it.
LEMMA VanishStep ==
  ASSUME IInv, NEW m \in Mac, ClientVanishes(m)
  PROVE  /\ TypeOK' /\ GoodList(plist)' /\ Alone(m) /\ ShakenWell(m)' /\ WordKept(m)'
         /\ NettedOf(m)'
         /\ \A n, ip, w : n # m /\ Holds(plist, n, ip, w) => Holds(plist', n, ip, w)
         /\ UniqueIp(plist) => UniqueIp(plist')
         /\ \A s : AllInNet(plist, s) => AllInNet(plist', s)
<1> DEFINE i == LeaseOf(plist, m, station[m])
<1>1. TypeOK /\ GoodList(plist) /\ plist \in Seq(Node) /\ Len(plist) \in Nat
  BY NodeFacts DEF IInv, GoodList
<1>2. i # 0 => i \in 1 .. Len(plist) /\ plist[i].mac = m
  BY <1>1, LeaseOfFacts
<1>3. /\ plist' = IF i = 0 THEN plist ELSE Left(plist, i, FALSE)
      /\ station' = [station EXCEPT ![m] = IPADDR_ANY]
      /\ toServer' = [toServer EXCEPT ![m] = <<>>] /\ toClient' = [toClient EXCEPT ![m] = <<>>]
      /\ Become(m, "INIT", IPADDR_ANY, addr[m])
      /\ told' = [told EXCEPT ![m] = "NOTHING"]
  BY DEF ClientVanishes
<1> HIDE DEF i
<1>4. /\ GoodList(plist')
      /\ \A n, ip, w : n # m /\ Holds(plist, n, ip, w) => Holds(plist', n, ip, w)
      /\ UniqueIp(plist) => UniqueIp(plist')
      /\ \A s : AllInNet(plist, s) => AllInNet(plist', s)
  <2>1. CASE i = 0
    BY <1>1, <1>3, <2>1
  <2>2. CASE i # 0
    <3> DEFINE left == Left(plist, i, FALSE)
    <3>1. /\ GoodList(left)
          /\ \A n, ip, w : n # plist[i].mac /\ Holds(plist, n, ip, w) => Holds(left, n, ip, w)
          /\ UniqueIp(plist) => UniqueIp(left)
          /\ \A s : AllInNet(plist, s) => AllInNet(left, s)
      BY <1>1, <1>2, <2>2, LeftFacts
    <3>2. plist' = left /\ plist[i].mac = m
      BY <1>2, <1>3, <2>2
    <3> HIDE DEF left
    <3> QED BY <3>1, <3>2
  <2> QED BY <2>1, <2>2
<1>5. addr[m] \in Addr /\ IPADDR_ANY \in Addr
  BY <1>1, TypeFacts, AnyInAddr
<1>6. /\ ClientTypes' /\ ClientsAlone(m)
      /\ pc'[m] = "INIT" /\ addr'[m] = IPADDR_ANY
  <2>1. PICK wish \in Addr : wish = addr[m]
    BY <1>5
  <2>2. Become(m, "INIT", IPADDR_ANY, wish)
    BY <1>3, <2>1
  <2> QED BY <1>1, <1>5, <2>2, BecomeFacts
<1>7. /\ station' \in [Mac -> Addr]
      /\ toServer' \in [Mac -> Seq(Request)] /\ toClient' \in [Mac -> Seq(Reply)]
      /\ told' \in [Mac -> {"NOTHING", "OFFER", "ACK", "NAK"}]
  BY <1>1, <1>3, <1>5, EmptySeq DEF TypeOK
<1>8. /\ toServer'[m] = <<>> /\ toClient'[m] = <<>>
      /\ \A n \in Mac \ {m} : /\ toServer'[n] = toServer[n] /\ toClient'[n] = toClient[n]
                              /\ told'[n] = told[n] /\ station'[n] = station[n]
  BY <1>1, <1>3 DEF TypeOK
<1>9. TypeOK'
  BY <1>4, <1>6, <1>7 DEF TypeOK, ClientTypes, GoodList
<1>10. ShakenWell(m)' /\ WordKept(m)'
  BY <1>6 DEF ShakenWell, Handshake, WordKept, Word
<1>11. NettedOf(m)'
  <2>1. Len(toServer'[m]) = 0 /\ Len(toClient'[m]) = 0
    BY <1>8, EmptySeq
  <2> QED BY <1>6, <2>1 DEF NettedOf, NettedQueues, Netted
<1> QED BY <1>4, <1>6, <1>8, <1>9, <1>10, <1>11 DEF Alone, ClientsAlone

-----------------------------------------------------------------------------
(* 7. Every step.                                                          *)

\* A step of m that does well by m and leaves the others alone.
LEMMA OneClient ==
  ASSUME NEW m \in Mac, Alone(m)
  PROVE  /\ IInv /\ TypeOK' /\ GoodList(plist)' /\ ShakenWell(m)' => IInv'
         /\ /\ Kept /\ WordKept(m)'
            /\ \A n, ip, w : n # m /\ Holds(plist, n, ip, w) => Holds(plist', n, ip, w)
            => Kept'
         /\ /\ InOneNet /\ NettedOf(m)'
            /\ UniqueIp(plist') /\ AllInNet(plist', ServedRange.start)
            => InOneNet'
<1>1. ASSUME NEW n \in Mac \ {m}, ShakenWell(n) PROVE ShakenWell(n)'
  BY <1>1 DEF Alone, ShakenWell
<1>2. ASSUME NEW n \in Mac \ {m}, WordKept(n),
             \A x, ip, w : x # m /\ Holds(plist, x, ip, w) => Holds(plist', x, ip, w)
      PROVE  WordKept(n)'
  <2>1. /\ pc'[n] = pc[n] /\ addr'[n] = addr[n] /\ asked'[n] = asked[n]
        /\ ends'[n] = ends[n] /\ fresh'[n] = fresh[n] /\ toClient'[n] = toClient[n]
        /\ told'[n] = told[n] /\ station'[n] = station[n]
    BY DEF Alone
  <2>2. \A ip, w : Holds(plist, n, ip, w) => Holds(plist', n, ip, w)
    BY <1>2
  <2> QED BY <1>2, <2>1, <2>2 DEF WordKept, Word
<1>3. ASSUME NEW n \in Mac \ {m}, NettedOf(n) PROVE NettedOf(n)'
  BY <1>3 DEF Alone, NettedOf
<1>4. ASSUME IInv, TypeOK', GoodList(plist)', ShakenWell(m)' PROVE IInv'
  BY <1>1, <1>4 DEF IInv
<1>5. ASSUME Kept, WordKept(m)',
             \A n, ip, w : n # m /\ Holds(plist, n, ip, w) => Holds(plist', n, ip, w)
      PROVE  Kept'
  <2>1. ASSUME NEW n \in Mac \ {m} PROVE WordKept(n)'
    BY <1>2, <1>5, <2>1 DEF Kept
  <2> QED BY <1>5, <2>1 DEF Kept
<1>6. ASSUME InOneNet, NettedOf(m)', UniqueIp(plist'), AllInNet(plist', ServedRange.start)
      PROVE  InOneNet'
  BY <1>3, <1>6 DEF InOneNet
<1> QED BY <1>4, <1>5, <1>6

\* handle_dhcp keeps every invariant.
LEMMA HandleStep ==
  ASSUME IInv, NEW m \in Mac, HandleDhcp(m)
  PROVE  IInv' /\ (Kept => Kept') /\ (RoomInNet /\ InOneNet => InOneNet')
<1>1. PICK u : u = Updated(plist, ServedRange, FALSE, m, Head(toServer[m]).ciaddr)
  OBVIOUS
<1>2. PICK answer : answer = ParseOptions(Head(toServer[m]), u)
  OBVIOUS
<1>3. HandledAs(m, u, answer) /\ TypeOK /\ ShakenWell(m)
  BY <1>1, <1>2, HandleFacts DEF IInv
<1>4. /\ toServer[m] \in Seq(Request) /\ toClient[m] \in Seq(Reply) /\ station[m] \in Addr
      /\ ends[m] \in 0 .. DHCPS_LEASE_TIMER /\ fresh[m] \in 0 .. DHCPS_LEASE_TIMER
  BY <1>3, TypeFacts
<1>5. /\ toServer[m] # <<>> /\ Answers(u, plist, m)
      /\ u.renew \in BOOLEAN /\ u.result \in Addr
      /\ u.renew => u.result = Head(toServer[m]).ciaddr
  BY <1>3 DEF HandledAs, Answers
<1>6. PICK st \in Addr :
        /\ station' = [station EXCEPT ![m] = st]
        /\ answer # "RELEASE" => plist' = u.plist /\ st = IF u.told THEN u.result ELSE station[m]
  BY <1>3 DEF HandledAs
<1>7. PICK q, s :
        /\ \/ /\ answer \in {"OFFER", "ACK", "NAK"} /\ s = answer
              /\ q \in Sent(toClient[m], MaxReplies, CreateMsg(Head(toServer[m]), answer, u.result))
           \/ answer \in {"IDLE", "RELEASE"} /\ q = toClient[m] /\ s = told[m]
        /\ toClient' = [toClient EXCEPT ![m] = q] /\ told' = [told EXCEPT ![m] = s]
  <2>1. toClient = [toClient EXCEPT ![m] = toClient[m]] /\ told = [told EXCEPT ![m] = told[m]]
    BY <1>3 DEF TypeOK
  <2>2. \/ /\ answer \in {"OFFER", "ACK", "NAK"} /\ told' = [told EXCEPT ![m] = answer]
           /\ \E q \in Sent(toClient[m], MaxReplies, CreateMsg(Head(toServer[m]), answer, u.result)) :
                toClient' = [toClient EXCEPT ![m] = q]
        \/ answer \in {"IDLE", "RELEASE"} /\ toClient' = toClient /\ told' = told
    BY <1>3 DEF HandledAs
  <2> QED BY <2>1, <2>2
<1>8. /\ q \in Seq(Reply)
      /\ Handshake(pc[m], addr[m], asked[m], ends[m], fresh[m], Tail(toServer[m]), q, s)
  BY <1>2, <1>3, <1>4, <1>5, <1>7, HandledHandshake DEF ShakenWell
<1>9. Word(plist', m, st, pc[m], addr[m], asked[m], ends[m], fresh[m], q, s)
  BY <1>2, <1>3, <1>4, <1>5, <1>6, <1>7, HandledWord DEF ShakenWell
<1>10. toServer' = [toServer EXCEPT ![m] = Tail(@)] /\ UNCHANGED client
  BY <1>3 DEF HandledAs
<1>11. /\ Tail(toServer[m]) \in Seq(Request)
       /\ \A i \in 1 .. Len(Tail(toServer[m])) :
            i + 1 \in 1 .. Len(toServer[m]) /\ Tail(toServer[m])[i] = toServer[m][i + 1]
       /\ 1 \in 1 .. Len(toServer[m]) /\ Head(toServer[m]) = toServer[m][1]
       /\ Head(toServer[m]) \in Request
  BY <1>4, <1>5, TailFacts
<1>12. /\ toServer'[m] = Tail(toServer[m]) /\ toClient'[m] = q /\ told'[m] = s /\ station'[m] = st
       /\ \A n \in Mac \ {m} : /\ toServer'[n] = toServer[n] /\ toClient'[n] = toClient[n]
                               /\ told'[n] = told[n] /\ station'[n] = station[n]
  BY <1>3, <1>6, <1>7, <1>10 DEF TypeOK
<1>13. Alone(m)
  BY <1>10, <1>12 DEF Alone, client
<1>14. GoodList(plist') /\ \A n, ip, w : n # m /\ Holds(plist, n, ip, w) => Holds(plist', n, ip, w)
  BY <1>3 DEF HandledAs
<1>15. TypeOK'
  <2>1. plist' \in Seq(Node)
    BY <1>14 DEF GoodList
  <2>2. toServer' \in [Mac -> Seq(Request)] /\ toClient' \in [Mac -> Seq(Reply)]
    BY <1>3, <1>7, <1>8, <1>10, <1>11 DEF TypeOK
  <2>3. s \in {"NOTHING", "OFFER", "ACK", "NAK"}
    BY <1>3, <1>7 DEF TypeOK
  <2>4. station' \in [Mac -> Addr] /\ told' \in [Mac -> {"NOTHING", "OFFER", "ACK", "NAK"}]
    BY <1>3, <1>6, <1>7, <2>3 DEF TypeOK
  <2> QED BY <1>3, <1>10, <2>1, <2>2, <2>4 DEF TypeOK, client
<1>16. ShakenWell(m)' /\ WordKept(m)'
  BY <1>8, <1>9, <1>10, <1>12 DEF ShakenWell, WordKept, client
<1>17. ASSUME RoomInNet, InOneNet
       PROVE  /\ UniqueIp(plist') /\ AllInNet(plist', ServedRange.start) /\ NettedOf(m)'
  <2>1. /\ Netted(addr[m]) /\ \A i \in 1 .. Len(toServer[m]) : Netted(toServer[m][i].ciaddr)
        /\ \A i \in 1 .. Len(toClient[m]) : Netted(toClient[m][i].yiaddr)
    BY <1>17 DEF InOneNet, NettedOf, NettedQueues
  <2>2. /\ UniqueIp(plist') /\ AllInNet(plist', ServedRange.start) /\ Netted(u.result)
    BY <1>3, <1>11, <1>17, <2>1 DEF HandledAs, InOneNet
  <2>3. \A i \in 1 .. Len(q) : Netted(q[i].yiaddr)
    <3>1. CASE q = toClient[m]
      BY <2>1, <3>1
    <3>2. CASE /\ answer \in {"OFFER", "ACK", "NAK"}
               /\ q \in Sent(toClient[m], MaxReplies, CreateMsg(Head(toServer[m]), answer, u.result))
      <4> DEFINE reply == CreateMsg(Head(toServer[m]), answer, u.result)
      <4>1. reply \in Reply /\ reply.yiaddr = u.result
        <5>1. Head(toServer[m]).xid \in BOOLEAN
          BY <1>11 DEF Request
        <5> QED BY <1>5, <3>2, <5>1 DEF CreateMsg, Reply
      <4> HIDE DEF reply
      <4>2. \A j \in 1 .. Len(q) : \/ j \in 1 .. Len(toClient[m]) /\ q[j] = toClient[m][j]
                                   \/ j = Len(q) /\ q[j] = reply
        BY <1>4, <3>2, <4>1, SentFacts DEF reply
      <4> QED BY <2>1, <2>2, <4>1, <4>2
    <3> QED BY <1>7, <3>1, <3>2
  <2>4. \A i \in 1 .. Len(Tail(toServer[m])) : Netted(Tail(toServer[m])[i].ciaddr)
    BY <1>11, <2>1
  <2>5. NettedOf(m)'
    BY <1>10, <1>12, <2>1, <2>3, <2>4 DEF NettedOf, NettedQueues, client
  <2> QED BY <2>2, <2>5
<1> QED BY <1>13, <1>14, <1>15, <1>16, <1>17, OneClient

\* A minute ends the leases and the requests with no more than that left.
Expired(m) == \/ pc[m] \in {"BOUND", "RENEWING"} /\ ends[m] = 1
              \/ pc[m] = "REQUESTING" /\ fresh[m] = 1
\* A counter of minutes after one more.
LessOne(n) == IF n = 0 THEN 0 ELSE n - 1

\* dhcps_coarse_tmr keeps every invariant; the server's word where no one is
\* evicted.
LEMMA TickStep ==
  ASSUME IInv, CoarseTmr
  PROVE  IInv' /\ (NoEviction /\ Kept => Kept') /\ (InOneNet => InOneNet')
<1>1. TypeOK /\ GoodList(plist) /\ \A m \in Mac : ShakenWell(m)
  BY DEF IInv
<1>2. /\ plist' = Ticked(plist)
      /\ ends' = [m \in Mac |-> LessOne(ends[m])] /\ fresh' = [m \in Mac |-> LessOne(fresh[m])]
      /\ pc' = [m \in Mac |-> IF Expired(m) THEN "INIT" ELSE pc[m]]
      /\ addr' = [m \in Mac |-> IF Expired(m) THEN IPADDR_ANY ELSE addr[m]]
      /\ UNCHANGED <<station, toServer, toClient, asked, told>>
  BY DEF CoarseTmr, LessOne, Expired
<1>3. /\ GoodList(plist')
      /\ UniqueIp(plist) => UniqueIp(plist')
      /\ \A s : AllInNet(plist, s) => AllInNet(plist', s)
      /\ NoEviction => \A n, a : \A w \in Nat : w >= 1 /\ Holds(plist, n, a, w + 1)
                                               => Holds(plist', n, a, w)
  BY <1>1, <1>2, TickedFacts, ServedFacts DEF NoEviction
<1>4. ASSUME NEW m \in Mac
      PROVE  /\ ends[m] \in Nat /\ fresh[m] \in Nat
             /\ LessOne(ends[m]) \in 0 .. DHCPS_LEASE_TIMER
             /\ LessOne(fresh[m]) \in 0 .. DHCPS_LEASE_TIMER
  BY <1>1, TypeFacts DEF LessOne
<1>5. ASSUME NEW m \in Mac
      PROVE  /\ ends'[m] = LessOne(ends[m]) /\ fresh'[m] = LessOne(fresh[m])
             /\ Expired(m) => pc'[m] = "INIT" /\ addr'[m] = IPADDR_ANY
             /\ ~Expired(m) => pc'[m] = pc[m] /\ addr'[m] = addr[m]
             /\ asked'[m] = asked[m] /\ station'[m] = station[m] /\ told'[m] = told[m]
             /\ toServer'[m] = toServer[m] /\ toClient'[m] = toClient[m]
  BY <1>2
<1>6. TypeOK'
  <2>1. plist' \in Seq(Node)
    BY <1>3 DEF GoodList
  <2>2. pc' \in [Mac -> {"INIT", "SELECTING", "REQUESTING", "BOUND", "RENEWING"}]
    BY <1>1, <1>2 DEF TypeOK
  <2>3. addr' \in [Mac -> Addr]
    BY <1>1, <1>2, AnyInAddr DEF TypeOK
  <2>4. ends' \in [Mac -> 0 .. DHCPS_LEASE_TIMER] /\ fresh' \in [Mac -> 0 .. DHCPS_LEASE_TIMER]
    BY <1>2, <1>4
  <2> QED BY <1>1, <1>2, <2>1, <2>2, <2>3, <2>4 DEF TypeOK
<1>7. ASSUME NEW m \in Mac PROVE ShakenWell(m)'
  <2>1. CASE Expired(m)
    BY <1>5, <2>1 DEF ShakenWell, Handshake
  <2>2. CASE ~Expired(m)
    <3> DEFINE e == ends[m]
               f == fresh[m]
    <3>1. /\ pc[m] \in {"BOUND", "RENEWING"} /\ e >= 1 => LessOne(e) >= 1
          /\ pc[m] = "REQUESTING" /\ f >= 1 => LessOne(f) >= 1
          /\ f >= e => LessOne(f) >= LessOne(e)
      BY <1>4, <2>2 DEF Expired, LessOne
    <3>2. Handshake(pc[m], addr[m], asked[m], LessOne(e), LessOne(f), toServer[m], toClient[m], told[m])
      <4>1. Handshake(pc[m], addr[m], asked[m], e, f, toServer[m], toClient[m], told[m])
        BY <1>1 DEF ShakenWell
      <4> HIDE DEF e, f
      <4> QED BY <3>1, <4>1 DEF Handshake
    <3> QED BY <1>5, <2>2, <3>2 DEF ShakenWell
  <2> QED BY <2>1, <2>2
<1>8. ASSUME NoEviction, NEW m \in Mac, WordKept(m) PROVE WordKept(m)'
  <2>1. CASE Expired(m)
    BY <1>5, <2>1 DEF WordKept, Word
  <2>2. CASE ~Expired(m)
    <3>1. Handshake(pc[m], addr[m], asked[m], ends[m], fresh[m], toServer[m], toClient[m], told[m])
      BY <1>1 DEF ShakenWell
    <3>2. ASSUME NEW n \in Nat, n >= 2, NEW ip, Holds(plist, m, ip, n)
          PROVE  Holds(plist', m, ip, LessOne(n))
      <4>1. LessOne(n) = n - 1 /\ n - 1 \in Nat /\ n - 1 >= 1 /\ (n - 1) + 1 = n
        BY <3>2 DEF LessOne
      <4> QED BY <1>3, <1>8, <3>2, <4>1
    <3>3. ASSUME pc[m] \in {"BOUND", "RENEWING"} PROVE ends[m] >= 2
      BY <1>4, <2>2, <3>1, <3>3 DEF Expired, Handshake
    <3>4. ASSUME pc[m] \in {"REQUESTING", "RENEWING"} PROVE fresh[m] >= 2
      <4>1. CASE pc[m] = "REQUESTING"
        BY <1>4, <2>2, <3>1, <4>1 DEF Expired, Handshake
      <4>2. CASE pc[m] = "RENEWING"
        BY <1>4, <3>1, <3>3, <4>2 DEF Handshake
      <4> QED BY <3>4, <4>1, <4>2
    <3> QED BY <1>4, <1>5, <1>8, <2>2, <3>2, <3>3, <3>4 DEF WordKept, Word
  <2> QED BY <2>1, <2>2
<1>9. ASSUME NEW m \in Mac, NettedOf(m) PROVE NettedOf(m)'
  BY <1>5, <1>9 DEF NettedOf, Netted
<1> QED BY <1>3, <1>6, <1>7, <1>8, <1>9 DEF IInv, Kept, InOneNet

\* Every step keeps every invariant.
LEMMA NextStep ==
  ASSUME IInv, [Next]_vars
  PROVE  /\ IInv' /\ (NoEviction /\ Kept => Kept')
         /\ RoomInNet /\ InOneNet => InOneNet'
<1>1. ASSUME NEW m \in Mac, ClientStep(m)
      PROVE  IInv' /\ (Kept => Kept') /\ (InOneNet => InOneNet')
  <2>1. /\ TypeOK' /\ plist' = plist /\ Alone(m) /\ ShakenWell(m)'
        /\ WordKept(m) => WordKept(m)'
        /\ NettedOf(m) => NettedOf(m)'
    BY <1>1 DEF ClientStep
  <2>2. IInv'
    BY <2>1, OneClient DEF IInv
  <2>3. ASSUME Kept PROVE Kept'
    BY <2>1, <2>3, OneClient DEF Kept
  <2>4. ASSUME InOneNet PROVE InOneNet'
    BY <2>1, <2>4, OneClient DEF InOneNet
  <2> QED BY <2>2, <2>3, <2>4
<1>2. ASSUME NEW m \in Mac, ClientVanishes(m)
      PROVE  IInv' /\ (Kept => Kept') /\ (InOneNet => InOneNet')
  <2>1. /\ TypeOK' /\ GoodList(plist)' /\ Alone(m) /\ ShakenWell(m)' /\ WordKept(m)'
        /\ NettedOf(m)'
        /\ \A n, ip, w : n # m /\ Holds(plist, n, ip, w) => Holds(plist', n, ip, w)
        /\ UniqueIp(plist) => UniqueIp(plist')
        /\ \A s : AllInNet(plist, s) => AllInNet(plist', s)
    BY <1>2, VanishStep
  <2>2. InOneNet => UniqueIp(plist') /\ AllInNet(plist', ServedRange.start)
    BY <2>1 DEF InOneNet
  <2> QED BY <2>1, <2>2, OneClient
<1>3. CASE UNCHANGED vars
  BY <1>3 DEF vars, IInv, TypeOK, ShakenWell, Kept, WordKept, InOneNet, NettedOf
<1>4. CASE CoarseTmr
  BY <1>4, TickStep
<1>5. ASSUME NEW m \in Mac, HandleDhcp(m)
      PROVE  IInv' /\ (Kept => Kept') /\ (RoomInNet /\ InOneNet => InOneNet')
  BY <1>5, HandleStep
<1>6. ASSUME NEW m \in Mac,
             \/ ClientDiscover(m) \/ ClientRejoin(m) \/ ClientRenew(m) \/ ClientRepeat(m)
             \/ ClientRelease(m) \/ ClientDecline(m) \/ ClientIgnores(m) \/ ClientTakes(m)
      PROVE  ClientStep(m)
  BY <1>6, DiscoverStep, RejoinStep, RenewStep, RepeatStep, GoodbyeStep, IgnoreStep, TakeStep
<1> QED BY <1>1, <1>2, <1>3, <1>4, <1>5, <1>6 DEF Next

\* The server starts with nothing leased, nothing under way and no one there.
LEMMA InitFacts ==
  ASSUME Init
  PROVE  IInv /\ Kept /\ InOneNet
<1>1. TypeOK
  <2>1. \A S : <<>> \in Seq(S)
    BY EmptySeq
  <2>2. 0 \in 0 .. DHCPS_LEASE_TIMER
    BY AddrFacts
  <2> QED BY <2>1, <2>2, AnyInAddr DEF Init, TypeOK
<1>2. GoodList(plist) /\ UniqueIp(plist) /\ AllInNet(plist, ServedRange.start)
  BY EmptyFacts DEF Init
<1>3. ASSUME NEW m \in Mac PROVE ShakenWell(m) /\ WordKept(m) /\ NettedOf(m)
  <2>1. /\ pc[m] = "INIT" /\ addr[m] = IPADDR_ANY /\ told[m] = "NOTHING"
        /\ toServer[m] = <<>> /\ toClient[m] = <<>>
    BY DEF Init
  <2>2. Len(toServer[m]) = 0 /\ Len(toClient[m]) = 0
    BY <2>1, EmptySeq
  <2> QED BY <2>1, <2>2 DEF ShakenWell, Handshake, WordKept, Word, NettedOf, NettedQueues, Netted
<1> QED BY <1>1, <1>2, <1>3 DEF IInv, Kept, InOneNet

-----------------------------------------------------------------------------
(* 8. Theorems.                                                            *)

\* The handshake keeps its types, its list in order with one lease per client,
\* and every client's exchange in step with the datagrams under way.
THEOREM IInvAlways == Spec => []IInv
<1>1. Init => IInv
  BY InitFacts
<1>2. IInv /\ [Next]_vars => IInv'
  BY NextStep
<1> QED BY <1>1, <1>2, PTL DEF Spec

\* TypeOK, for every number of stations and bound on the queues.
THEOREM TypeCorrect == Spec => []TypeOK
<1>1. IInv => TypeOK
  BY DEF IInv
<1> QED BY <1>1, IInvAlways, PTL

\* Whatever is lost, repeated or late, a client is only bound to the address it
\* asked for (send_ack answers with what client_update granted).
THEOREM BoundOnlyAsAsked == Spec => []BoundAsAsked
<1>1. ASSUME IInv PROVE BoundAsAsked
  <2>1. ASSUME NEW m \in Mac, addr[m] # IPADDR_ANY PROVE addr[m] = asked[m]
    BY <1>1, <2>1 DEF IInv, TypeOK, ShakenWell, Handshake
  <2> QED BY <2>1 DEF BoundAsAsked
<1> QED BY <1>1, IInvAlways, PTL

\* Where no one is evicted, the server keeps its word.
LEMMA KeptAlways == ASSUME NoEviction PROVE Spec => []Kept
<1>1. Init => Kept
  BY InitFacts
<1>2. IInv /\ Kept /\ [Next]_vars => Kept'
  BY NextStep
<1> QED BY <1>1, <1>2, IInvAlways, PTL DEF Spec

\* While ACK is the server's last answer to a client, the client's address is
\* leased to it and the blob knows it, until the client itself counts it over:
\* wifi_softap_dhcps_client_update leases what send_ack then confirms.
THEOREM WordIsKept == ASSUME NoEviction PROVE Spec => []AckIsKept
<1>1. ASSUME IInv, Kept PROVE AckIsKept
  <2>1. ASSUME NEW m \in Mac, addr[m] # IPADDR_ANY, told[m] = "ACK"
        PROVE  /\ station[m] = addr[m]
               /\ \E i \in DOMAIN plist : /\ plist[i].mac = m /\ plist[i].ip = addr[m]
                                          /\ plist[i].state = "ONLINE"
    <3>1. pc[m] \in {"BOUND", "RENEWING"}
      BY <1>1, <2>1 DEF IInv, TypeOK, ShakenWell, Handshake
    <3>2. station[m] = addr[m] /\ Holds(plist, m, addr[m], ends[m])
      BY <1>1, <2>1, <3>1 DEF Kept, WordKept, Word
    <3>3. DOMAIN plist = 1 .. Len(plist)
      BY <1>1, NodeFacts DEF IInv, GoodList
    <3> QED BY <3>2, <3>3 DEF Holds
  <2> QED BY <2>1 DEF AckIsKept
<1> QED BY <1>1, IInvAlways, KeptAlways, PTL

\* Where the network has an address for every station, two leases never have
\* the same.
LEMMA InOneNetAlways == ASSUME RoomInNet PROVE Spec => []InOneNet
<1>1. Init => InOneNet
  BY InitFacts
<1>2. IInv /\ InOneNet /\ [Next]_vars => InOneNet'
  BY NextStep
<1> QED BY <1>1, <1>2, IInvAlways, PTL DEF Spec

\* Where no one is evicted and the network has room, two clients share an
\* address only while a NAK to one of them is on its way or lost: the "ip is
\* used" test of wifi_softap_dhcps_client_update covers all the rest.
THEOREM SharingTakesANak ==
  ASSUME NoEviction, RoomInNet
  PROVE  Spec => []SharedOnlyAfterNak
<1>1. ASSUME IInv, Kept, InOneNet PROVE SharedOnlyAfterNak
  <2>1. ASSUME NEW m \in Mac, addr[m] # IPADDR_ANY, told[m] # "NAK"
        PROVE  Holds(plist, m, addr[m], ends[m])
    <3>1. pc[m] \in {"BOUND", "RENEWING"} /\ told[m] = "ACK"
      BY <1>1, <2>1 DEF IInv, TypeOK, ShakenWell, Handshake
    <3> QED BY <1>1, <3>1 DEF Kept, WordKept, Word
  <2>2. ASSUME NEW m \in Mac, NEW n \in Mac, m # n, addr[m] = addr[n], addr[m] # IPADDR_ANY,
               "NAK" \notin {told[m], told[n]}
        PROVE  FALSE
    <3>1. Holds(plist, m, addr[m], ends[m]) /\ Holds(plist, n, addr[m], ends[n])
      BY <2>1, <2>2
    <3>2. PICK i \in 1 .. Len(plist) : plist[i].mac = m /\ plist[i].ip = addr[m]
      BY <3>1 DEF Holds
    <3>3. PICK j \in 1 .. Len(plist) : plist[j].mac = n /\ plist[j].ip = addr[m]
      BY <3>1 DEF Holds
    <3>4. i = j
      BY <1>1, <3>2, <3>3 DEF InOneNet, UniqueIp
    <3> QED BY <2>2, <3>2, <3>3, <3>4
  <2> QED BY <2>2 DEF SharedOnlyAfterNak
<1> QED BY <1>1, IInvAlways, KeptAlways, InOneNetAlways, PTL

=============================================================================
