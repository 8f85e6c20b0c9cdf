# Verification of esp8266-phy in TLA+

The program under `src/` lets the ESP8266's closed radio and system libraries
("the blobs", written against an old lwIP, "esp") run over a current lwIP
("git", lwIP-2). Two lwIP-like halves that must not see each other's headers
are linked through a narrow glue interface (`lwip-glue/glue.h`):

    application, lwIP-2
        ^  |
        |  v              lwip-git/lwip-git.c      esp2glue_*  (git half)
    ----------------------------------------------- glue.h
        ^  |              lwip-esp/lwip-esp.c      glue2esp_*  (esp half)
        |  v
    the blobs: radio, drivers, SDK          + lwip-git/dhcpserver.c

This directory holds models of its components, configurations that check them
with TLC, and proofs that TLAPS checks. `PROJECT.json` lists components, runs,
findings, hazards and theorems, and maps each definition to its lines.

## 1. Inventory

**TX path** (`new_linkoutput`, `esp2glue_pbuf_freed`; `glue2esp_linkoutput`,
`pbuf_wrapper_get`, `pbuf_wrapper_release`, the pooled branch of `pbuf_free`).
State: lwIP-2's reference counts; a pool of pbuf wrappers, chained, carved out
of blocks of eight that are never given back; the frames the blob holds.
lwIP-2 calls linkoutput in its task; the blob calls `pbuf_free` when a frame
has left, possibly in an interrupt. Hard: that interrupt at every point of
linkoutput; the lock around the pool, in which `os_malloc` is called; failure
after the reference was taken; reuse of wrappers. Correct means: exact
counts, no use after free, one owner for each wrapper, nothing lost.

**RX path** (`pbuf_alloc`, `ethernet_input`, `pbuf_free`;
`esp2glue_alloc_for_recv`, `esp2glue_ethernet_input`). State: the radio's
receive buffers, the blob's pbufs around them, lwIP-2's copies, one heap for
all. Hard: the buffer goes back to the radio, which refills it at once, before
lwIP-2 looks at the frame; the heap is full. Correct means: every buffer
returns, frames are unaltered and in order.

**DHCP server, lease table** (`wifi_softap_dhcps_client_update`,
`..._client_leave`, `dhcps_coarse_tmr`, `kill_oldest_dhcps_pool`,
`node_insert_to_list`, `node_remove_from_list`). State: a list of leases sorted
by the address as it lies in memory. Hard: the search for a free address
relies on what the list looks like after any sequence of requests, moves,
expiries, evictions and restarts. Correct means: one lease for each client, no
address for two, none refused while one is free.

**DHCP server, range** (`wifi_softap_set_dhcps_lease`,
`wifi_softap_init_dhcps_lease`, `dhcps_start`, the lease time). State: the
range, who made it up, the access point's address. Hard: the range is checked
when it is set, and used later. Correct means: what a started server uses fits
the access point.

**DHCP server, messages** (`handle_dhcp`, `parse_msg`, `parse_options`,
`send_offer`, `send_ack`, `send_nak`). State: `client_address`, `renew`, both
global, but set anew in every call. Hard: datagrams lost, repeated, late, or
of several clients. Correct means: what an ACK grants stays leased, and a client
uses nothing else.

**Network interfaces** (`netif_add`, `netif_set_addr`, `netif_set_default`,
`netif_set_up/down`, `netif_init_*`, the status callback, `glue2esp_ifup`, the
DHCP client's start). State: each interface exists in the blob and in lwIP-2,
linked by a number; lwIP-2's DHCP client. Hard: either side changes an address
and must tell the other, one of them in the middle of the other's call; the
number is given by the order of `netif_add`, which may fail and be repeated.
Correct means: the copies agree after every call, nothing of an older
configuration stays, the blob learns what the client did.

**NTP servers** (`dhcp_set_ntp_servers`) and **conversions** (error numbers and
interface flags, each in three numberings). Correct means: the number fits the
list, and an error or flag arrives under the name it left with.

**Debug output** (`doprint.c`, only with UDEBUG). State: a ring buffer that
holds what is printed before the application opens the serial line, and a count
of what was overwritten. Hard: full, wrapped, drained and freed in turns.
Correct means: every character is shown, kept or counted, in order.

**Small parts**: display helpers (`uprint.c`); stubs that only report;
`lwipopts.h` and `arch/`; build files; symbol lists.

## 2. Plan

| order | module | of | state |
|---|---|---|---|
| 1 | `TxLoan`, `TxPath`, `TxPathProofs` | TX path, its promise, proofs | done |
| 2 | `LeaseTable`, `DhcpLease`, `LeaseTableProofs`, `DhcpLeaseProofs` | lease table, its operations and its uses, proofs | done |
| 3 | `LeaseRange`, `LeaseRangeProofs` | range and lease time | done |
| 4 | `RxLossyQueue`, `RxPath`, `RxPathProofs` | RX path, its promise, proofs | done |
| 5 | `DhcpServer`, `DhcpServerProofs` | the handshake over a lossy network, on `LeaseTable`, proofs | done |
| 6 | `ErrCodes`, `Netif`, `NetifProofs` | conversions; both copies of an interface, the DHCP client, NTP servers | done |
| 7 | `LossyLog`, `DoPrint`, `DoPrintProofs` | debug ring buffer, its promise, proofs | done |

Every safety property of a passing run is a theorem as well. What is left is to
weaken a hypothesis: `WordIsKept` assumes that no lease is evicted, where it
would be enough that those of the clients it speaks of are not, as `DhcpLease`
says it with `struck`.

`TxPath` and `RxPath` compose nothing at run time but the pool and the heap:
each has its own half of `pbuf_free`. `LeaseTable` has the operations on the
list of leases, as operators; `DhcpLease` calls them in any order and looks at
the list, `DhcpServer` calls them from the handshake and looks at the clients.
`LeaseRange` supplies what both take as constants, the ranges a server may be
started on. `Netif` takes its answers from `ErrCodes`.

## 3. The modules

### TxLoan and TxPath

`TxLoan` is what the transmit side promises: lwIP-2 lends a buffer, the blob
returns it, and memory is alive exactly while somebody uses it. `TxPath` is
the code. A variable of the code keeps its name (`pbuf_wrapper_head`,
`ref2save`); `ref` is lwIP-2's `pbuf.ref`, `wref` the count in the wrapper;
`pc`, `txp` and `txw` are the task inside linkoutput; `isr` is an interrupting
`pbuf_free` between its two halves; `phy` is what the blob holds. `held` counts
lwIP-2's own pointers, which no variable of the code records.

A step is what interrupts cannot divide. `NewLinkoutput` takes the reference;
`WrapperPop`, or `WrapperMalloc` and `WrapperCarve`, or `WrapperNone`, is
`pbuf_wrapper_get`; `FillWrapper` fills it; `PhyAccepts` or `PhyRejects` is the
blob's linkoutput and, when it refuses, the release; `LinkoutputError` drops
the reference in lwip-git.c, `LinkoutputReturn` is the way back of a frame that
was accepted: the blob may have freed it before. `TxDone` and `TxDoneRelease` are the two calls of
the pooled branch of `pbuf_free`. `os_malloc` is called inside the lock: with
`MallocUnlocks` it lets interrupts in, between `WrapperMalloc` and
`WrapperCarve`. `ref` and `wref` are one byte and wrap.

An increment or decrement of a count is one step: lwIP-2's own are made under
SYS_ARCH_PROTECT (`lwipopts.h:215` sets SYS_LIGHTWEIGHT_PROT), which
`arch/cc.h:49` defines as `os_intr_lock`. The frame's bytes, the interface and
the `pbuf` fields nobody decides on are left out.

### RxLossyQueue and RxPath

`RxLossyQueue` promises order and integrity, not delivery. In `RxPath`,
`RxInterrupt` fills a free buffer whenever it likes; `bytes[e]` is the number
of the frame now in buffer e. `BlobInput` is the blob's `pbuf_alloc` and call
of `netif->input`; `AllocForRecv`, `ReleaseBlobBuffer` and `GlueEthernetInput`
are `ethernet_input` up to the copy, the release and the delivery.
`BlobAlloc`, `PbufRef` and `BlobFree` are frames the blob makes itself; they
compete for the heap and go through the same `pbuf_free`, whose BAD CASE is the
second disjunct of `PbufFree`. `BlobRefs` lets the blob take second references:
a pbuf that has had one is never freed, so the heap of the run shrinks. That is
not what the comment of `pbuf_free` says, and `rx_refs` finds it
(`RefCountIsUsers`); `HeapIsSound` is what holds all the same: the heap is not
overdrawn, and no pbuf is freed while the blob has a pointer to it. Nothing
under `src/` calls `pbuf_ref`; the lists in `doc/` show that the blob links it.

### LeaseTable and DhcpLease

`LeaseTable` is what each operation makes of the list. `Updated` is
`wifi_softap_dhcps_client_update`, split by what the client says of its
address: `GiveAddress` when it says nothing, `KeepAddress` when it names one.
`Left` is `wifi_softap_dhcps_client_leave` once the lease is found, `Ticked` is
`dhcps_coarse_tmr` with `Aged` (expiry) and `KillOldest`. `Aged` names the k-th
entry of the new list by its place in the old one (`Nth`), which is what the
proofs talk about. An address is its
number in host order; the code compares network-order words, so lists are
sorted by `Raw`.

`DhcpLease` has one action per function: `ClientUpdate`, `ClientLeave`,
`CoarseTmr`, `DhcpsStart`, `DhcpsStop`. `station` is what the blob was last
told. `uses` is what each client believes: the address it was last granted,
until it is refused, leaves, or its lease runs out. A client whose lease
`KillOldest` evicts is told nothing (`dhcpserver.c:926`): it uses its address
until its own time is over, which is at any later tick (`gone` in `CoarseTmr`).
`struck` are the clients the eviction took a lease from or marked as gone, as
long as they use the address; `placed` says that since the last stop every lease
lay in the network of the range in force and not below its start. No operation
reads `uses`, `struck` or `placed`; they are there for the properties. A client that is told another address stops using
the old one at once; what can happen meanwhile is `DhcpServer`'s subject.

The code's unchecked `os_zalloc` is taken to succeed. The expiry tick is
called by the SDK, and counts whole minutes: a lease granted just before a tick
is up to one minute short.

### DhcpServer

`HandleDhcp` takes one datagram: it updates the table, decides the answer
(`ParseOptions`), removes the lease on a RELEASE (`ParseMsg`) and sends
(`CreateMsg`, `SendAnswer`). The clients are not part of the repository; they
follow RFC 2131: DISCOVER, take an OFFER, REQUEST, repeat what is not answered,
renew, release, decline, leave without a word, and come back with a remembered
address. A datagram is lost when it is sent, or for want of room in its queue.
Datagrams of one client stay in order; of two clients they do not.

A transaction number is only ever compared with the client's current one, so
`xid` is a Boolean; a client that starts a new exchange drops the answers under
way, which it would ignore. The server and the clients count the same minutes,
a client from the first time it sent the request its lease came from, as RFC
2131 tells it to. Clients ignore an OFFER of 0.0.0.0, which the server sends
when it has no address. Left out: INFORM, a wrong cookie or a damaged packet,
and what the other options say.

### LeaseRange

An address is a network and a host number. `Fits` is the check made twice
(`wifi_softap_set_dhcps_lease`, `wifi_softap_init_dhcps_lease`), the unsigned
difference included; `DefaultLease` is the range the server makes up. `DhcpsStart` takes the address
it is started with (`ip`), which becomes the access point's, as
`wifi_set_ip_info` is taken to succeed; without memory for a pcb (`obtained`
FALSE) the server counts as started all the same. `status` is the SDK's view;
`serving` says whether the pcb is bound, and they differ because the blob's `dhcps_stop` is a stub: a server that was stopped goes on
answering, from a range the access point's address may since have moved into.
No property speaks of it; what a stopped server should do is nowhere said. The other `dhcps_stop`, which
`DhcpLease` models, is renamed by `arch/cc.h` and has no caller here.

### ErrCodes and Netif

`ErrCodes` has the three numberings of errors and of flags, and the functions
that translate them. The blob's numbers are those of lwIP-1.4, glue.h's and
lwIP-2's are lwIP-2's. Each of the four switches is the set of its case labels
(`glue2esp_cases`, ...) and each of the two flag converters the set of its
`CF()` lines (`esp2glue_flags`, `glue2git_flags`); a constant without a case
comes out as the `default`, a flag without a line is dropped.

`Netif` has `esp`, the blob's struct for each of its two interfaces, and
`netif_git`, lwIP-2's, by number. `num`, `netif_esp` and `esp_netif_num` are
the link. A step is one call of the blob, or one event of lwIP-2's DHCP client
(`DhcpAck`, `DhcpLost`), callbacks included, because all of it runs in one task
to its end. Since a call of one side changes both, a step computes a *world*
(`World`), the new values of both copies, the default route and what the blob
was told; `Becomes` makes it the next state. `lwip2_set_addr` is lwIP-2's
`netif_set_addr`, with the detail the glue depends on: the callback runs when
the address has changed, after the netmask and the gateway were set, but before
they were when the address is removed.

`NetifAdd` is `netif_add` while fewer than two interfaces are there,
`NetifReAdd` afterwards, `NetifAddFails` when the blob's init fails, which
leaves the blob's struct cleared and lwIP-2's as it was. `getif` is what
`eagle_lwip_getif` answers, any subset at any time; `esp_guess_netif_idx` and
its uasserts depend on it, and `failed` collects the uasserts that printed.
`Stub` stands for the functions that do nothing: after them the DHCP client
still runs, and may still set an address.

`added` are the interfaces the blob has, by the answer of its last `netif_add`;
`set` and `told` are what the last step was asked to set and what it told the
blob. Nothing reads them; they are there for the properties. Left out: the
blob's own `netif_default`, which `netif_set_default` sets and nothing in
`src/` reads; the copy
`wifi_set_ip_info` keeps in the SDK, hardware address, MTU, hostname, IGMP.

### LossyLog and DoPrint

`LossyLog` promises a queue that keeps the last characters and counts the
others. `DoPrint` is `doprint_minus`, one character a step: `DoprintAllowed` or
`DoprintBuffered` chooses the putc, `Flush` and `FlushEnd` print and free the
ring buffer, `nl_putc` and `bufputc` take the characters of the message. A ring
buffer just allocated holds anything. The refinement maps the indices to the
sequence between them (`Kept`). Left out: the line numbers that `nl_putc`
inserts, the words around what is kept, a message lost because there is no
memory for a ring buffer (the code does not count it), the unchecked
`os_malloc` of the format, and calls from interrupts. The code has no protection
against those, and with UDEBUG they occur: the blob's `pbuf_free`, which
`TxPath` runs in an interrupt, prints at `lwip-esp.c:839` and `856`. The
properties of `DoPrint` are of output that no interrupt adds to.

## 4. The runs

| run | cfg | shows | bounds |
|---|---|---|---|
| `tx_safety` | `TxPath.cfg` | all safety properties of `TxPath`; linkoutput returns, released buffers are freed, and `TxLoan` is implemented with its fairness | 2 buffers, 3 blocks of 1 wrapper: a buffer lent twice, the pool empty, refilled and full; 2 pointers of lwIP-2, to send a buffer it still keeps |
| `rx` | `RxPath.cfg` | buffers conserved and returned, the heap sound, frames in order | 2 buffers, 4 frames (each buffer is refilled), heap of 3, filled by lwIP-2 or by leaks |
| `dhcp_lease` | `DhcpLease.cfg` | sorted, one lease for each client, no needless refusal, whatever happens; no shared address while leases are in place, and no lie to the blob, evicted clients aside | 3 clients for 3 addresses or 1; 2 networks; the range loses its first and its last address and gets them back; the table evicts at 3; a lease of 2 ticks |
| `dhcp_server` | `DhcpServer.cfg` | the server keeps what it acknowledged, clients are bound to what they asked for, and share an address only after an unheard NAK | 2 clients, 2 addresses; 1 datagram under way each way for each client, so a repeated request can meet the answer to the first; leases of 2 ticks, so a renewal makes a difference |
| `lease_range` | `LeaseRange.cfg` | a started server's range is sound and stable | 2 networks of 6 hosts, ranges of up to 2, all of them |
| `netif` | `Netif.cfg` | the copies of an interface agree, a call of the blob reaches both, the blob is told; numbers and answers are right | no address or one of 2, each with one of 2 netmasks; every answer of `eagle_lwip_getif`; lists of 0 to 2 NTP servers; the two interfaces are added in order |
| `doprint` | `DoPrint.cfg` | every character is shown, kept or counted, the count is told, `LossyLog` is implemented | 4 slots, 8 characters of 2 kinds: the ring buffer overflows, wraps twice, is freed and allocated again |

Expected violations, each a finding:

| run | what happens |
|---|---|
| `dhcp_below` | a client asks for a remembered address below the range and gets it; it sorts first, so the search for a free address ends at once, at `start_ip`, although that is leased |
| `dhcp_crowded` | `kill_oldest_dhcps_pool` removes one node and marks another, the last, as gone; its address is given to whoever asks for it |
| `dhcp_repeat` | a client repeats its REQUEST and takes the ACK to the first; by the time the second arrives a lower address is free, the table moves the client there and answers NAK, which nobody waits for; the client's address goes to the next client |
| `rx_refs` | the blob takes a second reference to a pbuf and drops it: the count stays at two, where the comment of `pbuf_free` says that it decrements it, and the pbuf is never freed |
| `netif_removed` | the blob removes the station's address: the callback runs before lwIP-2 sets the new netmask and gateway, and writes the old ones over those the blob has just been given |

With `PBUF_WRAPPER_BLOCK` = 1 a block brings one wrapper, so the links inside a
new block do not show in `tx_safety`; the theorems hold for every block size,
and for both values of `MallocUnlocks`, of which the run has only FALSE.

The blob of `netif` adds the station first (`AnyOrder` is FALSE: in any order
there are too many states). The properties assume `NumbersRight`, which the
theorems carry for either value. In the other order the uasserts do fail: if the
access point is added first it gets number 0, and then `eagle_lwip_getif` of the
station is not the interface with the station's number (`lwip-esp.c:318`). With
`AnyOrder` TRUE, `failed = {}` is violated in a few steps.

`BlobSetsBoth` leaves the blob's netmask and gateway out when the call removes
the address: that is `netif_removed`.

The lease table breaks its promise of different addresses in two ways only. One
is a lease out of its place: a client asked for an address below the range
(`dhcp_below`), or the start of the range moved up past a lease given before,
with the same effect on the search. After either, `placed` is FALSE, and
`NoSharedAddress` says nothing until the server stops. The other is the eviction
(`dhcp_crowded`): it leaves two clients with addresses the table no longer
stands for, those in `struck`. `NoSharedAddress` is that there is no third way: resizing,
moves, takeovers and expiries do no harm, and evictions none to other clients.
One thing about resizing no property speaks of: a client with a lease may be
given an address beyond the end of the new range, where a new client is refused
(the second disjunct of `GiveAddress`).

**Fairness.** `TxPath`: a called function goes on (WF of linkoutput's steps and
of the interrupt's second half), and the blob sends or drops each frame in the
end (SF of `TxDone`, because linkoutput's lock disables it again and again).
`RxPath`: the blob's task runs, and its own frames leave. Neither the radio,
nor lwIP-2, nor the heap is assumed to do anything.

**Deadlock** is checked except in `rx`, where the run ends when `MaxFrames` are
received and the heap is full of leaked pbufs.

## 5. The proofs

`TxPathProofs` (all constants; assumptions: `ConstantsAssumption`, finiteness
and distinctness, and `RefFits`, that users of one buffer stay below the byte's
256). The invariant is `IInv == TypeOK /\ PoolInv /\ CountInv`. `PoolInv` says
where each wrapper is: the chain has no duplicates, chain, blob, task and
interrupt are disjoint, and all of them are carved. `CountInv` adds to
`RefCountExact` what makes it inductive: a wrapper at the blob carries a
buffer, and the wrapper in linkoutput's hands carries the one just referenced.
Without the first, `TxDone` could decrement nothing; without the second,
`PhyAccepts` would move a reference from one buffer to another. Lemmas about
chains (`PushFacts`, `PopFacts`, `ChainFacts`) and counters carry the steps.
Proved: types, `RefCountExact`, `PayloadAlive`, `OneOwner`, `FreedWithOneRef`;
`NoWrapperLost` and `GrowsWhenAllLent` where `os_malloc` stays locked; and that
`TxPath` implements `TxLoan` (`ImplementsLoan`), which needs that memory is allocated exactly while
it is held or lent (`LiveExactAlways`).

`LeaseRangeProofs` (assumption: `RangeConstants`, that half an octet and the
longest range fit into one octet, true of 0x80, 0x64 and 0x100). The invariant
`StartedInv` says a started server's range either passed `Fits` or is exactly
`DefaultLease`; from the latter follows that a restart recomputes the same
range, which the action property needs. Proved: types, soundness, stability.

`DoPrintProofs` (assumption: `DoPrintConstants`, at least two slots; MaxChars
is arbitrary). The invariant adds to the types and to `Accounted` that while
the ring buffer is printed the count told is the count lost. The lemmas say what
moving one index does to the sequence between the two, by cases of whether it
wraps. Proved: types, `Accounted`, `LossTold`, and that `DoPrint` implements
`LossyLog`.

`NetifProofs` (assumption: `NetifConstants`, what is an address and what is
not; both orders of `netif_add`). `Linked` says that numbers are given in
order and that the callback, once installed, finds the interface of the blob it
will write to; `Numbered` says what the right order of the first two calls
implies later: number, slot and interface are the same, the client runs on the
station, the station has the callback. Without `Numbered`, a guess by
`esp_guess_netif_idx` could set the other interface's address. Proved: all
properties of the run `netif`, `ClientTellsBlob` included, with
`SetAddrReachesBoth` for `BlobSetsBoth`; that every error of the blob's
enumeration keeps its name through two switches and back through the other two
(`ErrorsKeepTheirName`), which fails if one of them lacks its case; and that
every flag which all three enumerations have comes through both converters
(`FlagsKeepTheirName`), which fails if one lacks its `CF()` line.

`RxPathProofs` (assumption: `RxConstants`, finiteness, a heap that has a place
for every pbuf it has room for, and that NULL is nothing else). Beside the
types the invariant has four parts. `HeapInv` counts the heap by who holds
each pbuf. `TaskInv` says what the task has in its hands at each point of
`ethernet_input`: a copy only between making it and giving it to lwIP-2, and a
received pbuf that is live and has no other user until it is freed. `UserInv`
says that a pbuf with one reference has exactly one user; without it
`HeapIsSound` is not inductive, as a free could leave a user behind.
`BufferInv` says that free, queued and current (`InHand`) buffers are different
ones and together all of them, and that a live pbuf with a buffer is the
current one; without it `BuffersConserved` is not inductive, as a freed pbuf
might share its buffer with another. Proved: types, `BuffersConserved`,
`HeapIsSound` (`HeapNeverBreaks`); `RefCountIsUsers` where the blob takes no
second reference (`CountsWithoutRefs`, under `~BlobRefs`: with them `rx_refs`
violates it); and that `RxPath` implements the safety of `RxLossyQueue`
(`ImplementsQueue`).

`LeaseTableProofs` has no state machine: its lemmas say what each operator makes
of any list, and the two modules after it use them. `GoodList` is a list with
one lease for each client, sorted by `Raw`; every operation keeps it. `Holds`
says a client has an address for some minutes more; every operation for one
client keeps what the others hold (`UpdatedFacts`, `LeftFacts`), and a tick
takes one minute from it (`TickedFacts`), the eviction all from two clients
(`KillOldestFacts`). `UniqueIp` (no address twice) is kept
by what names an address of the network, and by the search for a free one only
if the list has no address below its start: then the walk cannot miss one
(`CandidateFree`), and it comes to an end within the network
(`CandidateInAddr`). `NthFacts` is about the places that expiry leaves.

`DhcpLeaseProofs` (assumption: `InputConstants`; its last part says that
counting addresses up from the start of a range, one for each station, does not
wrap). `IInv` is the types and `GoodList`; it needs nothing else, evictions,
moved ranges and remembered addresses of any kind included, and gives
`OneLeasePerClient` and `Sorted`. `InUse` (a client that was not struck has its
address leased to it for a minute at least) needs that an eviction touches two
leases and no other (`NotStruckFacts`); it gives `UsesWhatIsLeased`. `Apart` says
that while leases were in place no address is twice; it is inductive because the
search for a free address cannot miss a lease when none is below the start. The
two together give `NoSharedAddress`, for any ranges, addresses and evictions.
`RefusedOnlyWhenFull` needs `RangesInOneNet`: no range reaches into another
network.

`DhcpServerProofs` (assumption: `ServerConstants`, as above for the one range;
any number of stations, any bounds on the queues). What makes `BoundAsAsked`
inductive is `Handshake`, one formula for each client: datagrams of its present
exchange follow those of older ones; while it is selecting, the former are
DISCOVERs, and no answer of the exchange is an ACK or NAK; while it is
requesting, they are DISCOVERs and then requests for the one address; as soon
as an ACK or NAK is under way, and as long as the client is bound, everything
on its way to the server asks for that address. `WordKept` adds, per client,
that what the last ACK confirmed is leased for at least as long as the client
will count; only eviction breaks it, so `AckIsKept` is proved under
`NoEviction`. `InOneNet` carries `UniqueIp` through the messages: each address
in a datagram, an answer or a client's hands is of the network. With `RoomInNet`,
that the network has an address for every station from the start of the range
on, `SharedOnlyAfterNak` follows: if neither client was last told NAK both hold
a lease of one address, in a list where no address is twice. Nothing is assumed
of clients but that they follow the protocol; in particular remembered
addresses may be any they had. The finding `dhcp_repeat` is the case that
`SharedOnlyAfterNak` leaves.

Only model-checked: every liveness property (`LinkoutputReturns`,
`ReleasedIsFreed`, `BufferReturns`, and the fairness of `LoanSpec` and
`QueueSpec`, whose safety is proved). Liveness is outside what the provers can
do.

## 6. What is not modelled

See the components in `PROJECT.json`. Build files, documentation and
preprocessor configuration (`lwipopts.h`, half of the repository's lines, and
`arch/`) have no behaviour; `uprint.c` and the formatting in `doprint.c` are
output; stubs change nothing. A failing `os_zalloc` in the DHCP server and the
`os_malloc` of a message's format are not checked by the code, and not modelled
as failing. The getters of the DHCP server return what the models keep.
`uassert` prints and
goes on (`uhalt` is empty), so a failed assertion is not the end of a run.
