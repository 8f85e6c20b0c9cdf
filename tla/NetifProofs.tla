---------------------------- MODULE NetifProofs -----------------------------
(***************************************************************************)
(* Proofs about the interfaces, for any addresses and lists of NTP servers *)
(* and both orders of netif_add.                                           *)
(*                                                                         *)
(*   1. the translations of error numbers and flags                        *)
(*   2. what lwIP-2's netif_set_addr and its callback do                   *)
(*   3. the inductive invariant                                            *)
(*   4. the theorems                                                       *)
(***************************************************************************)
EXTENDS Netif, TLAPS

-----------------------------------------------------------------------------
(* 1. Error numbers and flags.                                             *)

LEMMA EspInjective == \A m, n \in DOMAIN ESP : ESP[m] = ESP[n] => m = n
  BY SMTT(60) DEF ESP

LEMMA GlueInjective == \A m, n \in DOMAIN GLUE : GLUE[m] = GLUE[n] => m = n
  BY SMTT(60) DEF GLUE

\* No name of lwIP-1.4's enumeration is without its case in any of the four
\* switches, and none is without its number.
LEMMA EspNames ==
  /\ DOMAIN ESP = glue2esp_cases /\ DOMAIN ESP = esp2glue_cases
  /\ DOMAIN ESP \subseteq glue2git_cases /\ glue2git_cases = DOMAIN GLUE
  /\ DOMAIN ESP \subseteq git2glue_cases /\ git2glue_cases = DOMAIN GLUE
BY DEF ESP, GLUE, glue2esp_cases, esp2glue_cases, glue2git_cases,
       git2glue_cases

LEMMA TranslateName ==
  ASSUME NEW from, NEW to, NEW cases, NEW n \in cases,
         \A m \in cases : from[m] = from[n] => m = n
  PROVE  Translate(from, to, cases, from[n]) = to[n]
<1>1. Names(from, cases, from[n]) = {n}
  BY DEF Names
<1> QED BY <1>1 DEF Translate

\* An error the blob knows keeps its name on its way to lwIP-2, and on its way
\* back: although the numbers differ, none of the four switches of lwip-esp.c
\* and lwip-git.c mixes two errors up, and none is missing a case.
THEOREM ErrorsKeepTheirName ==
  \A n \in DOMAIN ESP :
    /\ glue2git_err(esp2glue_err(ESP[n])) = GIT[n]
    /\ glue2esp_err(git2glue_err(GIT[n])) = ESP[n]
<1> SUFFICES ASSUME NEW n \in DOMAIN ESP
             PROVE  /\ glue2git_err(esp2glue_err(ESP[n])) = GIT[n]
                    /\ glue2esp_err(git2glue_err(GIT[n])) = ESP[n]
  OBVIOUS
<1>1. /\ n \in glue2esp_cases /\ n \in esp2glue_cases
      /\ n \in glue2git_cases /\ n \in git2glue_cases /\ GIT = GLUE
  BY EspNames DEF GIT
<1>2. esp2glue_err(ESP[n]) = GLUE[n]
  <2>1. \A m \in esp2glue_cases : ESP[m] = ESP[n] => m = n
    BY <1>1, EspNames, EspInjective
  <2>2. Translate(ESP, GLUE, esp2glue_cases, ESP[n]) = GLUE[n]
    BY ONLY <1>1, <2>1, TranslateName
  <2> QED BY ONLY <2>2 DEF esp2glue_err
<1>3. glue2git_err(GLUE[n]) = GIT[n]
  <2>1. \A m \in glue2git_cases : GLUE[m] = GLUE[n] => m = n
    BY <1>1, EspNames, GlueInjective
  <2>2. Translate(GLUE, GIT, glue2git_cases, GLUE[n]) = GIT[n]
    BY ONLY <1>1, <2>1, TranslateName
  <2> QED BY ONLY <2>2 DEF glue2git_err
<1>4. git2glue_err(GIT[n]) = GLUE[n]
  <2>1. \A m \in git2glue_cases : GIT[m] = GIT[n] => m = n
    BY <1>1, EspNames, GlueInjective
  <2>2. Translate(GIT, GLUE, git2glue_cases, GIT[n]) = GLUE[n]
    BY ONLY <1>1, <2>1, TranslateName
  <2> QED BY ONLY <2>2 DEF git2glue_err
<1>5. glue2esp_err(GLUE[n]) = ESP[n]
  <2>1. \A m \in glue2esp_cases : GLUE[m] = GLUE[n] => m = n
    BY <1>1, EspNames, GlueInjective
  <2>2. Translate(GLUE, ESP, glue2esp_cases, GLUE[n]) = ESP[n]
    BY ONLY <1>1, <2>1, TranslateName
  <2> QED BY ONLY <2>2 DEF glue2esp_err
<1> QED BY <1>1, <1>2, <1>3, <1>4, <1>5

\* A flag that the three enumerations of netif.h, glue.h and lwIP-2's netif.h
\* all have is set after the two converters in a row exactly if it was set
\* before them, under each side's own number: no such flag is without its CF()
\* line in either converter, mixed up with another, or made up.
THEOREM FlagsKeepTheirName ==
  ASSUME NEW flags,
         NEW n \in DOMAIN ESP_FLAG \cap DOMAIN GLUE_FLAG \cap DOMAIN GIT_FLAG
  PROVE  GIT_FLAG[n] \in glue2git_netif_flags(esp2glue_netif_flags(flags))
           <=> ESP_FLAG[n] \in flags
<1>1. n \in esp2glue_flags /\ n \in glue2git_flags
  BY DEF ESP_FLAG, GLUE_FLAG, GIT_FLAG, esp2glue_flags, glue2git_flags
<1>2. \A x, y \in esp2glue_flags : GLUE_FLAG[x] = GLUE_FLAG[y] => x = y
  BY DEF esp2glue_flags, GLUE_FLAG
<1>3. \A x, y \in glue2git_flags : GIT_FLAG[x] = GIT_FLAG[y] => x = y
  BY DEF glue2git_flags, GIT_FLAG
<1>4. GLUE_FLAG[n] \in esp2glue_netif_flags(flags) <=> ESP_FLAG[n] \in flags
  BY <1>1, <1>2 DEF esp2glue_netif_flags, TranslateFlags
<1>5. GIT_FLAG[n] \in glue2git_netif_flags(esp2glue_netif_flags(flags))
        <=> GLUE_FLAG[n] \in esp2glue_netif_flags(flags)
  BY <1>1, <1>3 DEF glue2git_netif_flags, TranslateFlags
<1> QED BY <1>4, <1>5

\* The two answers of lwIP-2's dhcp_start.
LEMMA DhcpStartAnswers ==
  /\ glue2esp_err(git2glue_err(GIT.OK)) = ESP.OK
  /\ glue2esp_err(git2glue_err(GIT.MEM)) # ESP.OK
  /\ GIT.MEM # GIT.OK
<1>1. "OK" \in DOMAIN ESP /\ "MEM" \in DOMAIN ESP
  BY DEF ESP
<1>2. /\ glue2esp_err(git2glue_err(GIT["OK"])) = ESP["OK"]
      /\ glue2esp_err(git2glue_err(GIT["MEM"])) = ESP["MEM"]
  BY <1>1, ErrorsKeepTheirName
<1>3. ESP["MEM"] # ESP["OK"] /\ GIT["MEM"] # GIT["OK"]
  BY DEF ESP, GIT, GLUE
<1> QED BY <1>2, <1>3

-----------------------------------------------------------------------------
(* 2. lwIP-2's netif_set_addr.                                             *)

EspNetif == [ip : Ip, net : Net, up : BOOLEAN, link : BOOLEAN]
GitNetif == [ip : Ip, net : Net, up : BOOLEAN, link : BOOLEAN,
             callback : BOOLEAN]

\* A world whose interfaces are those of the state.
WorldOf(w) ==
  /\ w = [esp |-> w.esp, slot |-> w.slot, git |-> w.git,
          default |-> w.default, told |-> w.told]
  /\ w.esp \in [Idx -> EspNetif]
  /\ w.slot \in [Idx -> Idx \cup {NULL}]
  /\ w.git \in [Idx -> GitNetif]
  /\ w.default \in Idx \cup {NULL}
  /\ w.told \in Ip \cup {NULL}

\* The callback runs: then it has an interface of the blob to write to.
Calls(w, idx, a) == w.git[idx].callback /\ a.ip # w.git[idx].ip

LEMMA AtFacts ==
  ASSUME NEW e \in EspNetif, NEW a \in [ip : Ip, net : Net]
  PROVE  /\ At(e, a) \in EspNetif
         /\ At(e, a).ip = a.ip /\ At(e, a).net = a.net
         /\ AddressOf(At(e, a)) = a
         /\ [At(e, a) EXCEPT !.up = TRUE] \in EspNetif
         /\ [At(e, a) EXCEPT !.up = TRUE].ip = a.ip
         /\ [At(e, a) EXCEPT !.up = TRUE].net = a.net
<1>1. At(e, a) = [e EXCEPT !.ip = a.ip, !.net = a.net]
  BY DEF At
<1>2. At(e, a) \in EspNetif /\ At(e, a).ip = a.ip /\ At(e, a).net = a.net
  BY <1>1 DEF EspNetif
<1> HIDE DEF At
<1>3. /\ [At(e, a) EXCEPT !.up = TRUE] \in EspNetif
      /\ [At(e, a) EXCEPT !.up = TRUE].ip = a.ip
      /\ [At(e, a) EXCEPT !.up = TRUE].net = a.net
  BY <1>2 DEF EspNetif
<1>4. AddressOf(At(e, a)) = a
  BY <1>2 DEF AddressOf
<1> QED BY <1>2, <1>3, <1>4

LEMMA SetAddrFacts ==
  ASSUME NEW w, NEW idx \in Idx, NEW a \in Config, WorldOf(w),
         w.git[idx].callback => w.git[idx].link /\ w.slot[idx] \in Idx
  PROVE  LET r == lwip2_set_addr(w, idx, a)
             b == w.slot[idx]
         IN /\ WorldOf(r)
            /\ r.slot = w.slot
            /\ r.git = [w.git EXCEPT ![idx] = At(w.git[idx], a)]
            /\ ~Calls(w, idx, a) => r.esp = w.esp /\ r.told = w.told
            /\ Calls(w, idx, a) =>
                 /\ r.told = w.esp[b].ip
                 /\ r.esp[b].ip = a.ip
                 /\ a.ip # NoIp => r.esp[b].net = a.net
                 /\ \A i \in Idx \ {b} : r.esp[i] = w.esp[i]
<1> DEFINE r == lwip2_set_addr(w, idx, a)
           b == w.slot[idx]
           old == w.git[idx]
           seen == IF a.ip = NoIp THEN [a EXCEPT !.net = old.net] ELSE a
           new == [w EXCEPT !.git[idx] = At(old, a)]
<1>1. a \in [ip : Ip, net : Net] /\ old \in GitNetif
  BY NetifConstants DEF WorldOf
<1>2. seen \in [ip : Ip, net : Net] /\ seen.ip = a.ip
      /\ (a.ip # NoIp => seen.net = a.net)
  BY <1>1 DEF GitNetif
<1>3. At(old, a) \in GitNetif /\ At(old, a).link = old.link
  BY <1>1 DEF At, GitNetif
<1>4. /\ new = [esp |-> w.esp, slot |-> w.slot,
                git |-> [w.git EXCEPT ![idx] = At(old, a)],
                default |-> w.default, told |-> w.told]
      /\ [w.git EXCEPT ![idx] = At(old, a)] \in [Idx -> GitNetif]
      /\ new.git[idx] = At(old, a)
  BY <1>1, <1>3 DEF WorldOf
<1>5. CASE ~Calls(w, idx, a)
  <2>1. r = new
    BY <1>5 DEF Calls, lwip2_set_addr
  <2> QED BY <1>4, <1>5, <2>1 DEF WorldOf
<1>6. CASE Calls(w, idx, a)
  <2>1. r = netif_sta_status_callback(new, idx, seen)
    BY <1>6 DEF Calls, lwip2_set_addr
  <2>2. b \in Idx /\ new.git[idx].link
    BY <1>3, <1>4, <1>6 DEF Calls
  <2>3. r = [glue2esp_ifup(new, idx, seen) EXCEPT !.default = STATION_IF]
    BY <2>1, <2>2 DEF netif_sta_status_callback
  <2> DEFINE up == [At(w.esp[b], seen) EXCEPT !.up = TRUE]
  <2>4. up \in EspNetif /\ up.ip = a.ip /\ (a.ip # NoIp => up.net = a.net)
    <3>1. w.esp[b] \in EspNetif
      BY <2>2 DEF WorldOf
    <3> HIDE DEF seen
    <3> QED BY <1>2, <3>1, AtFacts
  <2>5. r = [esp |-> [w.esp EXCEPT ![b] = up], slot |-> w.slot,
             git |-> [w.git EXCEPT ![idx] = At(old, a)],
             default |-> STATION_IF, told |-> w.esp[b].ip]
    BY <1>4, <2>2, <2>3 DEF glue2esp_ifup
  <2>6. w.esp[b].ip \in Ip /\ w.esp \in [Idx -> EspNetif]
    BY <2>2 DEF WorldOf, EspNetif
  <2> HIDE DEF up, r, old
  <2>7. WorldOf(r)
    BY <1>4, <2>2, <2>4, <2>5, <2>6 DEF WorldOf, STATION_IF, Idx
  <2>8. /\ r.slot = w.slot /\ r.git = [w.git EXCEPT ![idx] = At(old, a)]
        /\ r.told = w.esp[b].ip /\ r.esp[b] = up
        /\ \A i \in Idx \ {b} : r.esp[i] = w.esp[i]
    BY <2>2, <2>5, <2>6
  <2> QED BY <1>6, <2>4, <2>7, <2>8 DEF r, old
<1> QED BY <1>5, <1>6

\* netif_set_addr, from any world in which the callback can run.
CanCall(w) ==
  \A n \in Idx : w.git[n].callback => w.git[n].link /\ w.slot[n] \in Idx

\* What it makes of w, if g is the interface it takes i for.
SetTo(w, i, a, number, g, r) ==
  /\ WorldOf(r)
  /\ r.slot = w.slot
  /\ g \in Idx
  /\ r.git = [w.git EXCEPT ![g] = At(w.git[g], a)]
  /\ number[i] = i /\ w.slot[i] \in {NULL, i} =>
       /\ g = i
       /\ r.esp[i].ip = a.ip
       /\ a.ip # NoIp => r.esp[i].net = a.net
       /\ \A j \in Idx \ {i} : r.esp[j] = w.esp[j]

LEMMA SetAddrStep ==
  ASSUME NEW w, NEW i \in Idx, NEW a \in Config, NEW number \in [Idx -> Idx],
         NEW getif \in SUBSET Idx, WorldOf(w), CanCall(w)
  PROVE  SetTo(w, i, a, number, esp_guess_netif_idx(i, number, getif),
               SetAddr(w, i, a, number, getif))
<1> DEFINE r == SetAddr(w, i, a, number, getif)
           g == esp_guess_netif_idx(i, number, getif)
           v == [w EXCEPT !.esp[i] = At(w.esp[i], a)]
<1>1. g \in Idx /\ (number[i] = i => g = i)
  BY DEF esp_guess_netif_idx
<1>2. a \in [ip : Ip, net : Net] /\ w.esp[i] \in EspNetif
  BY NetifConstants DEF WorldOf
<1>3. /\ At(w.esp[i], a) \in EspNetif
      /\ At(w.esp[i], a).ip = a.ip /\ At(w.esp[i], a).net = a.net
  BY <1>2, AtFacts
<1>4. /\ v = [esp |-> [w.esp EXCEPT ![i] = At(w.esp[i], a)], slot |-> w.slot,
              git |-> w.git, default |-> w.default, told |-> w.told]
  BY DEF WorldOf
<1>5. WorldOf(v)
  <2> HIDE DEF v
  <2>1. [w.esp EXCEPT ![i] = At(w.esp[i], a)] \in [Idx -> EspNetif]
    BY <1>3 DEF WorldOf
  <2> QED BY <1>4, <2>1 DEF WorldOf
<1>6. r = lwip2_set_addr(v, g, a)
  BY DEF SetAddr
<1>7. /\ v.slot = w.slot /\ v.git = w.git
      /\ v.esp[i].ip = a.ip /\ v.esp[i].net = a.net
      /\ \A j \in Idx \ {i} : v.esp[j] = w.esp[j]
  BY <1>3, <1>4 DEF WorldOf
<1> HIDE DEF v, g, r
<1>8. v.git[g].callback => v.git[g].link /\ v.slot[g] \in Idx
  BY <1>1, <1>7 DEF CanCall
<1>9. /\ WorldOf(r) /\ r.slot = w.slot
      /\ r.git = [w.git EXCEPT ![g] = At(w.git[g], a)]
      /\ ~Calls(v, g, a) => r.esp = v.esp
      /\ Calls(v, g, a) =>
           /\ r.esp[v.slot[g]].ip = a.ip
           /\ a.ip # NoIp => r.esp[v.slot[g]].net = a.net
           /\ \A j \in Idx \ {v.slot[g]} : r.esp[j] = v.esp[j]
  BY <1>1, <1>5, <1>6, <1>7, <1>8, SetAddrFacts
<1>10. ASSUME number[i] = i, w.slot[i] \in {NULL, i}
       PROVE  /\ g = i
              /\ r.esp[i].ip = a.ip
              /\ a.ip # NoIp => r.esp[i].net = a.net
              /\ \A j \in Idx \ {i} : r.esp[j] = w.esp[j]
  <2>1. g = i
    BY <1>1, <1>10
  <2>2. CASE ~Calls(v, g, a)
    BY <1>7, <1>9, <2>1, <2>2
  <2>3. CASE Calls(v, g, a)
    <3>1. v.slot[g] = i
      BY <1>7, <1>8, <1>10, <2>1, <2>3, NetifConstants DEF Calls
    <3> QED BY <1>7, <1>9, <2>1, <2>3, <3>1
  <2> QED BY <2>2, <2>3
<1>11. SetTo(w, i, a, number, g, r)
  BY <1>1, <1>9, <1>10 DEF SetTo
<1> QED BY <1>11 DEF r, g

-----------------------------------------------------------------------------
(* 3. The inductive invariant.                                             *)

\* Numbers are given in order, and the callback is the station's and finds an
\* interface of the blob.
Linked ==
  /\ \A n \in Idx : netif_esp[n] # NULL <=> n < esp_netif_num
  /\ \A n \in Idx : netif_git[n].callback =>
       netif_git[n].link /\ netif_git[n].up /\ netif_esp[n] # NULL

\* If the first two netif_add came in the right order, the numbers are right
\* everywhere, and the client runs on the station only.
Numbered ==
  NumbersRight =>
    /\ \A n \in Idx : netif_esp[n] = n => num[n] = n
    /\ \A i \in added : netif_esp[i] = i
    /\ dhcp \subseteq {STATION_IF}
    /\ netif_esp[STATION_IF] = STATION_IF => netif_git[STATION_IF].callback

IInv ==
  /\ TypeOK
  /\ Linked
  /\ Numbered
  /\ AssertsHold
  /\ IpAgrees
  /\ BlobSetsBoth
  /\ StartedRuns

LEMMA InitIInv == Init => IInv
<1> SUFFICES ASSUME Init PROVE IInv OBVIOUS
<1>1. TypeOK
  BY NetifConstants DEF Init, TypeOK, Idx, STATION_IF, SOFTAP_IF
<1>2. Linked /\ Numbered
  BY NetifConstants
     DEF Init, Linked, Numbered, NumbersRight, Idx, STATION_IF, SOFTAP_IF
<1> QED
  BY <1>1, <1>2
     DEF Init, IInv, AssertsHold, IpAgrees, BlobSetsBoth, StartedRuns

\* The world of a state, and the state of a world.
LEMMA WorldOfState ==
  ASSUME TypeOK, NEW e \in [Idx -> EspNetif],
         NEW slot \in [Idx -> Idx \cup {NULL}]
  PROVE  /\ WorldOf(World(e, slot))
         /\ World(e, slot).esp = e /\ World(e, slot).slot = slot
         /\ World(e, slot).git = netif_git
         /\ World(e, slot).told = NULL
BY DEF World, WorldOf, TypeOK, EspNetif, GitNetif

LEMMA TypeOfState ==
  ASSUME TypeOK, NEW w, WorldOf(w), NEW asked, Becomes(w, asked),
         asked \in {NULL} \cup [by : {"blob", "client"}, of : Idx, to : Config],
         num' \in [Idx -> Idx], esp_netif_num' \in 0..2,
         dhcp' \subseteq Idx,
         ntp_servers' \in (NtpLists \ {<<>>}) \cup {NULL},
         ntp_servers_number' = IF ntp_servers' = NULL THEN 0 ELSE Len(ntp_servers'),
         added' \subseteq Idx, dhcpOk' \subseteq {STATION_IF},
         failed' \subseteq {"eagle_lwip_getif", "re-add"}
  PROVE  TypeOK'
BY DEF TypeOK, WorldOf, Becomes, EspNetif, GitNetif

LEMMA GuessFacts ==
  ASSUME NEW slot, NEW getif
  PROVE  /\ GuessAsserts(slot, getif) \subseteq {"eagle_lwip_getif", "re-add"}
         /\ getif \subseteq Idx /\ (\A n \in Idx : slot[n] \in {NULL, n}) =>
              GuessAsserts(slot, getif) = {}
BY DEF GuessAsserts

LEMMA AskedType ==
  ASSUME NEW who \in {"blob", "client"}, NEW i \in Idx, NEW a \in Config
  PROVE  /\ Asked(who, i, a)
              \in [by : {"blob", "client"}, of : Idx, to : Config]
         /\ Asked(who, i, a).by = who
         /\ Asked(who, i, a).of = i /\ Asked(who, i, a).to = a
BY DEF Asked

LEMMA GitAtFacts ==
  ASSUME NEW g \in GitNetif, NEW a \in Config
  PROVE  /\ At(g, a) \in GitNetif
         /\ At(g, a).ip = a.ip /\ At(g, a).net = a.net
         /\ At(g, a).link = g.link /\ At(g, a).up = g.up
         /\ At(g, a).callback = g.callback
<1>1. a \in [ip : Ip, net : Net]
  BY NetifConstants
<1> QED BY <1>1 DEF At, GitNetif

LEMMA AddressFacts ==
  ASSUME NEW a \in Config, NEW e, e.ip = a.ip, e.net = a.net
  PROVE  AddressOf(e) = a
<1>1. a \in [ip : Ip, net : Net]
  BY NetifConstants
<1> QED BY <1>1 DEF AddressOf

LEMMA CanCallState ==
  ASSUME TypeOK, Linked, NEW w, w.git = netif_git, w.slot = netif_esp
  PROVE  CanCall(w)
BY DEF TypeOK, Linked, CanCall

LEMMA NetifSetAddrStep ==
  ASSUME IInv, NEW i \in Idx, NEW a \in Config, NEW getif \in SUBSET Idx,
         NetifSetAddr(i, a, getif)
  PROVE  IInv'
<1> DEFINE w == World(esp, netif_esp)
           r == SetAddr(w, i, a, num, getif)
           g == esp_guess_netif_idx(i, num, getif)
           asked == Asked("blob", i, a)
<1>1. TypeOK /\ Linked
  BY DEF IInv
<1>2. /\ i \in added /\ Becomes(r, asked)
      /\ failed' = failed \cup GuessAsserts(netif_esp, getif)
      /\ UNCHANGED <<num, esp_netif_num, dhcp, ntp_servers,
                     ntp_servers_number, added, dhcpOk>>
  BY DEF NetifSetAddr, ntp_vars
<1>3. /\ WorldOf(w) /\ w.slot = netif_esp /\ w.git = netif_git /\ w.esp = esp
      /\ num \in [Idx -> Idx]
  BY <1>1, WorldOfState DEF TypeOK, EspNetif
<1>4. CanCall(w)
  BY <1>1, <1>3, CanCallState
<1> HIDE DEF w
<1>5. /\ WorldOf(r) /\ r.slot = netif_esp /\ g \in Idx
      /\ r.git = [netif_git EXCEPT ![g] = At(netif_git[g], a)]
      /\ num[i] = i /\ netif_esp[i] \in {NULL, i} =>
           /\ g = i
           /\ r.esp[i].ip = a.ip
           /\ a.ip # NoIp => r.esp[i].net = a.net
           /\ \A j \in Idx \ {i} : r.esp[j] = esp[j]
  <2>1. SetTo(w, i, a, num, g, r)
    BY <1>3, <1>4, SetAddrStep
  <2> HIDE DEF r, g
  <2> QED BY <1>3, <2>1 DEF SetTo
<1> HIDE DEF r, g
<1>6. /\ esp' = r.esp /\ netif_esp' = netif_esp /\ netif_git' = r.git
      /\ set' = asked
  BY <1>2, <1>5 DEF Becomes
<1>7. /\ asked \in [by : {"blob", "client"}, of : Idx, to : Config]
      /\ asked.of = i /\ asked.to = a
  BY AskedType
<1> HIDE DEF asked
<1>8. TypeOK'
  BY <1>1, <1>2, <1>5, <1>7, GuessFacts, TypeOfState DEF TypeOK
<1>9. /\ netif_git[g] \in GitNetif /\ netif_git \in [Idx -> GitNetif]
      /\ At(netif_git[g], a).ip = a.ip /\ At(netif_git[g], a).net = a.net
      /\ At(netif_git[g], a).link = netif_git[g].link
      /\ At(netif_git[g], a).up = netif_git[g].up
      /\ At(netif_git[g], a).callback = netif_git[g].callback
  BY <1>1, <1>5, GitAtFacts DEF TypeOK, GitNetif
<1>10. \A n \in Idx : /\ netif_git'[n].callback = netif_git[n].callback
                      /\ netif_git'[n].link = netif_git[n].link
                      /\ netif_git'[n].up = netif_git[n].up
  BY <1>5, <1>6, <1>9
<1>11. Linked'
  BY <1>1, <1>2, <1>6, <1>10 DEF Linked
<1>12. NumbersRight' <=> NumbersRight
  BY <1>6 DEF NumbersRight
<1>13. Numbered'
  BY <1>2, <1>6, <1>10, <1>12 DEF IInv, Numbered, Idx, STATION_IF
<1>14. AssertsHold'
  BY <1>2, <1>12, GuessFacts DEF IInv, AssertsHold, NumbersRight
<1>15. ASSUME NumbersRight PROVE num[i] = i /\ netif_esp[i] \in {NULL, i}
  BY <1>2, <1>15 DEF IInv, Numbered, NumbersRight
<1>16. ASSUME NumbersRight
       PROVE  /\ esp'[i].ip = a.ip /\ netif_git'[i].ip = a.ip
              /\ netif_git'[i].net = a.net
              /\ a.ip # NoIp => esp'[i].net = a.net
              /\ \A j \in Idx \ {i} : /\ esp'[j] = esp[j]
                                        /\ netif_git'[j] = netif_git[j]
  BY <1>5, <1>6, <1>9, <1>15, <1>16
<1>17. IpAgrees'
  BY <1>2, <1>12, <1>16 DEF IInv, IpAgrees, TypeOK
<1>18. BlobSetsBoth'
  BY <1>6, <1>7, <1>12, <1>16, AddressFacts DEF BlobSetsBoth
<1>19. StartedRuns'
  BY <1>2, <1>12 DEF IInv, StartedRuns
<1> QED
  BY <1>8, <1>11, <1>13, <1>14, <1>17, <1>18, <1>19 DEF IInv

\* The cleared struct of netif_add.
LEMMA ClearedFacts ==
  ASSUME TypeOK, NEW i \in Idx
  PROVE  /\ Cleared(i) \in [Idx -> EspNetif]
         /\ \A j \in Idx \ {i} : Cleared(i)[j] = esp[j]
BY NetifConstants DEF TypeOK, Cleared, EspNetif

LEMMA NetifAddFailsStep ==
  ASSUME IInv, NEW i \in Idx, NetifAddFails(i)
  PROVE  IInv'
<1> DEFINE w == World(Cleared(i), netif_esp)
<1>1. TypeOK /\ Linked
  BY DEF IInv
<1>2. /\ Becomes(w, NULL) /\ added' = added \ {i}
      /\ UNCHANGED <<num, esp_netif_num, dhcp, ntp_servers,
                     ntp_servers_number, dhcpOk, failed>>
  BY DEF NetifAddFails, ntp_vars
<1>3. /\ Cleared(i) \in [Idx -> EspNetif]
      /\ \A j \in Idx \ {i} : Cleared(i)[j] = esp[j]
      /\ netif_esp \in [Idx -> Idx \cup {NULL}]
  BY <1>1, ClearedFacts DEF TypeOK
<1>4. /\ WorldOf(w) /\ w.slot = netif_esp /\ w.git = netif_git
      /\ w.esp = Cleared(i)
  BY <1>1, <1>3, WorldOfState
<1> HIDE DEF w
<1>5. /\ esp' = Cleared(i) /\ netif_esp' = netif_esp /\ netif_git' = netif_git
      /\ set' = NULL
  BY <1>2, <1>4 DEF Becomes
<1>6. TypeOK'
  BY <1>1, <1>2, <1>4, TypeOfState DEF TypeOK
<1>7. IpAgrees'
  BY <1>2, <1>3, <1>5 DEF IInv, IpAgrees, NumbersRight, TypeOK
<1> QED
  BY <1>2, <1>5, <1>6, <1>7
     DEF IInv, Linked, Numbered, AssertsHold, BlobSetsBoth, StartedRuns,
         NumbersRight

\* A step that leaves the addresses alone and takes no link down.
LEMMA QuietStep ==
  ASSUME IInv, TypeOK', set' = NULL,
         \A i \in Idx : esp'[i].ip = esp[i].ip,
         \A n \in Idx : /\ netif_git'[n].ip = netif_git[n].ip
                        /\ netif_git'[n].callback = netif_git[n].callback
                        /\ netif_git[n].link => netif_git'[n].link
                        /\ netif_git[n].up => netif_git'[n].up,
         UNCHANGED <<num, netif_esp, esp_netif_num, added>>,
         NumbersRight => failed' = failed,
         NumbersRight => dhcp' \subseteq {STATION_IF},
         NumbersRight => dhcpOk' \subseteq dhcp'
  PROVE  IInv'
<1>1. NumbersRight' <=> NumbersRight
  BY DEF NumbersRight
<1>2. Linked'
  BY DEF IInv, Linked
<1>3. Numbered'
  BY <1>1 DEF IInv, Numbered, Idx
<1>4. IpAgrees'
  BY <1>1 DEF IInv, IpAgrees, TypeOK
<1>5. AssertsHold' /\ BlobSetsBoth' /\ StartedRuns'
  BY <1>1 DEF IInv, AssertsHold, BlobSetsBoth, StartedRuns
<1> QED BY <1>2, <1>3, <1>4, <1>5 DEF IInv

LEMMA NetifSetDefaultStep ==
  ASSUME IInv, NEW i \in Idx, NEW getif \in SUBSET Idx, NetifSetDefault(i, getif)
  PROVE  IInv'
<1>1. TypeOK
  BY DEF IInv
<1>2. /\ netif_default' = esp_guess_netif_idx(i, num, getif)
      /\ set' = NULL /\ told' = NULL
      /\ failed' = failed \cup GuessAsserts(netif_esp, getif)
      /\ UNCHANGED <<esp, num, netif_esp, esp_netif_num, netif_git, dhcp,
                     ntp_servers, ntp_servers_number, added, dhcpOk>>
  BY DEF NetifSetDefault, esp_vars, ntp_vars
<1>3. esp_guess_netif_idx(i, num, getif) \in Idx
  BY <1>1 DEF esp_guess_netif_idx, TypeOK
<1>4. TypeOK'
  BY <1>1, <1>2, <1>3, GuessFacts DEF TypeOK
<1>5. NumbersRight => failed' = failed
  BY <1>2, GuessFacts DEF NumbersRight
<1> QED
  BY <1>2, <1>4, <1>5, QuietStep
     DEF IInv, Numbered, StartedRuns

LEMMA UpFacts ==
  ASSUME TypeOK, NEW i \in Idx,
         NEW e, e = [esp EXCEPT ![i].up = TRUE, ![i].link = TRUE]
  PROVE  /\ e \in [Idx -> EspNetif]
         /\ e \in [Idx -> [ip : Ip, net : Net, up : BOOLEAN, link : BOOLEAN]]
         /\ \A j \in Idx : e[j].ip = esp[j].ip
<1> DEFINE f == [esp EXCEPT ![i].up = TRUE]
<1>1. esp \in [Idx -> [ip : Ip, net : Net, up : BOOLEAN, link : BOOLEAN]]
  BY DEF TypeOK
<1>2. f \in [Idx -> [ip : Ip, net : Net, up : BOOLEAN, link : BOOLEAN]]
      /\ \A j \in Idx : f[j].ip = esp[j].ip
  BY <1>1
<1>3. e = [f EXCEPT ![i].link = TRUE]
  OBVIOUS
<1> HIDE DEF f
<1>4. e \in [Idx -> [ip : Ip, net : Net, up : BOOLEAN, link : BOOLEAN]]
      /\ \A j \in Idx : e[j].ip = f[j].ip
  <2>1. f[i] \in [ip : Ip, net : Net, up : BOOLEAN, link : BOOLEAN]
    BY <1>2
  <2> DEFINE x == [f[i] EXCEPT !.link = TRUE]
  <2>2. x \in [ip : Ip, net : Net, up : BOOLEAN, link : BOOLEAN]
        /\ x.ip = f[i].ip
    BY <2>1
  <2>3. e = [f EXCEPT ![i] = x]
    BY <1>3
  <2> HIDE DEF x
  <2> QED BY <1>2, <2>2, <2>3
<1> QED BY <1>2, <1>4 DEF EspNetif

LEMMA DhcpsStartStep == IInv /\ DhcpsStart => IInv'
<1> SUFFICES ASSUME IInv, DhcpsStart PROVE IInv' OBVIOUS
<1> DEFINE i == netif_esp[SOFTAP_IF]
<1>1. TypeOK
  BY DEF IInv
<1>2. /\ i # NULL /\ set' = NULL /\ told' = NULL
      /\ esp' = [esp EXCEPT ![i].up = TRUE, ![i].link = TRUE]
      /\ UNCHANGED <<num, netif_esp, esp_netif_num, netif_git, netif_default,
                     dhcp, ntp_servers, ntp_servers_number, added, dhcpOk,
                     failed>>
  BY DEF DhcpsStart, git_vars, ntp_vars
<1>3. i \in Idx
  BY <1>1, <1>2 DEF TypeOK, Idx
<1> HIDE DEF i
<1>4. esp' \in [Idx -> [ip : Ip, net : Net, up : BOOLEAN, link : BOOLEAN]]
      /\ \A j \in Idx : esp'[j].ip = esp[j].ip
  BY <1>1, <1>2, <1>3, UpFacts
<1>5. TypeOK'
  BY <1>1, <1>2, <1>4 DEF TypeOK
<1> QED
  BY <1>2, <1>4, <1>5, QuietStep DEF IInv, Numbered, StartedRuns

LEMMA StubStep == IInv /\ Stub => IInv'
<1> SUFFICES ASSUME IInv, Stub PROVE IInv' OBVIOUS
<1>1. /\ set' = NULL /\ told' = NULL
      /\ UNCHANGED <<esp, num, netif_esp, esp_netif_num, netif_git,
                     netif_default, dhcp, ntp_servers, ntp_servers_number,
                     added, dhcpOk, failed>>
  BY DEF Stub, esp_vars, git_vars, ntp_vars
<1>2. TypeOK'
  BY <1>1 DEF IInv, TypeOK
<1> QED
  BY <1>1, <1>2, QuietStep DEF IInv, Numbered, StartedRuns

LEMMA DhcpStartStep ==
  ASSUME IInv, NEW err \in {GIT.OK, GIT.MEM}, NEW getif \in SUBSET Idx,
         DhcpStart(STATION_IF, err, getif)
  PROVE  IInv'
<1> DEFINE g == esp_guess_netif_idx(STATION_IF, num, getif)
           answer == glue2esp_err(git2glue_err(err))
<1>1. TypeOK
  BY DEF IInv
<1>2. /\ STATION_IF \in added
      /\ dhcp' = IF err = GIT.OK THEN dhcp \cup {g} ELSE dhcp \ {g}
      /\ dhcpOk' = IF answer = ESP.OK THEN dhcpOk \cup {STATION_IF}
                                     ELSE dhcpOk \ {STATION_IF}
      /\ set' = NULL /\ told' = NULL
      /\ failed' = failed \cup GuessAsserts(netif_esp, getif)
      /\ UNCHANGED <<esp, num, netif_esp, esp_netif_num, netif_git,
                     netif_default, ntp_servers, ntp_servers_number, added>>
  BY DEF DhcpStart, esp_vars, ntp_vars
<1>3. g \in Idx /\ (num[STATION_IF] = STATION_IF => g = STATION_IF)
  BY <1>1 DEF esp_guess_netif_idx, TypeOK, Idx
<1>4. answer = ESP.OK <=> err = GIT.OK
  BY DhcpStartAnswers
<1> HIDE DEF g, answer
<1>5. TypeOK'
  BY <1>1, <1>2, <1>3, GuessFacts DEF TypeOK
<1>6. ASSUME NumbersRight
      PROVE  /\ failed' = failed
             /\ dhcp' \subseteq {STATION_IF} /\ dhcpOk' \subseteq dhcp'
  <2>1. failed' = failed
    BY <1>2, <1>6, GuessFacts DEF NumbersRight
  <2>2. num[STATION_IF] = STATION_IF
    BY <1>2, <1>6 DEF IInv, Numbered, Idx
  <2>3. dhcpOk \subseteq dhcp /\ dhcp \subseteq {STATION_IF}
    BY <1>6 DEF IInv, Numbered, StartedRuns
  <2> QED BY <1>2, <1>3, <1>4, <2>1, <2>2, <2>3
<1> QED
  BY <1>2, <1>5, <1>6, QuietStep

\* lwIP-2's interface is up already: its netif_set_up does not call back.
LEMMA NetifSetUpStep ==
  ASSUME IInv, NEW i \in Idx, NetifSetUp(i)
  PROVE  IInv'
<1> DEFINE e == [esp EXCEPT ![i].up = TRUE, ![i].link = TRUE]
           w == World(e, netif_esp)
           n == num[i]
           old == netif_git[n]
           x == [old EXCEPT !.link = TRUE, !.up = TRUE]
           r == esp2glue_netif_set_up(w, n)
<1>1. TypeOK /\ Linked
  BY DEF IInv
<1>2. /\ Becomes(r, NULL)
      /\ UNCHANGED <<num, esp_netif_num, dhcp, ntp_servers,
                     ntp_servers_number, added, dhcpOk, failed>>
  BY DEF NetifSetUp, ntp_vars
<1>3. /\ e \in [Idx -> EspNetif] /\ \A j \in Idx : e[j].ip = esp[j].ip
      /\ netif_esp \in [Idx -> Idx \cup {NULL}] /\ n \in Idx
  <2>1. e \in [Idx -> EspNetif] /\ \A j \in Idx : e[j].ip = esp[j].ip
    BY <1>1, UpFacts
  <2> HIDE DEF e
  <2>2. netif_esp \in [Idx -> Idx \cup {NULL}] /\ n \in Idx
    BY <1>1 DEF TypeOK
  <2> QED BY <2>1, <2>2
<1> HIDE DEF e, n
<1>4. /\ WorldOf(w) /\ w.slot = netif_esp /\ w.git = netif_git /\ w.esp = e
  BY <1>1, <1>3, WorldOfState
<1>5. old \in GitNetif /\ (old.callback => old.up)
  BY <1>1, <1>3 DEF TypeOK, GitNetif, Linked
<1> HIDE DEF w
<1>6. /\ x \in GitNetif /\ x.ip = old.ip /\ x.callback = old.callback
      /\ x.link = TRUE /\ x.up = TRUE
  BY <1>5 DEF GitNetif
<1>7. r = [esp |-> w.esp, slot |-> w.slot, git |-> [w.git EXCEPT ![n] = x],
           default |-> w.default, told |-> w.told]
  <2>1. r = [w EXCEPT !.git[n].link = TRUE, !.git[n].up = TRUE]
    BY <1>4, <1>5 DEF esp2glue_netif_set_up
  <2>2. w = [esp |-> w.esp, slot |-> w.slot, git |-> w.git,
             default |-> w.default, told |-> w.told]
    BY <1>4 DEF WorldOf
  <2>3. w.git \in [Idx -> GitNetif] /\ w.git[n] = old
    BY <1>4, <1>3 DEF WorldOf
  <2> DEFINE y == [old EXCEPT !.link = TRUE]
             v == [w EXCEPT !.git[n].link = TRUE]
  <2>4. v = [esp |-> w.esp, slot |-> w.slot, git |-> [w.git EXCEPT ![n] = y],
             default |-> w.default, told |-> w.told]
    <3>1. v = [w EXCEPT !.git = [w.git EXCEPT ![n] = [w.git[n] EXCEPT !.link = TRUE]]]
      BY <2>2, <2>3, <1>3
    <3>2. [w.git[n] EXCEPT !.link = TRUE] = y
      BY <2>3
    <3> HIDE DEF v, y
    <3> QED BY <2>2, <3>1, <3>2
  <2>5. r = [v EXCEPT !.git[n].up = TRUE]
    BY <2>1
  <2>6. x = [y EXCEPT !.up = TRUE]
    OBVIOUS
  <2> HIDE DEF v, y, x
  <2>7. r = [v EXCEPT !.git = [w.git EXCEPT ![n] = x]]
    BY <1>3, <2>3, <2>4, <2>5, <2>6
  <2> QED BY <2>4, <2>7
<1> HIDE DEF x, r
<1>8. WorldOf(r)
  <2>1. [w.git EXCEPT ![n] = x] \in [Idx -> GitNetif]
    BY <1>4, <1>6 DEF WorldOf
  <2> QED BY <1>4, <1>7, <2>1 DEF WorldOf
<1>9. /\ esp' = e /\ netif_esp' = netif_esp /\ set' = NULL
      /\ netif_git' = [netif_git EXCEPT ![n] = x]
  BY <1>2, <1>4, <1>7 DEF Becomes
<1>10. TypeOK'
  BY <1>1, <1>2, <1>8, TypeOfState DEF TypeOK
<1>11. \A j \in Idx : /\ netif_git'[j].ip = netif_git[j].ip
                      /\ netif_git'[j].callback = netif_git[j].callback
                      /\ netif_git[j].link => netif_git'[j].link
                      /\ netif_git[j].up => netif_git'[j].up
  BY <1>1, <1>3, <1>6, <1>9 DEF TypeOK
<1> QED
  BY <1>2, <1>3, <1>9, <1>10, <1>11, QuietStep DEF IInv, Numbered, StartedRuns

\* The client sets an address, or removes it.
LEMMA ClientStep ==
  ASSUME IInv, NEW idx \in Idx, NEW a \in Config, idx \in dhcp,
         NEW r, r = lwip2_set_addr(World(esp, netif_esp), idx, a),
         Becomes(r, Asked("client", idx, a)),
         ntp_servers' \in (NtpLists \ {<<>>}) \cup {NULL},
         ntp_servers_number' = IF ntp_servers' = NULL THEN 0 ELSE Len(ntp_servers'),
         UNCHANGED <<num, esp_netif_num, dhcp, added, dhcpOk, failed>>
  PROVE  /\ IInv'
         /\ NumbersRight /\ STATION_IF \in added =>
              ToldOf(netif_git[STATION_IF].ip, netif_git'[STATION_IF].ip)
<1> DEFINE w == World(esp, netif_esp)
           asked == Asked("client", idx, a)
           b == netif_esp[idx]
<1>1. TypeOK /\ Linked
  BY DEF IInv
<1>2. /\ WorldOf(w) /\ w.slot = netif_esp /\ w.git = netif_git /\ w.esp = esp
      /\ w.told = NULL
  BY <1>1, WorldOfState DEF TypeOK, EspNetif
<1>3. w.git[idx].callback => w.git[idx].link /\ w.slot[idx] \in Idx
  BY <1>1, <1>2, CanCallState DEF CanCall
<1>4. r = lwip2_set_addr(w, idx, a)
  OBVIOUS
<1> HIDE DEF w
<1>5. /\ WorldOf(r) /\ r.slot = w.slot
      /\ r.git = [w.git EXCEPT ![idx] = At(w.git[idx], a)]
      /\ ~Calls(w, idx, a) => r.esp = w.esp /\ r.told = w.told
      /\ Calls(w, idx, a) =>
           /\ r.told = w.esp[w.slot[idx]].ip
           /\ r.esp[w.slot[idx]].ip = a.ip
           /\ \A i \in Idx \ {w.slot[idx]} : r.esp[i] = w.esp[i]
  BY <1>2, <1>3, <1>4, SetAddrFacts
<1>6. /\ esp' = r.esp /\ netif_esp' = netif_esp /\ set' = asked
      /\ netif_git' = [netif_git EXCEPT ![idx] = At(netif_git[idx], a)]
      /\ told' = r.told
  BY <1>2, <1>5 DEF Becomes
<1>7. /\ asked \in [by : {"blob", "client"}, of : Idx, to : Config]
      /\ asked.by = "client"
  BY AskedType
<1>8. TypeOK'
  BY <1>1, <1>5, <1>7, TypeOfState DEF TypeOK
<1> HIDE DEF asked
<1>9. /\ netif_git \in [Idx -> GitNetif]
      /\ At(netif_git[idx], a).ip = a.ip
      /\ At(netif_git[idx], a).link = netif_git[idx].link
      /\ At(netif_git[idx], a).up = netif_git[idx].up
      /\ At(netif_git[idx], a).callback = netif_git[idx].callback
  BY <1>1, GitAtFacts DEF TypeOK, GitNetif
<1>10. \A n \in Idx : /\ netif_git'[n].callback = netif_git[n].callback
                      /\ netif_git'[n].link = netif_git[n].link
                      /\ netif_git'[n].up = netif_git[n].up
  BY <1>6, <1>9
<1>11. Linked'
  BY <1>1, <1>6, <1>10 DEF Linked
<1>12. NumbersRight' <=> NumbersRight
  BY <1>6 DEF NumbersRight
<1>13. Numbered'
  BY <1>6, <1>10, <1>12 DEF IInv, Numbered, Idx, STATION_IF
<1>14. AssertsHold' /\ StartedRuns'
  BY <1>12 DEF IInv, AssertsHold, StartedRuns
<1>15. BlobSetsBoth'
  BY <1>6, <1>7 DEF BlobSetsBoth
<1>16. ASSUME NumbersRight PROVE idx = STATION_IF
  BY <1>16 DEF IInv, Numbered
<1>17. netif_git'[idx].ip = a.ip
       /\ \A i \in Idx \ {idx} : netif_git'[i] = netif_git[i]
  BY <1>6, <1>9
<1>18. ASSUME NumbersRight, STATION_IF \in added
       PROVE  /\ ToldOf(netif_git[STATION_IF].ip, netif_git'[STATION_IF].ip)
              /\ esp'[STATION_IF].ip = netif_git'[STATION_IF].ip
              /\ \A i \in Idx \ {STATION_IF} : esp'[i] = esp[i]
  <2>1. idx = STATION_IF /\ netif_esp[STATION_IF] = STATION_IF
        /\ netif_git[STATION_IF].callback
    BY <1>16, <1>18 DEF IInv, Numbered
  <2>2. esp[STATION_IF].ip = netif_git[STATION_IF].ip
    BY <1>18 DEF IInv, IpAgrees
  <2>3. CASE a.ip = netif_git[STATION_IF].ip
    <3>1. ~Calls(w, idx, a)
      BY <1>2, <2>1, <2>3 DEF Calls
    <3>2. esp' = esp /\ told' = NULL
      BY <1>2, <1>5, <1>6, <3>1
    <3> QED BY <1>17, <2>1, <2>2, <2>3, <3>2 DEF ToldOf
  <2>4. CASE a.ip # netif_git[STATION_IF].ip
    <3>1. Calls(w, idx, a)
      BY <1>2, <2>1, <2>4 DEF Calls
    <3>2. /\ told' = esp[STATION_IF].ip /\ esp'[STATION_IF].ip = a.ip
          /\ \A i \in Idx \ {STATION_IF} : esp'[i] = esp[i]
      BY <1>2, <1>5, <1>6, <2>1, <3>1
    <3> QED BY <1>17, <2>1, <2>2, <2>4, <3>2 DEF ToldOf
  <2> QED BY <2>3, <2>4
<1>19. IpAgrees'
  <2> SUFFICES ASSUME NumbersRight, NEW i \in added
               PROVE  esp'[i].ip = netif_git'[i].ip
    BY <1>12 DEF IpAgrees
  <2>1. i \in Idx /\ esp[i].ip = netif_git[i].ip
    BY <1>1 DEF IInv, IpAgrees, TypeOK
  <2>2. CASE i = STATION_IF
    BY <1>18, <2>2
  <2>3. CASE i # STATION_IF
    <3>1. netif_git'[i] = netif_git[i]
      BY <1>16, <1>17, <2>1, <2>3
    <3>2. esp'[i] = esp[i]
      <4>1. CASE Calls(w, idx, a)
        <5>1. netif_esp[idx] = idx /\ idx = STATION_IF
          BY <1>2, <1>3, <1>16, <4>1, NetifConstants DEF NumbersRight, Calls
        <5> QED BY <1>2, <1>5, <1>6, <2>1, <2>3, <4>1, <5>1
      <4>2. CASE ~Calls(w, idx, a)
        BY <1>2, <1>5, <1>6, <4>2
      <4> QED BY <4>1, <4>2
    <3> QED BY <2>1, <3>1, <3>2
  <2> QED BY <2>2, <2>3
<1> QED
  BY <1>8, <1>11, <1>13, <1>14, <1>15, <1>18, <1>19 DEF IInv

LEMMA DhcpAckStep ==
  ASSUME IInv, NEW idx \in Idx, NEW a \in Config, NEW list \in NtpLists,
         NEW memory \in BOOLEAN, DhcpAck(idx, a, list, memory)
  PROVE  /\ IInv'
         /\ NumbersRight /\ STATION_IF \in added =>
              ToldOf(netif_git[STATION_IF].ip, netif_git'[STATION_IF].ip)
<1>1. /\ idx \in dhcp
      /\ dhcp_set_ntp_servers(list, memory)
      /\ Becomes(lwip2_set_addr(World(esp, netif_esp), idx, a),
                 Asked("client", idx, a))
      /\ UNCHANGED <<num, esp_netif_num, dhcp, added, dhcpOk, failed>>
  BY DEF DhcpAck
<1>2. /\ ntp_servers' \in (NtpLists \ {<<>>}) \cup {NULL}
      /\ ntp_servers_number' = IF ntp_servers' = NULL THEN 0
                                                      ELSE Len(ntp_servers')
  BY <1>1, NetifConstants DEF dhcp_set_ntp_servers
<1> QED BY <1>1, <1>2, ClientStep

LEMMA DhcpLostStep ==
  ASSUME IInv, NEW idx \in Idx, DhcpLost(idx)
  PROVE  /\ IInv'
         /\ NumbersRight /\ STATION_IF \in added =>
              ToldOf(netif_git[STATION_IF].ip, netif_git'[STATION_IF].ip)
<1>1. /\ idx \in dhcp
      /\ Becomes(lwip2_set_addr(World(esp, netif_esp), idx, Zero),
                 Asked("client", idx, Zero))
      /\ UNCHANGED <<num, esp_netif_num, dhcp, ntp_servers,
                     ntp_servers_number, added, dhcpOk, failed>>
  BY DEF DhcpLost, ntp_vars
<1>2. /\ ntp_servers' \in (NtpLists \ {<<>>}) \cup {NULL}
      /\ ntp_servers_number' = IF ntp_servers' = NULL THEN 0
                                                      ELSE Len(ntp_servers')
  BY <1>1 DEF IInv, TypeOK
<1>3. Zero \in Config
  BY NetifConstants
<1> QED BY <1>1, <1>2, <1>3, ClientStep

LEMMA LinkUpFacts ==
  ASSUME NEW w, WorldOf(w), NEW i \in Idx
  PROVE  /\ WorldOf(LinkUp(w, i))
         /\ LinkUp(w, i).slot = w.slot /\ LinkUp(w, i).git = w.git
         /\ \A j \in Idx \ {i} : LinkUp(w, i).esp[j] = w.esp[j]
<1> DEFINE x == [w.esp[i] EXCEPT !.link = TRUE]
<1>1. x \in EspNetif
  BY DEF WorldOf, EspNetif
<1>2. LinkUp(w, i) = [esp |-> [w.esp EXCEPT ![i] = x], slot |-> w.slot,
                      git |-> w.git, default |-> w.default, told |-> w.told]
  <2>1. LinkUp(w, i) = [w EXCEPT !.esp = [w.esp EXCEPT ![i] = x]]
    BY DEF LinkUp, WorldOf
  <2> HIDE DEF x
  <2> QED BY <2>1 DEF WorldOf
<1> HIDE DEF x
<1>3. [w.esp EXCEPT ![i] = x] \in [Idx -> EspNetif]
      /\ \A j \in Idx \ {i} : [w.esp EXCEPT ![i] = x][j] = w.esp[j]
  BY <1>1 DEF WorldOf
<1> QED BY <1>2, <1>3 DEF WorldOf

\* The last step of both kinds of netif_add: the address is set in the world w,
\* whose number of i is in number.
AddEnds(w, i, a, number, getif) ==
  /\ Becomes(SetAddr(w, i, a, number, getif), Asked("blob", i, a))
  /\ num' = number
  /\ added' = added \cup {i}
  /\ UNCHANGED <<dhcp, ntp_servers, ntp_servers_number, dhcpOk>>

LEMMA AddEndsFacts ==
  ASSUME IInv, NEW w, WorldOf(w), CanCall(w), NEW i \in Idx, NEW a \in Config,
         NEW number \in [Idx -> Idx], NEW getif \in SUBSET Idx,
         AddEnds(w, i, a, number, getif), esp_netif_num' \in 0..2,
         failed' \subseteq {"eagle_lwip_getif", "re-add"}
  PROVE  /\ TypeOK'
         /\ netif_esp' = w.slot
         /\ \A n \in Idx : /\ netif_git'[n].callback = w.git[n].callback
                           /\ netif_git'[n].link = w.git[n].link
                           /\ netif_git'[n].up = w.git[n].up
         /\ number[i] = i /\ w.slot[i] \in {NULL, i} =>
              /\ BlobSetsBoth'
              /\ esp'[i].ip = netif_git'[i].ip
              /\ \A j \in Idx \ {i} : /\ esp'[j] = w.esp[j]
                                      /\ netif_git'[j] = w.git[j]
<1> DEFINE r == SetAddr(w, i, a, number, getif)
           g == esp_guess_netif_idx(i, number, getif)
           asked == Asked("blob", i, a)
<1>1. /\ Becomes(r, asked) /\ num' = number /\ added' = added \cup {i}
      /\ UNCHANGED <<dhcp, ntp_servers, ntp_servers_number, dhcpOk>>
  BY DEF AddEnds
<1>2. SetTo(w, i, a, number, g, r)
  BY SetAddrStep
<1> HIDE DEF r, g
<1>3. /\ WorldOf(r) /\ r.slot = w.slot /\ g \in Idx
      /\ r.git = [w.git EXCEPT ![g] = At(w.git[g], a)]
      /\ number[i] = i /\ w.slot[i] \in {NULL, i} =>
           /\ g = i
           /\ r.esp[i].ip = a.ip
           /\ a.ip # NoIp => r.esp[i].net = a.net
           /\ \A j \in Idx \ {i} : r.esp[j] = w.esp[j]
  BY <1>2 DEF SetTo
<1>4. /\ esp' = r.esp /\ netif_esp' = w.slot /\ netif_git' = r.git
      /\ set' = asked
  BY <1>1, <1>3 DEF Becomes
<1>5. /\ asked \in [by : {"blob", "client"}, of : Idx, to : Config]
      /\ asked.of = i /\ asked.to = a
  BY AskedType
<1> HIDE DEF asked
<1>6. TypeOK
  BY DEF IInv
<1>7. TypeOK'
  BY <1>1, <1>3, <1>5, <1>6, TypeOfState DEF TypeOK
<1>8. /\ w.git[g] \in GitNetif /\ w.git \in [Idx -> GitNetif]
      /\ At(w.git[g], a).ip = a.ip /\ At(w.git[g], a).net = a.net
      /\ At(w.git[g], a).link = w.git[g].link
      /\ At(w.git[g], a).up = w.git[g].up
      /\ At(w.git[g], a).callback = w.git[g].callback
  BY <1>3, GitAtFacts DEF WorldOf
<1>9. \A n \in Idx : /\ netif_git'[n].callback = w.git[n].callback
                     /\ netif_git'[n].link = w.git[n].link
                     /\ netif_git'[n].up = w.git[n].up
  BY <1>3, <1>4, <1>8
<1>10. ASSUME number[i] = i, w.slot[i] \in {NULL, i}
       PROVE  /\ esp'[i].ip = a.ip /\ netif_git'[i].ip = a.ip
              /\ netif_git'[i].net = a.net
              /\ a.ip # NoIp => esp'[i].net = a.net
              /\ \A j \in Idx \ {i} : /\ esp'[j] = w.esp[j]
                                      /\ netif_git'[j] = w.git[j]
  BY <1>3, <1>4, <1>8, <1>10
<1>11. ASSUME number[i] = i, w.slot[i] \in {NULL, i}
       PROVE  BlobSetsBoth'
  BY <1>4, <1>5, <1>10, <1>11, AddressFacts DEF BlobSetsBoth
<1> QED BY <1>4, <1>7, <1>9, <1>10, <1>11

LEMMA NetifAddStep ==
  ASSUME IInv, NEW i \in Idx, NEW a \in Config, NEW getif \in SUBSET Idx,
         NetifAdd(i, a, getif)
  PROVE  IInv'
<1> DEFINE N == esp_netif_num
           number == [num EXCEPT ![i] = N]
           slot == [netif_esp EXCEPT ![N] = i]
           x == [ip |-> a.ip, net |-> a.net, up |-> TRUE, link |-> TRUE,
                 callback |-> netif_init(N)]
           v == World(Cleared(i), slot)
           u == esp2glue_netif_add(v, N, a)
           w == LinkUp(u, i)
<1>1. TypeOK /\ Linked
  BY DEF IInv
<1>2. /\ N < 2 /\ esp_netif_num' = N + 1
      /\ failed' = failed \cup GuessAsserts(slot, getif)
      /\ AddEnds(w, i, a, number, getif)
  BY DEF NetifAdd, AddEnds, ntp_vars
<1>3. N \in Idx /\ netif_esp[N] = NULL
  <2>1. N \in Idx
    BY <1>1, <1>2 DEF TypeOK, Idx, STATION_IF, SOFTAP_IF
  <2> QED BY <1>1, <2>1 DEF Linked, TypeOK, Idx, STATION_IF, SOFTAP_IF
<1>4. /\ number \in [Idx -> Idx] /\ number[i] = N
      /\ \A j \in Idx \ {i} : number[j] = num[j]
      /\ slot \in [Idx -> Idx \cup {NULL}] /\ slot[N] = i
      /\ \A n \in Idx \ {N} : slot[n] = netif_esp[n]
  BY <1>1, <1>3 DEF TypeOK
<1> HIDE DEF number, slot
<1>5. x \in GitNetif /\ x.link /\ x.up /\ (x.callback <=> N = STATION_IF)
  BY NetifConstants DEF GitNetif, netif_init
<1> HIDE DEF x
<1>6. /\ Cleared(i) \in [Idx -> EspNetif]
      /\ \A j \in Idx \ {i} : Cleared(i)[j] = esp[j]
  BY <1>1, ClearedFacts
<1>7. /\ WorldOf(v) /\ v.slot = slot /\ v.git = netif_git
      /\ v.esp = Cleared(i)
  BY <1>1, <1>4, <1>6, WorldOfState
<1>8. u = [v EXCEPT !.git[N] = x]
  BY DEF esp2glue_netif_add, x
<1> HIDE DEF v, u
<1>9. /\ WorldOf(u) /\ u.slot = slot /\ u.esp = Cleared(i)
      /\ u.git = [netif_git EXCEPT ![N] = x]
  <2>1. u = [esp |-> v.esp, slot |-> v.slot, git |-> [v.git EXCEPT ![N] = x],
             default |-> v.default, told |-> v.told]
    BY <1>7, <1>8 DEF WorldOf
  <2>2. [v.git EXCEPT ![N] = x] \in [Idx -> GitNetif]
    BY <1>3, <1>5, <1>7 DEF WorldOf
  <2> QED BY <1>7, <2>1, <2>2 DEF WorldOf
<1>10. /\ WorldOf(w) /\ w.slot = slot /\ w.git = [netif_git EXCEPT ![N] = x]
       /\ \A j \in Idx \ {i} : w.esp[j] = esp[j]
  BY <1>6, <1>9, LinkUpFacts
<1> HIDE DEF w
<1>11. w.git[N] = x /\ \A n \in Idx \ {N} : w.git[n] = netif_git[n]
  BY <1>1, <1>3, <1>10 DEF TypeOK
<1>12. CanCall(w)
  BY <1>1, <1>4, <1>5, <1>10, <1>11 DEF CanCall, Linked, TypeOK
<1>13. esp_netif_num' \in 0..2
  BY <1>1, <1>2 DEF TypeOK
<1>14. failed' \subseteq {"eagle_lwip_getif", "re-add"}
  BY <1>1, <1>2, GuessFacts DEF TypeOK
<1>15. /\ TypeOK' /\ netif_esp' = slot
       /\ \A n \in Idx : /\ netif_git'[n].callback = w.git[n].callback
                         /\ netif_git'[n].link = w.git[n].link
                         /\ netif_git'[n].up = w.git[n].up
       /\ number[i] = i /\ slot[i] \in {NULL, i} =>
            /\ BlobSetsBoth'
            /\ esp'[i].ip = netif_git'[i].ip
            /\ \A j \in Idx \ {i} : /\ esp'[j] = w.esp[j]
                                    /\ netif_git'[j] = w.git[j]
  <2>1. /\ AddEnds(w, i, a, number, getif) /\ WorldOf(w) /\ CanCall(w)
        /\ number \in [Idx -> Idx] /\ w.slot = slot
    BY <1>2, <1>4, <1>10, <1>12
  <2> HIDE DEF N
  <2> QED BY <1>13, <1>14, <2>1, AddEndsFacts
<1>16. /\ num' = number /\ added' = added \cup {i} /\ dhcp' = dhcp
       /\ dhcpOk' = dhcpOk
  BY <1>2 DEF AddEnds
<1>17. Linked'
  <2>1. \A n \in Idx : slot[n] # NULL <=> n < N + 1
    <3> SUFFICES ASSUME NEW n \in Idx PROVE slot[n] # NULL <=> n < N + 1
      OBVIOUS
    <3>1. CASE n = N
      BY <1>3, <1>4, <3>1, NetifConstants DEF Idx, STATION_IF, SOFTAP_IF
    <3>2. CASE n # N
      BY <1>1, <1>3, <1>4, <3>2
         DEF Linked, TypeOK, Idx, STATION_IF, SOFTAP_IF
    <3> QED BY <3>1, <3>2
  <2>2. \A n \in Idx : w.git[n].callback =>
          w.git[n].link /\ w.git[n].up /\ slot[n] # NULL
    BY <1>1, <1>4, <1>5, <1>11, NetifConstants DEF Linked
  <2> QED BY <1>2, <1>15, <2>1, <2>2 DEF Linked
<1>18. ASSUME NumbersRight'
       PROVE  /\ NumbersRight /\ i = N
              /\ \A n \in Idx : slot[n] \in {NULL, n}
  BY <1>3, <1>4, <1>15, <1>18, NetifConstants DEF NumbersRight
<1>19. Numbered'
  <2> SUFFICES ASSUME NumbersRight'
               PROVE  /\ \A n \in Idx : slot[n] = n => number[n] = n
                      /\ \A j \in added \cup {i} : slot[j] = j
                      /\ dhcp \subseteq {STATION_IF}
                      /\ slot[STATION_IF] = STATION_IF =>
                           netif_git'[STATION_IF].callback
    BY <1>15, <1>16 DEF Numbered
  <2>1. NumbersRight /\ i = N
    BY <1>18
  <2>2. \A n \in Idx : slot[n] = n => number[n] = n
    BY <1>4, <2>1 DEF IInv, Numbered
  <2>3. \A j \in added \cup {i} : slot[j] = j
    BY <1>1, <1>3, <1>4, <2>1, NetifConstants DEF IInv, Numbered, TypeOK
  <2>4. slot[STATION_IF] = STATION_IF => w.git[STATION_IF].callback
    BY <1>4, <1>5, <1>11, <2>1 DEF IInv, Numbered, Idx
  <2>5. netif_git'[STATION_IF].callback = w.git[STATION_IF].callback
    BY <1>15 DEF Idx
  <2> QED BY <2>1, <2>2, <2>3, <2>4, <2>5 DEF IInv, Numbered
<1>20. AssertsHold'
  BY <1>2, <1>18, GuessFacts DEF IInv, AssertsHold
<1>21. ASSUME NumbersRight'
       PROVE  /\ BlobSetsBoth'
              /\ esp'[i].ip = netif_git'[i].ip
              /\ \A j \in Idx \ {i} : /\ esp'[j] = esp[j]
                                      /\ netif_git'[j] = netif_git[j]
  BY <1>4, <1>10, <1>11, <1>15, <1>18, <1>21
<1>22. IpAgrees'
  BY <1>1, <1>16, <1>18, <1>21 DEF IInv, IpAgrees, TypeOK
<1>23. BlobSetsBoth'
  BY <1>21 DEF BlobSetsBoth
<1>24. StartedRuns'
  BY <1>16, <1>18 DEF IInv, StartedRuns
<1> QED
  BY <1>15, <1>17, <1>19, <1>20, <1>22, <1>23, <1>24 DEF IInv

LEMMA NetifReAddStep ==
  ASSUME IInv, NEW i \in Idx, NEW a \in Config, NEW getif \in SUBSET Idx,
         NetifReAdd(i, a, getif)
  PROVE  IInv'
<1> DEFINE n == num[i]
           v == World(Cleared(i), netif_esp)
           u == lwip2_set_addr(v, n, a)
           w == LinkUp(u, i)
           readd == IF \A k \in Idx : netif_esp[k] = i => num[i] = k
                    THEN {} ELSE {"re-add"}
<1>1. TypeOK /\ Linked
  BY DEF IInv
<1>2. /\ esp_netif_num = 2 /\ esp_netif_num' = esp_netif_num
      /\ failed' = failed \cup GuessAsserts(netif_esp, getif) \cup readd
      /\ AddEnds(w, i, a, num, getif)
  BY DEF NetifReAdd, AddEnds, ntp_vars
<1>3. /\ n \in Idx /\ num \in [Idx -> Idx]
      /\ netif_esp \in [Idx -> Idx \cup {NULL}]
      /\ netif_git \in [Idx -> GitNetif]
  BY <1>1 DEF TypeOK, GitNetif
<1>4. /\ Cleared(i) \in [Idx -> EspNetif]
      /\ \A j \in Idx \ {i} : Cleared(i)[j] = esp[j]
  BY <1>1, ClearedFacts
<1>5. /\ WorldOf(v) /\ v.slot = netif_esp /\ v.git = netif_git
      /\ v.esp = Cleared(i)
  BY <1>1, <1>3, <1>4, WorldOfState
<1>6. CanCall(v)
  BY <1>1, <1>5, CanCallState
<1> HIDE DEF v, n
<1>7. /\ WorldOf(u) /\ u.slot = netif_esp
      /\ u.git = [netif_git EXCEPT ![n] = At(netif_git[n], a)]
      /\ ~Calls(v, n, a) => u.esp = v.esp
      /\ Calls(v, n, a) =>
           \A j \in Idx \ {netif_esp[n]} : u.esp[j] = v.esp[j]
  <2>1. v.git[n].callback => v.git[n].link /\ v.slot[n] \in Idx
    BY <1>3, <1>6 DEF CanCall
  <2>2. /\ WorldOf(u) /\ u.slot = v.slot
        /\ u.git = [v.git EXCEPT ![n] = At(v.git[n], a)]
        /\ ~Calls(v, n, a) => u.esp = v.esp
        /\ Calls(v, n, a) =>
             \A j \in Idx \ {v.slot[n]} : u.esp[j] = v.esp[j]
    <3>1. u = lwip2_set_addr(v, n, a) /\ n \in Idx /\ WorldOf(v)
      BY <1>3, <1>5
    <3> HIDE DEF u
    <3> QED BY <2>1, <3>1, SetAddrFacts
  <2> QED BY <1>5, <2>2
<1> HIDE DEF u
<1>8. /\ WorldOf(w) /\ w.slot = netif_esp
      /\ w.git = [netif_git EXCEPT ![n] = At(netif_git[n], a)]
      /\ \A j \in Idx \ {i} : w.esp[j] = u.esp[j]
  BY <1>7, LinkUpFacts
<1> HIDE DEF w
<1>9. \A k \in Idx : /\ w.git[k].callback = netif_git[k].callback
                     /\ w.git[k].link = netif_git[k].link
                     /\ w.git[k].up = netif_git[k].up
  <2>1. /\ At(netif_git[n], a).link = netif_git[n].link
        /\ At(netif_git[n], a).up = netif_git[n].up
        /\ At(netif_git[n], a).callback = netif_git[n].callback
    BY <1>3, GitAtFacts
  <2> QED BY <1>3, <1>8, <2>1
<1>10. CanCall(w)
  BY <1>5, <1>6, <1>8, <1>9 DEF CanCall
<1>11. esp_netif_num' \in 0..2
  BY <1>2
<1>12. failed' \subseteq {"eagle_lwip_getif", "re-add"}
  BY <1>1, <1>2, GuessFacts DEF TypeOK
<1> HIDE DEF readd
<1>13. /\ TypeOK' /\ netif_esp' = netif_esp
       /\ \A k \in Idx : /\ netif_git'[k].callback = w.git[k].callback
                         /\ netif_git'[k].link = w.git[k].link
                         /\ netif_git'[k].up = w.git[k].up
       /\ num[i] = i /\ netif_esp[i] \in {NULL, i} =>
            /\ BlobSetsBoth'
            /\ esp'[i].ip = netif_git'[i].ip
            /\ \A j \in Idx \ {i} : /\ esp'[j] = w.esp[j]
                                    /\ netif_git'[j] = w.git[j]
  <2>1. /\ AddEnds(w, i, a, num, getif) /\ WorldOf(w) /\ CanCall(w)
        /\ num \in [Idx -> Idx] /\ w.slot = netif_esp
    BY <1>2, <1>3, <1>8, <1>10
  <2> QED BY <1>11, <1>12, <2>1, AddEndsFacts
<1>14. /\ num' = num /\ added' = added \cup {i} /\ dhcp' = dhcp
       /\ dhcpOk' = dhcpOk
  BY <1>2 DEF AddEnds
<1>15. NumbersRight' <=> NumbersRight
  BY <1>13 DEF NumbersRight
<1>16. Linked'
  BY <1>1, <1>2, <1>9, <1>13 DEF Linked
<1>17. ASSUME NumbersRight
       PROVE  /\ \A k \in Idx : netif_esp[k] = k /\ num[k] = k
              /\ n = i
  <2>1. \A k \in Idx : netif_esp[k] # NULL
    BY <1>1, <1>2 DEF Linked, Idx, STATION_IF, SOFTAP_IF
  <2>2. \A k \in Idx : netif_esp[k] = k
    BY <1>17, <2>1 DEF NumbersRight
  <2> QED BY <1>17, <2>2 DEF IInv, Numbered, n
<1>18. Numbered'
  <2> SUFFICES ASSUME NumbersRight
               PROVE  /\ \A k \in Idx : netif_esp[k] = k => num[k] = k
                      /\ \A j \in added \cup {i} : netif_esp[j] = j
                      /\ dhcp \subseteq {STATION_IF}
                      /\ netif_esp[STATION_IF] = STATION_IF =>
                           netif_git'[STATION_IF].callback
    BY <1>13, <1>14, <1>15 DEF Numbered
  <2>1. netif_git'[STATION_IF].callback = netif_git[STATION_IF].callback
    BY <1>9, <1>13 DEF Idx
  <2> QED BY <1>17, <2>1 DEF IInv, Numbered
<1>19. AssertsHold'
  <2> SUFFICES ASSUME NumbersRight PROVE failed' = {}
    BY <1>15 DEF AssertsHold
  <2>1. GuessAsserts(netif_esp, getif) = {}
    BY <1>17, GuessFacts
  <2>2. readd = {}
    BY <1>17 DEF readd
  <2> QED BY <1>2, <2>1, <2>2 DEF IInv, AssertsHold
<1>20. ASSUME NumbersRight
       PROVE  /\ BlobSetsBoth'
              /\ esp'[i].ip = netif_git'[i].ip
              /\ \A j \in Idx \ {i} : /\ esp'[j] = esp[j]
                                      /\ netif_git'[j] = netif_git[j]
  <2>1. \A j \in Idx \ {i} : w.esp[j] = esp[j]
    <3>1. netif_esp[n] = i
      BY <1>17, <1>20
    <3> QED BY <1>4, <1>5, <1>7, <1>8, <3>1
  <2>2. \A j \in Idx \ {i} : w.git[j] = netif_git[j]
    BY <1>3, <1>8, <1>17, <1>20
  <2> QED BY <1>13, <1>17, <1>20, <2>1, <2>2
<1>21. IpAgrees'
  BY <1>1, <1>14, <1>15, <1>20 DEF IInv, IpAgrees, TypeOK
<1>22. BlobSetsBoth'
  BY <1>15, <1>20 DEF BlobSetsBoth
<1>23. StartedRuns'
  BY <1>14, <1>15 DEF IInv, StartedRuns
<1> QED
  BY <1>13, <1>16, <1>18, <1>19, <1>21, <1>22, <1>23 DEF IInv

LEMMA NextIInv == IInv /\ [Next]_vars => IInv'
<1> SUFFICES ASSUME IInv, [Next]_vars PROVE IInv' OBVIOUS
<1>1. ASSUME NEW i \in Idx, NEW a \in Config, NEW getif \in SUBSET Idx,
             \/ NetifAdd(i, a, getif)
             \/ NetifReAdd(i, a, getif)
             \/ NetifSetAddr(i, a, getif)
      PROVE  IInv'
  BY <1>1, NetifAddStep, NetifReAddStep, NetifSetAddrStep
<1>2. ASSUME NEW i \in Idx, NetifAddFails(i) \/ NetifSetUp(i)
      PROVE  IInv'
  BY <1>2, NetifAddFailsStep, NetifSetUpStep
<1>3. ASSUME NEW i \in Idx, NEW getif \in SUBSET Idx, NetifSetDefault(i, getif)
      PROVE  IInv'
  BY <1>3, NetifSetDefaultStep
<1>4. ASSUME NEW getif \in SUBSET Idx, NEW err \in {GIT.OK, GIT.MEM},
             DhcpStart(STATION_IF, err, getif)
      PROVE  IInv'
  BY <1>4, DhcpStartStep
<1>5. DhcpsStart \/ Stub => IInv'
  BY DhcpsStartStep, StubStep
<1>6. ASSUME NEW idx \in Idx, NEW a \in Config, NEW list \in NtpLists,
             NEW memory \in BOOLEAN, DhcpAck(idx, a, list, memory)
      PROVE  IInv'
  BY <1>6, DhcpAckStep
<1>7. ASSUME NEW idx \in Idx, DhcpLost(idx)
      PROVE  IInv'
  BY <1>7, DhcpLostStep
<1>8. CASE UNCHANGED vars
  <2>1. /\ UNCHANGED <<esp, num, netif_esp, esp_netif_num, netif_git,
                       netif_default, dhcp, ntp_servers, ntp_servers_number>>
        /\ UNCHANGED <<added, dhcpOk, set, told, failed>>
    BY <1>8 DEF vars, esp_vars, git_vars, ntp_vars
  <2> QED
    BY <2>1 DEF IInv, TypeOK, Linked, Numbered, NumbersRight, AssertsHold,
                IpAgrees, BlobSetsBoth, StartedRuns
<1> QED
  BY <1>1, <1>2, <1>3, <1>4, <1>5, <1>6, <1>7, <1>8 DEF Next

-----------------------------------------------------------------------------
(* 4. The theorems.                                                        *)

\* The inductive invariant, in any order of calls of the blob and of events of
\* lwIP-2's DHCP client.
THEOREM IInvAlways == Spec => []IInv
<1> QED BY InitIInv, NextIInv, PTL DEF Spec

\* Type correctness: a number is never used out of its bounds, and the number
\* of NTP servers is that of the list (dhcp_set_ntp_servers).
THEOREM NetifTypeCorrect == Spec => []TypeOK
<1>1. IInv => TypeOK
  BY DEF IInv
<1> QED BY <1>1, IInvAlways, PTL

\* If the blob's first two netif_add come in the right order, none of the
\* uasserts of esp_guess_netif_idx and netif_add fails, whatever follows.
THEOREM NumbersHold == Spec => []AssertsHold
<1>1. IInv => AssertsHold
  BY DEF IInv
<1> QED BY <1>1, IInvAlways, PTL

\* The blob and lwIP-2 agree on the addresses, whichever of netif_add,
\* netif_set_addr, glue2esp_ifup and the DHCP client wrote them last.
THEOREM AddressesAgree == Spec => []IpAgrees
<1>1. IInv => IpAgrees
  BY DEF IInv
<1> QED BY <1>1, IInvAlways, PTL

\* After netif_add and netif_set_addr lwIP-2 has the address, netmask and
\* gateway the call was given and the blob's copy has the address, although
\* lwIP-2's callback writes to that copy in between; unless the call removed
\* the address, the blob's copy has the netmask and the gateway too.
THEOREM SetAddrReachesBoth == Spec => []BlobSetsBoth
<1>1. IInv => BlobSetsBoth
  BY DEF IInv
<1> QED BY <1>1, IInvAlways, PTL

\* A dhcp_start that the blob saw succeed has left a client running on the
\* station.
THEOREM StartedMeansRunning == Spec => []StartedRuns
<1>1. IInv => StartedRuns
  BY DEF IInv
<1> QED BY <1>1, IInvAlways, PTL

\* Only the client's two actions set an address on its behalf.
LEMMA ClientActs ==
  ASSUME IInv, [Next]_vars, NumbersRight, STATION_IF \in added, ClientSets,
         ~UNCHANGED vars
  PROVE  ToldOf(netif_git[STATION_IF].ip, netif_git'[STATION_IF].ip)
<1>1. ASSUME NEW i \in Idx, NEW a \in Config, NEW getif \in SUBSET Idx,
             \/ NetifAdd(i, a, getif)
             \/ NetifReAdd(i, a, getif)
             \/ NetifSetAddr(i, a, getif)
      PROVE  FALSE
  <2>1. set' = Asked("blob", i, a)
    BY <1>1 DEF NetifAdd, NetifReAdd, NetifSetAddr, Becomes
  <2> QED BY <2>1 DEF ClientSets, Asked
<1>2. ASSUME NEW i \in Idx, NetifAddFails(i) \/ NetifSetUp(i)
      PROVE  FALSE
  BY <1>2 DEF NetifAddFails, NetifSetUp, Becomes, ClientSets
<1>3. ASSUME NEW i \in Idx, NEW getif \in SUBSET Idx, NetifSetDefault(i, getif)
      PROVE  FALSE
  BY <1>3 DEF NetifSetDefault, ClientSets
<1>4. ASSUME NEW getif \in SUBSET Idx, NEW err \in {GIT.OK, GIT.MEM},
             DhcpStart(STATION_IF, err, getif)
      PROVE  FALSE
  BY <1>4 DEF DhcpStart, ClientSets
<1>5. ~(DhcpsStart \/ Stub)
  BY DEF DhcpsStart, Stub, ClientSets
<1>6. ASSUME NEW idx \in Idx, NEW a \in Config, NEW list \in NtpLists,
             NEW memory \in BOOLEAN, DhcpAck(idx, a, list, memory)
      PROVE  ToldOf(netif_git[STATION_IF].ip, netif_git'[STATION_IF].ip)
  BY <1>6, DhcpAckStep
<1>7. ASSUME NEW idx \in Idx, DhcpLost(idx)
      PROVE  ToldOf(netif_git[STATION_IF].ip, netif_git'[STATION_IF].ip)
  BY <1>7, DhcpLostStep
<1> QED
  BY <1>1, <1>2, <1>3, <1>4, <1>5, <1>6, <1>7 DEF Next

\* Every change the DHCP client makes to the station's address reaches the
\* blob in the same step, with the address the station had before
\* (netif_sta_status_callback, glue2esp_ifup); and nothing else does.
THEOREM BlobIsTold == Spec => ClientTellsBlob
<1>1. IInv /\ [Next]_vars =>
        [NumbersRight /\ STATION_IF \in added /\ ClientSets =>
           ToldOf(netif_git[STATION_IF].ip, netif_git'[STATION_IF].ip)]_vars
  BY ClientActs
<1> QED BY <1>1, IInvAlways, PTL DEF Spec, ClientTellsBlob

=============================================================================
