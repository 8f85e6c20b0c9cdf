------------------------------ MODULE ErrCodes ------------------------------
(* The error numbers of the blob's lwIP-1.4 (ESP), of glue.h (GLUE) and of *)
(* lwIP-2 (GIT), the flags of an interface in each, and the functions of   *)
(* lwip-esp.c and lwip-git.c that translate them.                          *)
EXTENDS Integers

\* lwIP-1.4's err.h has no ALREADY; IF and USE are words of TLA+.
ESP == [
  OK |-> 0, MEM |-> -1, BUF |-> -2, TIMEOUT |-> -3, RTE |-> -4,
  INPROGRESS |-> -5, VAL |-> -6, WOULDBLOCK |-> -7, ABRT |-> -8, RST |-> -9,
  CLSD |-> -10, CONN |-> -11, ARG |-> -12, USE_ |-> -13, IF_ |-> -14,
  ISCONN |-> -15]

GLUE == [
  OK |-> 0, MEM |-> -1, BUF |-> -2, TIMEOUT |-> -3, RTE |-> -4,
  INPROGRESS |-> -5, VAL |-> -6, WOULDBLOCK |-> -7, USE_ |-> -8,
  ALREADY |-> -9, ISCONN |-> -10, CONN |-> -11, IF_ |-> -12, ABRT |-> -13,
  RST |-> -14, CLSD |-> -15, ARG |-> -16]

\* The glue took the numbers of lwIP-2's err.h.
GIT == GLUE

\* switch (err) with these cases: each answers the constant of its own name in
\* the other enumeration, default answers ABRT.
Names(from, cases, e) == {n \in cases : from[n] = e}

Translate(from, to, cases, e) ==
  IF Names(from, cases, e) = {}
  THEN to.ABRT
  ELSE to[CHOOSE n \in Names(from, cases, e) : TRUE]

\* The cases of each switch.  glue2esp_err also has one for ALREADY, "old does
\* not have": it answers what default does.
glue2esp_cases == {
  "OK", "MEM", "BUF", "TIMEOUT", "RTE", "INPROGRESS", "VAL", "WOULDBLOCK",
  "ABRT", "RST", "CLSD", "CONN", "ARG", "USE_", "IF_", "ISCONN"}

esp2glue_cases == {
  "OK", "MEM", "BUF", "TIMEOUT", "RTE", "INPROGRESS", "VAL", "WOULDBLOCK",
  "ABRT", "RST", "CLSD", "CONN", "ARG", "USE_", "IF_", "ISCONN"}

glue2git_cases == {
  "OK", "MEM", "BUF", "TIMEOUT", "RTE", "INPROGRESS", "VAL", "WOULDBLOCK",
  "USE_", "ALREADY", "ISCONN", "CONN", "IF_", "ABRT", "RST", "CLSD", "ARG"}

git2glue_cases == {
  "OK", "MEM", "BUF", "TIMEOUT", "RTE", "INPROGRESS", "VAL", "WOULDBLOCK",
  "USE_", "ALREADY", "ISCONN", "CONN", "IF_", "ABRT", "RST", "CLSD", "ARG"}

\* (A mistake the runs must find: the case of MEM falls into that of OK.)
git2glue_err_NoMem(e) ==
  IF e = GIT.MEM THEN GLUE.OK ELSE Translate(GIT, GLUE, git2glue_cases, e)

glue2esp_err(e) == Translate(GLUE, ESP, glue2esp_cases, e)
esp2glue_err(e) == Translate(ESP, GLUE, esp2glue_cases, e)
glue2git_err(e) == Translate(GLUE, GIT, glue2git_cases, e)
git2glue_err(e) == Translate(GIT, GLUE, git2glue_cases, e)

-----------------------------------------------------------------------------
(* Flags: a set of bits.  The converters move the bits they know, and      *)
(* report and drop the rest.  Nothing in the code calls them.              *)

ESP_FLAG == [UP |-> 1, BROADCAST |-> 2, POINTTOPOINT |-> 4, DHCP |-> 8,
  LINK_UP |-> 16, ETHARP |-> 32, ETHERNET |-> 64, IGMP |-> 128]

GLUE_FLAG ==
  [BROADCAST |-> 1, UP |-> 2, ETHARP |-> 4, IGMP |-> 8, LINK_UP |-> 16]

GIT_FLAG == [UP |-> 1, BROADCAST |-> 2, LINK_UP |-> 4, ETHARP |-> 8,
  ETHERNET |-> 16, IGMP |-> 32, MLD6 |-> 64]

\* The CF() lines of each converter.
esp2glue_flags == {"UP", "BROADCAST", "LINK_UP", "ETHARP", "IGMP"}
glue2git_flags == {"UP", "BROADCAST", "LINK_UP", "ETHARP", "IGMP"}

TranslateFlags(from, to, cf, flags) ==
  {to[x] : x \in {y \in cf : from[y] \in flags}}

esp2glue_netif_flags(flags) ==
  TranslateFlags(ESP_FLAG, GLUE_FLAG, esp2glue_flags, flags)
glue2git_netif_flags(flags) ==
  TranslateFlags(GLUE_FLAG, GIT_FLAG, glue2git_flags, flags)

=============================================================================
