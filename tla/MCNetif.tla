------------------------------- MODULE MCNetif ------------------------------
(* Netif for TLC: no address, or one of two with one of two netmasks or    *)
(* gateways, and lists of up to two NTP servers.                           *)
EXTENDS Netif

Configs == {Zero} \cup [ip : {1, 2}, net : {1, 2}]
Lists == {<<>>, <<1>>, <<1, 2>>}
=============================================================================
