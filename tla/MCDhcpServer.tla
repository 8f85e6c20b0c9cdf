---------------------------- MODULE MCDhcpServer ----------------------------
(* DhcpServer for TLC, with one network of five addresses; 0 is IPADDR_ANY *)
(* and 4 the broadcast address.                                            *)
EXTENDS DhcpServer

Symmetry == Permutations(Mac)

TwoToThree == [start |-> 2, end |-> 3]
=============================================================================
