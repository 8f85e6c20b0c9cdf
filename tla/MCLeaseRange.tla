---------------------------- MODULE MCLeaseRange ----------------------------
(* LeaseRange for TLC: octets below six, default ranges of two addresses.  *)
EXTENDS LeaseRange

TwoNets == {0, 1}
=============================================================================
