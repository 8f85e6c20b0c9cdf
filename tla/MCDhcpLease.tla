---------------------------- MODULE MCDhcpLease ----------------------------
(* DhcpLease for TLC, with one or two networks of eight addresses; 0 is    *)
(* IPADDR_ANY and the last one the broadcast address.                      *)
EXTENDS DhcpLease

Symmetry == Permutations(Mac)

\* Networks 0 .. 7 and 8 .. 15.  In the second the range shrinks from both ends
\* and grows again; clients ask for an address of it, or for one of the first
\* network, which Raw puts between theirs.
RangesSecondNet == {[start |-> 9, end |-> 11], [start |-> 10, end |-> 10]}
CiaddrBothNets == {0, 2, 9, 10, 11}

\* One network.  A client remembers an address below the range.
RangeThreeToFour == {[start |-> 3, end |-> 4]}
CiaddrBelow == {0, 2, 3, 4}

\* One network.  The range is never left.
RangeTwoToFour == {[start |-> 2, end |-> 4]}
CiaddrUpward == {0, 2, 3, 4, 7}
=============================================================================
