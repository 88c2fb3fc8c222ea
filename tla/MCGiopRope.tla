---------------------------- MODULE MCGiopRope ----------------------------
EXTENDS GiopRope

CONSTANTS c1, c2, c3, s1, s2, a1, a2

MCCallers == {c1, c2, c3}
TwoAddresses == {<<a1, a2>>}

\* With one address the first failure ends a call, with two the second does.
OneOrTwo == {<<a1>>, <<a1, a2>>}
=============================================================================
