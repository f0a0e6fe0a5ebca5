---------------------------- MODULE MCProxyAuth ----------------------------
\* An instance of ProxyAuth for TLC: two devices behind one address.
EXTENDS ProxyAuth, TLC

CONSTANT a1

Symmetric == Permutations(Devices) \cup Permutations(Attempts)

OneAddress == [d \in Devices |-> a1]
=============================================================================
