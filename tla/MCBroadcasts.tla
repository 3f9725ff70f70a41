----------------------------- MODULE MCBroadcasts -----------------------------
EXTENDS Broadcasts, TLC
CONSTANTS b1, b2, u1, u2, s1, s2
Alike == Permutations({b1, b2}) \cup Permutations({u1, u2}) \cup Permutations({s1, s2})
=============================================================================
