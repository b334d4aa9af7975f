------------------------------ MODULE MCCapacity ------------------------------
EXTENDS Capacity, TLC

CONSTANTS b1, b2, b3

Same == Permutations({b2, b3})

\* Three browsers that start, fail to start and are shed, one that is pinned or saved: no
\* crashes, resets or shrinking, which two browsers are checked with.
CrowdNext ==
    \/ Settle
    \/ /\ ~Settling
       /\ \/ Sample \/ Cooled
          \/ \E b \in Browsers :
                \/ System(b) \/ EnsureRunning(b) \/ Grow(b) \/ Unused(b) \/ Used(b)
                \/ Control(b) \/ SetPinned(b) \/ Close(b) \/ Reopen(b)

CrowdSpec == Init /\ [][CrowdNext]_vars
===============================================================================
