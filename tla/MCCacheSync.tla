---------------------------- MODULE MCCacheSync ----------------------------
EXTENDS CacheSyncProps, TLC
CONSTANTS e, f  \* an endpoint, which is a meter, and its field
MCConso == {<<e, f>>}
Symmetry == Permutations(Usages)
=============================================================================
