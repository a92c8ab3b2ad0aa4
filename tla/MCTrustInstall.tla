-------------------------- MODULE MCTrustInstall --------------------------
EXTENDS TrustInstall
CONSTANTS i1, i2, s1, s2, r1, r2
\* Two stores signed under sequence 1, a later one, and one of another root key.
Signed == {[seq |-> 1, store |-> s1, root |-> r1],
           [seq |-> 1, store |-> s2, root |-> r1],
           [seq |-> 2, store |-> s2, root |-> r1],
           [seq |-> 2, store |-> s1, root |-> r2]}
=============================================================================
