----------------------- MODULE MCDistributionInstall -----------------------
EXTENDS DistributionInstall, TLC
CONSTANTS i1, i2
\* Two bundles under version 1, as a second build makes them, and a later one.
Signed == {[version |-> 1, id |-> "a"], [version |-> 1, id |-> "b"],
           [version |-> 2, id |-> "c"]}
Interchangeable == Permutations({i1, i2})
=============================================================================
