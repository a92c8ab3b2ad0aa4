-------------------------- MODULE MCSignatureStore --------------------------
EXTENDS SignatureStore, TLC
CONSTANTS i1, i2, s1, s2, o1, o2
MCIds == {i1, i2}
\* Two names for one sample: only one of the two can be published.
MCSample == [i \in MCIds |-> "a"]
MCTarget == [i \in MCIds |-> "clamav"]
MCSamples == {"a", "b"}
\* Two members of one archive.
MCMember == [i \in MCIds |-> IF i = i1 THEN "a" ELSE "b"]
MCTargets == {"clamav"}
Symmetry == Permutations({s1, s2}) \cup Permutations({o1, o2}) \cup Permutations({i1, i2})
=============================================================================
