----------------------- MODULE MCDistributionRelease -----------------------
EXTENDS DistributionRelease
CONSTANTS k1, k2

Release(version, draft, checksumURL) ==
  [version |-> version, draft |-> draft, archive |-> "url", checksum |-> checksumURL]
\* Two answers in an order of their own: drafts, tags that are no version and
\* unsafe links stand beside the releases a client can use.
FeedsMC == {<<Release(1, FALSE, "url"), Release(2, FALSE, "none"), Release(None, FALSE, "url")>>,
            <<Release(2, TRUE, "url"), Release(2, FALSE, "unsafe"), Release(1, FALSE, "none")>>}
Symmetry == Permutations(Releasers)
=============================================================================
