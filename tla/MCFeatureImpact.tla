-------------------------- MODULE MCFeatureImpact --------------------------
EXTENDS FeatureImpact, TLC

CONSTANTS a, b

\* b may read the field of a.
Read == {<<b, a>>}

Symmetry == Permutations(Proc) \cup Permutations(Version)
=============================================================================
