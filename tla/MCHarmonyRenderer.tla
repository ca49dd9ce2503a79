------------------------- MODULE MCHarmonyRenderer -------------------------
\* HarmonyRenderer on small instances.
EXTENDS HarmonyRenderer
CONSTANTS s1, a, b, k1, k2, l1, l2
OneSurface == {s1}
None == {}
TwoChildren == {a, b}
TwoContainers == {k1, k2}
Symmetry == Permutations(Containers)
OneListener == {l1}
TwoListeners == {l1, l2}
=============================================================================
