---------------------------- MODULE MCHarmonyPage ----------------------------
\* HarmonyPage on small instances.
EXTENDS HarmonyPage
CONSTANTS i1, u1, u2,           \* an image and its urls
          v1, v2, refused,      \* urls of a player
          a, b, any, onlyA      \* values of an input and patterns
OneImage == {i1}
TwoUrls == {u1, u2}
ThreeSources == {v1, v2, refused}
OneRefused == {refused}
TwoItems == {a, b}
TwoPatterns == {any, onlyA}
WhatMatches == (any :> SUBSET TwoItems) @@ (onlyA :> {{a}})
=============================================================================
