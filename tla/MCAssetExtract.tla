--------------------------- MODULE MCAssetExtract ---------------------------
(* Instances of AssetExtract for TLC.                                       *)
EXTENDS AssetExtract, TLC

CONSTANTS a1, a2, a3, p1, p2, p3    \* assets and paths (model values)

ThreeAssets == {a1, a2, a3}
ThreePaths  == {p1, p2, p3}

\* a1 and a3 have the same base name and are copied to one directory.
Shared   == (a1 :> p1) @@ (a2 :> p2) @@ (a3 :> p1)
Distinct == (a1 :> p1) @@ (a2 :> p2) @@ (a3 :> p3)

SomeLists == {<<>>, <<a1, a2>>, <<a2, a3>>, <<a1, a2, a3>>}
NoLists   == {}
NoFaults  == {}
=============================================================================
