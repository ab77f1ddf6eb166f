----------------------------- MODULE MCAssetsPush -----------------------------
EXTENDS AssetsPush, TLC

CONSTANTS p1, p2, p3, c1, c2, torn

MCPaths2 == {p1, p2}
MCPaths3 == {p1, p2, p3}
MCContents == {c1, c2, torn}
Symmetry2 == Permutations(MCPaths2) \cup Permutations({c1, c2})
Symmetry3 == Permutations(MCPaths3) \cup Permutations({c1, c2})
=============================================================================
