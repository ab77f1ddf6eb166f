----------------------------- MODULE MCAssetsLocal -----------------------------
(* Instances of what is done with one directory: the commands (backup, pull   *)
(* and the operations, which EXTEND each other) over three paths of which two *)
(* have the same file name, and the tree of its meta over four files in two   *)
(* directories, one in the other.  A behaviour is one of the commands or one  *)
(* of the tree, `part' says which; the other stays empty.                     *)
EXTENDS AssetsOperations, AssetTree, TLC

CONSTANTS p1, p2, p3, c1, c2, top, de, df, deg, d, dd

MCPaths == {p1, p2, p3}
MCContents == {c1, c2}
MCBasename == [p \in MCPaths |-> IF p = p3 THEN "other" ELSE "same"]
MCSymmetry == Permutations({p1, p2}) \cup Permutations(MCContents)

(* top, d/e, d/f and d/d/g *)
MCFiles == {top, de, df, deg}
MCDirs == {d, dd}
MCParent == [n \in MCFiles \cup MCDirs |->
  CASE n \in {top, d} -> "root" [] n \in {de, df, dd} -> d [] OTHER -> dd]
MCAbove == [n \in MCFiles \cup MCDirs |->
  CASE n \in {top, d} -> {} [] n \in {de, df, dd} -> {d} [] OTHER -> {d, dd}]

VARIABLE part

commandVars == <<vars, pullVars, opVars>>

MCInit ==
  \/ /\ part = "commands"
     /\ OpInit
     /\ nodes = {} /\ TreeInit
  \/ /\ part = "tree"
     /\ sourceDisk = NoMap /\ disk = NoMap /\ OpInit
     /\ TreeInit

MCNext ==
  /\ \/ part = "commands" /\ CommandsNext /\ UNCHANGED treeVars
     \/ part = "tree" /\ TreeNext /\ UNCHANGED commandVars
  /\ UNCHANGED part

MCSpec == MCInit /\ [][MCNext]_<<commandVars, treeVars, part>>
=============================================================================
