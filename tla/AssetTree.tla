------------------------------- MODULE AssetTree -------------------------------
(***************************************************************************)
(* The tree that holds the meta of a directory                             *)
(* (assets-management/service/assets-meta.ts) and the handler that changes *)
(* and saves it (file-meta-handler.ts).  An item is found by walking down  *)
(* from the root; an inserted one brings the directories it lacks; one     *)
(* that is deleted takes its parent along when that is left empty, but not *)
(* the directories above, which may stay in the tree without a file.       *)
(*                                                                         *)
(* No path is at once that of a file and of a directory: a file and a      *)
(* directory that replace one another under the same name make the tree    *)
(* lose items (see the README).                                            *)
(***************************************************************************)
EXTENDS FiniteSets

CONSTANTS
  Files,    \* the paths of files
  Dirs,     \* the paths of directories below the root
  Root,
  Parent,   \* the directory a path is in
  Above,    \* the directories a path is in, the root left out
  Infos,    \* what an item says of its file
  NoInfo

Nodes == Files \cup Dirs

ASSUME PathAssumption ==
  /\ Files \cap Dirs = {} /\ Root \notin Nodes /\ NoInfo \notin Infos
  /\ Parent \in [Nodes -> Dirs \cup {Root}]
  /\ Above \in [Nodes -> SUBSET Dirs]
  /\ \A n \in Nodes :
       /\ n \notin Above[n]
       /\ Parent[n] # Root => Parent[n] \in Above[n]
       /\ \A d \in Above[n] :
            /\ Above[d] \subseteq Above[n]
            /\ \E c \in {n} \cup Above[n] : Parent[c] = d

VARIABLES
  nodes,   \* the nodes of the tree in memory
  info,    \* what the node of a file says
  file     \* the tree as the meta file has it

treeVars == <<nodes, info, file>>

-----------------------------------------------------------------------------
\* findItemFromAssetTree: the walk ends at the first part that is missing.
Found(p) == Above[p] \cup {p} \subseteq nodes

Children(d, S) == {n \in S : Parent[n] = d}

\* assetInfoTreeToList, and what a search by properties goes through.
ItemsOf == [p \in Files |-> IF Found(p) THEN info[p] ELSE NoInfo]

(* updateMeta: every change is followed by a save of the whole tree.       *)
ChangeTree(N, f) ==
  /\ nodes' = N
  /\ info' = f
  /\ file' = [nodes |-> N, info |-> f]

(* insertItemToAssetTree *)
Insert(p, i) == ChangeTree(nodes \cup Above[p] \cup {p}, [info EXCEPT ![p] = i])

(* updateItemOfAssetTree *)
Update(p, i) == ChangeTree(nodes, [info EXCEPT ![p] = i])

(* insertOrUpdateItemOfAssetTree, through createOrUpdateItem and the calls *)
(* that go through it.                                                     *)
CreateOrUpdate(p, i) == IF Found(p) THEN Update(p, i) ELSE Insert(p, i)

(* The parent is left empty by the removal of p; the root never goes.      *)
\* Mutant: the parent always goes.
EmptiedAlways(p) == {Parent[p]} \ {Root}

Emptied(p) ==
  IF Children(Parent[p], nodes \ {p}) = {} THEN {Parent[p]} \ {Root} ELSE {}

(* deleteItemFromAssetTree: without the item nothing changes.              *)
Remove(p) ==
  IF Found(p)
  THEN ChangeTree(nodes \ ({p} \cup Emptied(p)), [info EXCEPT ![p] = NoInfo])
  ELSE ChangeTree(nodes, info)

(* initMeta: another handler of the directory reads what was saved.        *)
Reopen ==
  /\ nodes' = file.nodes
  /\ info' = file.info
  /\ UNCHANGED file

(* The tree of the files a directory has, with every directory there is:   *)
(* getAssetTreeMeta, for a meta that is made (resetMeta) or was saved then.*)
ItemsIn(N) ==
  {f \in [Files -> Infos \cup {NoInfo}] : \A p \in Files : (f[p] = NoInfo) <=> (p \notin N)}

TreeInit ==
  /\ \E N \in SUBSET Nodes : \E f \in ItemsIn(N) :
       /\ \A n \in N : Above[n] \subseteq N
       /\ nodes = N /\ info = f
  /\ file = [nodes |-> nodes, info |-> info]

TreeNext ==
  \/ \E p \in Files : Remove(p) \/ \E i \in Infos : CreateOrUpdate(p, i)
  \/ Reopen

TreeSpec == TreeInit /\ [][TreeNext]_treeVars

-----------------------------------------------------------------------------
(* The tree keeps each item apart from the others: whatever directories    *)
(* come and go with an insertion or a deletion, the items found and listed *)
(* are those of a plain map from path to item (file-meta-handler.ts).      *)
Promised == INSTANCE AssetItems WITH items <- ItemsOf

KeepsItems == Promised!ItemsSpec
=============================================================================
