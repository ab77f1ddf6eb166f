------------------------------ MODULE AssetDiff ------------------------------
(***************************************************************************)
(* diffMetaForSyncUp (lib/assets-management/service/diff-meta.ts): what    *)
(* must be done to a target directory so that it holds what a source       *)
(* directory holds.  The push, pull and backup commands all apply this     *)
(* diff; two different directories are compared, so files are the same     *)
(* when their sha1 is (isSameDir is FALSE).                                *)
(*                                                                         *)
(* A meta maps each path to the content (sha1) recorded for it, or None.   *)
(* The loop over the paths that only the source has awaits in each         *)
(* iteration, so each iteration is a step: the paths are taken in any      *)
(* order (the order of the source's list), while `rank' is the position    *)
(* of a path in the target's list, where `find' and `[0]' look.            *)
(***************************************************************************)
EXTENDS Naturals, FiniteSets

CONSTANTS
  Paths,     \* relative paths, in a flat directory
  Contents,  \* file contents, told apart by their sha1
  None       \* no file, or no path

ASSUME NoneAssumption == None \notin Paths \cup Contents

VARIABLES
  targetMeta,  \* meta of the directory to be changed
  sourceMeta,  \* meta of the directory to be reproduced
  rank,        \* position of a path in the target's assetInfoList
  unscanned,   \* paths of pathOnlyInSource the loop has not reached
  added,       \* paths whose content the target does not have
  copied,      \* copied[p]: the target's path p is to be copied from
  moved,       \* moved[p]: the target's path p is to be moved from
  modified,    \* paths of both sides whose contents differ
  deleted,     \* paths to remove from the target
  diffPhase    \* "none", "scan" (in the loop) or "ready"

diffVars == <<targetMeta, sourceMeta, rank, unscanned, added, copied, moved,
              modified, deleted, diffPhase>>

Metas == [Paths -> Contents \cup {None}]
Ranks == {r \in [Paths -> 1..Cardinality(Paths)] :
             \A p, q \in Paths : r[p] = r[q] => p = q}

PathOnlyInSource == {p \in Paths : sourceMeta[p] # None /\ targetMeta[p] = None}
PathOnlyInTarget == {p \in Paths : targetMeta[p] # None /\ sourceMeta[p] = None}
PathCommon       == {p \in Paths : targetMeta[p] # None /\ sourceMeta[p] # None}

\* The target's paths recorded with content c: the value of sha1ToAssetInTarget.
AssetsInTarget(c) == {p \in Paths : targetMeta[p] = c}

PathOfMovedInTarget == {moved[p] : p \in Paths} \ {None}

IsFirst(p, S) == p \in S /\ \A q \in S : rank[p] <= rank[q]

\* isNeedAction: the diff asks for some change.
NeedAction ==
  \/ added # {} \/ modified # {} \/ deleted # {}
  \/ \E p \in Paths : copied[p] # None \/ moved[p] # None

-----------------------------------------------------------------------------
(* The call with metas t and s: the path lists are built synchronously.    *)
BeginDiff(t, s) ==
  /\ targetMeta' = t
  /\ sourceMeta' = s
  /\ rank' \in Ranks
  /\ unscanned' = {p \in Paths : s[p] # None /\ t[p] = None}
  /\ added' = {}
  /\ copied' = [p \in Paths |-> None]
  /\ moved' = [p \in Paths |-> None]
  /\ modified' = {}
  /\ deleted' = {}
  /\ diffPhase' = "scan"

(* One iteration: a path is new, or the target has its content.  In the    *)
(* second case a path that only the target has is moved, once; when there  *)
(* is none left the first holder of the content is copied.                 *)
Movable(p) == (AssetsInTarget(sourceMeta[p]) \cap PathOnlyInTarget)
                 \ PathOfMovedInTarget

ScanAdded(p) ==
  /\ AssetsInTarget(sourceMeta[p]) = {}
  /\ added' = added \cup {p}
  /\ UNCHANGED <<copied, moved>>

ScanMoved(p) ==
  /\ \E from \in Movable(p) :
        /\ IsFirst(from, Movable(p))
        /\ moved' = [moved EXCEPT ![p] = from]
  /\ UNCHANGED <<added, copied>>

ScanCopied(p) ==
  /\ Movable(p) = {}
  /\ \E from \in AssetsInTarget(sourceMeta[p]) :
        /\ IsFirst(from, AssetsInTarget(sourceMeta[p]))
        /\ copied' = [copied EXCEPT ![p] = from]
  /\ UNCHANGED <<added, moved>>

ScanPath(p) ==
  /\ diffPhase = "scan"
  /\ p \in unscanned
  /\ unscanned' = unscanned \ {p}
  /\ ScanAdded(p) \/ ScanMoved(p) \/ ScanCopied(p)
  /\ UNCHANGED <<targetMeta, sourceMeta, rank, modified, deleted, diffPhase>>

(* After the loop: the common paths are compared, what is neither kept nor *)
(* moved away is deleted.                                                  *)
\* Mutant: files of both sides are taken to be the same.
ChangedNone == {}
Changed == {p \in PathCommon : sourceMeta[p] # targetMeta[p]}

FinishDiff ==
  /\ diffPhase = "scan"
  /\ unscanned = {}
  /\ modified' = Changed
  /\ deleted' = PathOnlyInTarget \ PathOfMovedInTarget
  /\ diffPhase' = "ready"
  /\ UNCHANGED <<targetMeta, sourceMeta, rank, unscanned, added, copied, moved>>

DiffInit ==
  /\ targetMeta = [p \in Paths |-> None]
  /\ sourceMeta = [p \in Paths |-> None]
  /\ rank \in Ranks
  /\ unscanned = {} /\ added = {} /\ modified = {} /\ deleted = {}
  /\ copied = [p \in Paths |-> None]
  /\ moved = [p \in Paths |-> None]
  /\ diffPhase = "none"

(* The function on its own: it is called with any two metas, any number of *)
(* times.                                                                  *)
DiffNext ==
  \/ /\ diffPhase # "scan"
     /\ \E t, s \in Metas : BeginDiff(t, s)
  \/ \E p \in Paths : ScanPath(p)
  \/ FinishDiff

DiffSpec == DiffInit /\ [][DiffNext]_diffVars

-----------------------------------------------------------------------------
(* Type invariant of the diff: the lists hold paths of the right side.     *)
DiffTypeOK ==
  /\ targetMeta \in Metas
  /\ sourceMeta \in Metas
  /\ rank \in Ranks
  /\ unscanned \subseteq Paths
  /\ added \subseteq Paths
  /\ copied \in [Paths -> Paths \cup {None}]
  /\ moved \in [Paths -> Paths \cup {None}]
  /\ modified \subseteq Paths
  /\ deleted \subseteq Paths
  /\ diffPhase \in {"none", "scan", "ready"}

(* What the target holds once the diff is applied as a whole to the        *)
(* contents it was computed from.                                          *)
Applied ==
  [p \in Paths |->
     IF p \in added \cup modified THEN sourceMeta[p]
     ELSE IF copied[p] # None THEN targetMeta[copied[p]]
     ELSE IF moved[p] # None THEN targetMeta[moved[p]]
     ELSE IF p \in deleted \cup PathOfMovedInTarget THEN None
     ELSE targetMeta[p]]

(* A finished diff, applied to the target it was computed for, yields      *)
(* exactly the source: nothing forgotten, nothing left over.               *)
DiffReproducesSource == diffPhase = "ready" => Applied = sourceMeta

(* A file of the target is moved to at most one place, never away from a   *)
(* path the source still has, and a file that moves is not also deleted:   *)
(* the guards of pathOfMovedInTarget (diff-meta.ts:108-119, 163).          *)
MovesDisjoint ==
  /\ \A p, q \in Paths : moved[p] # None /\ moved[p] = moved[q] => p = q
  /\ \A p \in Paths : moved[p] # None =>
        /\ sourceMeta[moved[p]] = None
        /\ moved[p] \notin deleted
        /\ copied[p] = None /\ p \notin added

(* The transfer is as small as the metas allow: a file is sent only when   *)
(* the target holds its content nowhere, or holds the path with other      *)
(* content, and a file is copied only when no holder of its content is     *)
(* free to be moved (the reason moves are tried first, diff-meta.ts:107).  *)
TransferMinimal ==
  diffPhase = "ready" =>
    /\ \A p \in added, q \in Paths : targetMeta[q] # sourceMeta[p]
    /\ \A p \in Paths : copied[p] # None =>
         \A q \in Paths : targetMeta[q] = sourceMeta[p] =>
            q \notin deleted

=============================================================================
