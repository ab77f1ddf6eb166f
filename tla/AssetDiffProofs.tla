--------------------------- MODULE AssetDiffProofs ---------------------------
(***************************************************************************)
(* What AssetDiff promises, proved for every set of paths and contents and *)
(* every order of the two lists.                                           *)
(*                                                                         *)
(* The properties speak of the finished diff, or of pairs of its entries;  *)
(* none of them is inductive.  DiffCore says what each entry of a list is   *)
(* while the loop is still running: what a scanned path was put down as,   *)
(* and that an unscanned one is in no list yet.                            *)
(***************************************************************************)
EXTENDS AssetDiff, TLAPS

\* A path is in no list of the diff.
InNoList(p) == p \notin added /\ copied[p] = None /\ moved[p] = None

\* What each of the three outcomes of an iteration says of its path.
IsAdded(p) ==
  /\ p \in added /\ copied[p] = None /\ moved[p] = None
  /\ \A q \in Paths : targetMeta[q] # sourceMeta[p]

IsCopied(p) ==
  /\ p \notin added /\ moved[p] = None
  /\ copied[p] \in Paths
  /\ targetMeta[copied[p]] = sourceMeta[p]
  /\ \A q \in PathOnlyInTarget :
        targetMeta[q] = sourceMeta[p] => \E r \in Paths : moved[r] = q

IsMoved(p) ==
  /\ p \notin added /\ copied[p] = None
  /\ moved[p] \in PathOnlyInTarget
  /\ targetMeta[moved[p]] = sourceMeta[p]

ScanInv ==
  /\ unscanned \subseteq PathOnlyInSource
  /\ \A p \in Paths \ (PathOnlyInSource \ unscanned) : InNoList(p)
  /\ \A p \in PathOnlyInSource \ unscanned :
        IsAdded(p) \/ IsCopied(p) \/ IsMoved(p)
  /\ \A p, q \in Paths : moved[p] # None /\ moved[p] = moved[q] => p = q

\* What the statements after the loop computed.
ResultInv ==
  /\ \A p \in Paths : moved[p] # None => moved[p] \notin deleted
  /\ diffPhase = "scan" => deleted = {}
  /\ diffPhase = "ready" =>
       /\ unscanned = {}
       /\ modified = {p \in PathCommon : sourceMeta[p] # targetMeta[p]}
       /\ deleted = PathOnlyInTarget \ PathOfMovedInTarget

\* The types of DiffTypeOK, but for the contents in the two metas.
DiffListsOK ==
  /\ targetMeta = [p \in Paths |-> targetMeta[p]]
  /\ sourceMeta = [p \in Paths |-> sourceMeta[p]]
  /\ rank \in Ranks
  /\ unscanned \subseteq Paths
  /\ added \subseteq Paths
  /\ copied \in [Paths -> Paths \cup {None}]
  /\ moved \in [Paths -> Paths \cup {None}]
  /\ modified \subseteq Paths
  /\ deleted \subseteq Paths
  /\ diffPhase \in {"none", "scan", "ready"}

DiffCore == DiffListsOK /\ ScanInv /\ ResultInv

-----------------------------------------------------------------------------
(* The state before any diff satisfies the invariant. *)
LEMMA DiffInitCore == DiffInit => DiffCore
<1> SUFFICES ASSUME DiffInit PROVE DiffCore
  OBVIOUS
<1>1. DiffListsOK
  BY DEF DiffInit, DiffListsOK, Metas
<1>2. PathOnlyInSource = {}
  BY DEF DiffInit, PathOnlyInSource
<1>3. ScanInv
  BY <1>2 DEF DiffInit, ScanInv, InNoList
<1>4. ResultInv
  BY DEF DiffInit, ResultInv
<1> QED
  BY <1>1, <1>3, <1>4 DEF DiffCore

(* A call starts from any two metas, whatever an earlier call left.  The   *)
(* lemmas on the three steps of the function are stated of the steps       *)
(* alone, so that the commands that run a diff can use them.               *)
LEMMA BeginDiffCore ==
  ASSUME NEW t, NEW s, BeginDiff(t, s),
         t = [p \in Paths |-> t[p]], s = [p \in Paths |-> s[p]]
  PROVE  DiffCore'
<1>1. DiffListsOK'
  BY DEF BeginDiff, DiffListsOK
<1>2. unscanned' = PathOnlyInSource'
  BY DEF BeginDiff, PathOnlyInSource
<1>3. ScanInv'
  BY <1>2 DEF BeginDiff, ScanInv, InNoList
<1>4. ResultInv'
  BY DEF BeginDiff, ResultInv
<1> QED
  BY <1>1, <1>3, <1>4 DEF DiffCore

LEMMA ScanPathCore ==
  ASSUME DiffCore, NEW p \in Paths, ScanPath(p)
  PROVE  DiffCore'
<1> USE NoneAssumption
<1>1. /\ DiffListsOK /\ ScanInv /\ ResultInv
      /\ diffPhase = "scan" /\ p \in unscanned /\ unscanned' = unscanned \ {p}
      /\ UNCHANGED <<targetMeta, sourceMeta, rank, modified, deleted, diffPhase>>
  BY DEF DiffCore, ScanPath
<1>2. p \in PathOnlyInSource /\ InNoList(p) /\ sourceMeta[p] # None
  BY <1>1 DEF ScanInv, PathOnlyInSource
<1>3. PathOnlyInSource' = PathOnlyInSource /\ PathOnlyInTarget' = PathOnlyInTarget
  BY <1>1 DEF PathOnlyInSource, PathOnlyInTarget
\* It is enough to look at the path scanned: no other list entry changes.
<1>4. ASSUME added' \subseteq Paths,
             copied' \in [Paths -> Paths \cup {None}],
             moved' \in [Paths -> Paths \cup {None}],
             \A q \in Paths \ {p} : /\ q \in added' <=> q \in added
                                    /\ copied'[q] = copied[q]
                                    /\ moved'[q] = moved[q],
             IsAdded(p)' \/ IsCopied(p)' \/ IsMoved(p)',
             \A q \in Paths \ {p} : moved'[p] # None => moved'[p] # moved[q]
      PROVE  DiffCore'
  <2>1. DiffListsOK'
    BY <1>1, <1>4 DEF DiffListsOK
  <2>2. ASSUME NEW q \in Paths \ (PathOnlyInSource \ unscanned)', q # p
        PROVE  InNoList(q)'
    BY <2>2, <1>1, <1>3, <1>4 DEF ScanInv, InNoList
  <2>3. ASSUME NEW q \in Paths, \E r \in Paths : moved[r] = q
        PROVE  \E r \in Paths : moved'[r] = q
    \* The entry of p was None, hence no other path's `moved' was lost.
    BY <2>3, <1>2, <1>4 DEF InNoList
  <2>4. ASSUME NEW q \in (PathOnlyInSource \ unscanned)', q # p
        PROVE  IsAdded(q)' \/ IsCopied(q)' \/ IsMoved(q)'
    <3>1. q \in Paths /\ q \in PathOnlyInSource \ unscanned
      BY <2>4, <1>1, <1>3 DEF PathOnlyInSource
    <3>2. IsAdded(q) \/ IsCopied(q) \/ IsMoved(q)
      BY <3>1, <1>1 DEF ScanInv
    <3>3. (q \in added' <=> q \in added) /\ copied'[q] = copied[q]
          /\ moved'[q] = moved[q]
      BY <3>1, <2>4, <1>4
    <3>4. CASE IsAdded(q)
      BY <3>4, <3>3, <1>1 DEF IsAdded
    <3>5. CASE IsCopied(q)
      <4>1. ASSUME NEW u \in PathOnlyInTarget, targetMeta[u] = sourceMeta[q]
            PROVE  \E r \in Paths : moved'[r] = u
        <5>1. u \in Paths /\ \E r \in Paths : moved[r] = u
          BY <4>1, <3>5 DEF IsCopied, PathOnlyInTarget
        <5> QED
          BY <5>1, <2>3
      <4> QED
        BY <4>1, <3>5, <3>3, <1>1, <1>3 DEF IsCopied
    <3>6. CASE IsMoved(q)
      BY <3>6, <3>3, <1>1, <1>3 DEF IsMoved
    <3> QED
      BY <3>2, <3>4, <3>5, <3>6
  <2>5. ASSUME NEW q \in Paths, NEW r \in Paths,
               moved'[q] # None, moved'[q] = moved'[r]
        PROVE  q = r
    <3>1. CASE q = p \/ r = p
      BY <3>1, <2>5, <1>4
    <3>2. CASE q # p /\ r # p
      BY <3>2, <2>5, <1>1, <1>4 DEF ScanInv
    <3> QED
      BY <3>1, <3>2
  <2>6. unscanned' \subseteq PathOnlyInSource'
    BY <1>1, <1>3 DEF ScanInv
  <2>7. ScanInv'
    BY <2>2, <2>4, <2>5, <2>6, <1>2, <1>3, <1>1, <1>4 DEF ScanInv
  <2>8. ResultInv'
    BY <1>1 DEF ResultInv
  <2> QED
    BY <2>1, <2>7, <2>8 DEF DiffCore
<1>5. CASE ScanAdded(p)
  <2>1. IsAdded(p)'
    BY <1>5, <1>1, <1>2 DEF ScanAdded, IsAdded, InNoList, AssetsInTarget, DiffListsOK
  <2>2. moved' = moved /\ copied' = copied /\ added' = added \cup {p} /\ moved[p] = None
    BY <1>5, <1>2 DEF ScanAdded, InNoList
  <2> QED
    BY <2>1, <2>2, <1>1, <1>4 DEF DiffListsOK
<1>6. CASE ScanMoved(p)
  <2>1. PICK from \in Movable(p) : moved' = [moved EXCEPT ![p] = from]
    BY <1>6 DEF ScanMoved
  <2>2. /\ from \in PathOnlyInTarget /\ from \in Paths
        /\ targetMeta[from] = sourceMeta[p]
        /\ \A q \in Paths : moved[q] # from
    BY DEF Movable, AssetsInTarget, PathOnlyInTarget, PathOfMovedInTarget
  <2>3. added' = added /\ copied' = copied
    BY <1>6 DEF ScanMoved
  <2>4. moved'[p] = from /\ \A q \in Paths \ {p} : moved'[q] = moved[q]
    BY <2>1, <1>1 DEF DiffListsOK
  <2>5. IsMoved(p)'
    BY <2>2, <2>3, <2>4, <1>1, <1>2, <1>3 DEF IsMoved, InNoList
  <2>6. moved' \in [Paths -> Paths \cup {None}]
    BY <2>1, <2>2, <1>1 DEF DiffListsOK
  <2> QED
    BY <2>2, <2>3, <2>4, <2>5, <2>6, <1>1, <1>4 DEF DiffListsOK
<1>7. CASE ScanCopied(p)
  <2>1. PICK from \in AssetsInTarget(sourceMeta[p]) :
           copied' = [copied EXCEPT ![p] = from]
    BY <1>7 DEF ScanCopied
  <2>2. from \in Paths /\ targetMeta[from] = sourceMeta[p]
    BY DEF AssetsInTarget
  <2>3. added' = added /\ moved' = moved /\ Movable(p) = {}
    BY <1>7 DEF ScanCopied
  <2>4. copied'[p] = from /\ \A q \in Paths \ {p} : copied'[q] = copied[q]
    BY <2>1, <1>1 DEF DiffListsOK
  <2>5. ASSUME NEW q \in PathOnlyInTarget, targetMeta[q] = sourceMeta[p]
        PROVE  \E r \in Paths : moved[r] = q
    <3>1. q \in PathOfMovedInTarget
      BY <2>5, <2>3 DEF Movable, AssetsInTarget, PathOnlyInTarget
    <3> QED
      BY <3>1 DEF PathOfMovedInTarget
  <2>6. IsCopied(p)'
    BY <2>2, <2>3, <2>4, <2>5, <1>1, <1>2, <1>3 DEF IsCopied, InNoList
  <2>7. copied' \in [Paths -> Paths \cup {None}]
    BY <2>1, <2>2, <1>1 DEF DiffListsOK
  <2>8. moved[p] = None
    BY <1>2 DEF InNoList
  <2> QED
    BY <2>3, <2>4, <2>6, <2>7, <2>8, <1>1, <1>4 DEF DiffListsOK
<1> QED
  BY <1>5, <1>6, <1>7 DEF ScanPath

LEMMA FinishDiffCore ==
  ASSUME DiffCore, FinishDiff
  PROVE  DiffCore'
<1> USE DEF DiffCore
<1>1. DiffListsOK'
  BY DEF FinishDiff, Changed, DiffListsOK, PathCommon, PathOnlyInTarget
<1>2. ScanInv'
  BY DEF FinishDiff, ScanInv, InNoList, IsAdded, IsCopied, IsMoved,
         PathOnlyInSource, PathOnlyInTarget
<1>3. ASSUME NEW p \in Paths, moved[p] # None
      PROVE  moved[p] \notin deleted'
  BY <1>3 DEF FinishDiff, PathOfMovedInTarget
<1>4. ResultInv'
  BY <1>3 DEF FinishDiff, Changed, ResultInv, PathCommon, PathOnlyInTarget,
              PathOfMovedInTarget
<1> QED
  BY <1>1, <1>2, <1>4

LEMMA DiffStutterCore ==
  ASSUME DiffCore, UNCHANGED diffVars
  PROVE  DiffCore'
<1>1. DiffListsOK'
  BY DEF DiffCore, DiffListsOK, Ranks, diffVars
<1>2. ScanInv' /\ ResultInv'
  BY DEF DiffCore, ScanInv, ResultInv, diffVars, InNoList, IsAdded,
         IsCopied, IsMoved, PathOnlyInSource, PathOnlyInTarget, PathCommon,
         PathOfMovedInTarget
<1> QED
  BY <1>1, <1>2 DEF DiffCore

(* A diff given up: its lists are kept, and mean nothing any more.         *)
DropDiff ==
  /\ diffPhase' = "none"
  /\ UNCHANGED <<targetMeta, sourceMeta, rank, unscanned, added, copied, moved, modified, deleted>>

LEMMA DropDiffCore ==
  ASSUME DiffCore, DropDiff
  PROVE  DiffCore'
<1>1. DiffListsOK'
  BY DEF DropDiff, DiffCore, DiffListsOK, Ranks
<1>2. ScanInv' /\ ResultInv'
  BY DEF DropDiff, DiffCore, ScanInv, ResultInv, InNoList, IsAdded, IsCopied, IsMoved,
         PathOnlyInSource, PathOnlyInTarget, PathCommon, PathOfMovedInTarget
<1> QED
  BY <1>1, <1>2 DEF DiffCore

-----------------------------------------------------------------------------
(* The invariant implies what the runs check.                              *)
LEMMA DiffCoreApplied == DiffCore => DiffReproducesSource
<1> SUFFICES ASSUME DiffCore, diffPhase = "ready"
             PROVE  Applied = sourceMeta
  BY DEF DiffReproducesSource
<1> USE NoneAssumption
<1>1. /\ sourceMeta = [p \in Paths |-> sourceMeta[p]]
      /\ unscanned = {}
      /\ modified = {p \in PathCommon : sourceMeta[p] # targetMeta[p]}
      /\ deleted = PathOnlyInTarget \ PathOfMovedInTarget
      /\ ScanInv
  BY DEF DiffCore, DiffListsOK, ResultInv
<1>2. ASSUME NEW p \in Paths
      PROVE  Applied[p] = sourceMeta[p]
  <2>1. CASE p \in PathOnlyInSource
    <3>1. IsAdded(p) \/ IsCopied(p) \/ IsMoved(p)
      BY <2>1, <1>1 DEF ScanInv
    <3>2. p \notin modified
      BY <2>1, <1>1 DEF PathCommon, PathOnlyInSource
    <3>3. \A q \in PathOnlyInTarget : q # None
      BY DEF PathOnlyInTarget
    <3> QED
      BY <3>1, <3>2, <3>3 DEF Applied, IsAdded, IsCopied, IsMoved
  <2>2. CASE p \notin PathOnlyInSource
    <3>1. InNoList(p)
      BY <2>2, <1>1 DEF ScanInv
    <3>2. ASSUME p \in PathOfMovedInTarget
          PROVE  sourceMeta[p] = None
      <4>1. PICK q \in Paths : moved[q] = p
        BY <3>2 DEF PathOfMovedInTarget
      <4>2. q \in PathOnlyInSource
        BY <4>1, <1>1 DEF ScanInv, InNoList
      <4>3. IsMoved(q)
        BY <4>1, <4>2, <1>1 DEF ScanInv, IsAdded, IsCopied, IsMoved
      <4> QED
        BY <4>1, <4>3 DEF IsMoved, PathOnlyInTarget
    <3>3. CASE p \in PathOnlyInTarget
      BY <3>3, <3>1, <1>1 DEF Applied, InNoList, PathOnlyInTarget, PathCommon
    <3>4. CASE p \in PathCommon
      BY <3>4, <3>1, <3>2, <1>1
      DEF Applied, InNoList, PathOnlyInTarget, PathCommon
    <3>5. CASE p \notin PathOnlyInTarget /\ p \notin PathCommon
      <4>1. targetMeta[p] = None /\ sourceMeta[p] = None
        BY <3>5, <2>2 DEF PathOnlyInTarget, PathOnlyInSource, PathCommon
      <4> QED
        BY <4>1, <3>1, <1>1 DEF Applied, InNoList, PathCommon
    <3> QED
      BY <3>3, <3>4, <3>5
  <2> QED
    BY <2>1, <2>2
<1>3. Applied = [p \in Paths |-> Applied[p]]
  BY DEF Applied
<1> QED
  BY <1>1, <1>2, <1>3

LEMMA DiffCoreMoves == DiffCore => MovesDisjoint
<1> SUFFICES ASSUME DiffCore PROVE MovesDisjoint
  OBVIOUS
<1>1. ASSUME NEW p \in Paths, moved[p] # None
      PROVE  /\ sourceMeta[moved[p]] = None /\ moved[p] \notin deleted
             /\ copied[p] = None /\ p \notin added
  <2>1. IsMoved(p)
    BY <1>1 DEF DiffCore, ScanInv, InNoList, IsAdded, IsCopied
  <2> QED
    BY <2>1, <1>1 DEF DiffCore, ResultInv, IsMoved, PathOnlyInTarget
<1> QED
  BY <1>1 DEF MovesDisjoint, DiffCore, ScanInv

LEMMA DiffCoreMinimal == DiffCore => TransferMinimal
<1> SUFFICES ASSUME DiffCore, diffPhase = "ready"
             PROVE  /\ \A p \in added, q \in Paths : targetMeta[q] # sourceMeta[p]
                    /\ \A p \in Paths : copied[p] # None =>
                         \A q \in Paths : targetMeta[q] = sourceMeta[p] =>
                            q \notin deleted
  BY DEF TransferMinimal
<1>1. ASSUME NEW p \in added, NEW q \in Paths
      PROVE  targetMeta[q] # sourceMeta[p]
  <2>1. p \in Paths
    BY DEF DiffCore, DiffListsOK
  <2>2. IsAdded(p)
    BY <2>1 DEF DiffCore, ScanInv, InNoList, IsCopied, IsMoved
  <2> QED
    BY <2>2 DEF IsAdded
<1>2. ASSUME NEW p \in Paths, copied[p] # None, NEW q \in Paths,
             targetMeta[q] = sourceMeta[p], q \in deleted
      PROVE  FALSE
  <2>1. IsCopied(p)
    BY <1>2 DEF DiffCore, ScanInv, InNoList, IsAdded, IsMoved
  <2>2. q \in PathOnlyInTarget /\ q \notin PathOfMovedInTarget
    BY <1>2 DEF DiffCore, ResultInv
  <2>3. PICK r \in Paths : moved[r] = q
    BY <2>1, <2>2, <1>2 DEF IsCopied
  <2> QED
    BY <2>2, <2>3, NoneAssumption DEF PathOfMovedInTarget
<1> QED
  BY <1>1, <1>2

(* What the lists of a finished diff have to do with each other. *)
LEMMA CoreListFacts ==
  ASSUME DiffCore, diffPhase = "ready"
  PROVE  /\ added \cup modified \subseteq Paths
         /\ deleted \subseteq PathOnlyInTarget
         /\ \A p \in added \cup modified : sourceMeta[p] # None /\ moved[p] = None
         /\ \A p \in Paths : moved[p] # None =>
              /\ moved[p] \in PathOnlyInTarget
              /\ sourceMeta[p] # None
              /\ targetMeta[moved[p]] = sourceMeta[p]
         /\ \A p \in Paths : copied[p] # None =>
              copied[p] \in Paths /\ sourceMeta[p] # None
<1> USE NoneAssumption
<1>1. DiffListsOK /\ ScanInv /\ ResultInv
  BY DEF DiffCore
<1>2. ASSUME NEW p \in Paths, moved[p] # None \/ copied[p] # None
      PROVE  p \in PathOnlyInSource /\ (IsMoved(p) \/ IsCopied(p))
  BY <1>1, <1>2 DEF ScanInv, InNoList, IsAdded
<1>3. \A p \in added : p \in PathOnlyInSource /\ moved[p] = None
  BY <1>1 DEF ScanInv, InNoList, IsAdded, IsCopied, IsMoved, DiffListsOK
<1>4. \A p \in modified : p \in PathCommon /\ moved[p] = None
  BY <1>1 DEF ResultInv, ScanInv, InNoList, PathCommon, PathOnlyInSource
<1>5. deleted \subseteq PathOnlyInTarget
  BY <1>1 DEF ResultInv
<1>6. ASSUME NEW p \in Paths, moved[p] # None
      PROVE  IsMoved(p)
  BY <1>2, <1>6 DEF IsMoved, IsCopied
<1>7. ASSUME NEW p \in Paths, copied[p] # None
      PROVE  IsCopied(p)
  BY <1>2, <1>7 DEF IsMoved, IsCopied
<1>8. added \cup modified \subseteq Paths
  BY <1>1 DEF DiffListsOK
<1>9. \A p \in added \cup modified : sourceMeta[p] # None
  BY <1>3, <1>4 DEF PathOnlyInSource, PathCommon
<1>10. ASSUME NEW p \in Paths, moved[p] # None
       PROVE  /\ moved[p] \in PathOnlyInTarget
              /\ sourceMeta[p] # None
              /\ targetMeta[moved[p]] = sourceMeta[p]
  BY <1>2, <1>6, <1>10 DEF IsMoved, PathOnlyInSource
<1>11. ASSUME NEW p \in Paths, copied[p] # None
       PROVE  copied[p] \in Paths /\ sourceMeta[p] # None
  BY <1>2, <1>7, <1>11 DEF IsCopied, PathOnlyInSource
<1> QED
  BY <1>3, <1>4, <1>5, <1>8, <1>9, <1>10, <1>11

-----------------------------------------------------------------------------
(* The same with the contents of the metas, for the commands whose         *)
(* directories hold no other contents.                                     *)
DiffInv == DiffTypeOK /\ DiffCore

LEMMA DiffInitInv == DiffInit => DiffInv
BY DiffInitCore DEF DiffInit, DiffInv, DiffTypeOK, Metas

LEMMA BeginDiffInv ==
  ASSUME NEW t \in Metas, NEW s \in Metas, BeginDiff(t, s)
  PROVE  DiffInv'
<1>1. DiffCore'
  BY BeginDiffCore DEF Metas
<1>2. DiffTypeOK'
  BY <1>1 DEF BeginDiff, DiffCore, DiffListsOK, DiffTypeOK
<1> QED
  BY <1>1, <1>2 DEF DiffInv

LEMMA TypedByMetas ==
  ASSUME DiffInv, DiffCore', UNCHANGED <<targetMeta, sourceMeta>>
  PROVE  DiffInv'
BY DEF DiffInv, DiffCore, DiffListsOK, DiffTypeOK

LEMMA ScanPathInv ==
  ASSUME DiffInv, NEW p \in Paths, ScanPath(p)
  PROVE  DiffInv'
BY ScanPathCore, TypedByMetas DEF DiffInv, ScanPath

LEMMA FinishDiffInv ==
  ASSUME DiffInv, FinishDiff
  PROVE  DiffInv'
BY FinishDiffCore, TypedByMetas DEF DiffInv, FinishDiff

LEMMA DiffStutterInv ==
  ASSUME DiffInv, UNCHANGED diffVars
  PROVE  DiffInv'
BY DiffStutterCore, TypedByMetas DEF DiffInv, diffVars

LEMMA DropDiffInv ==
  ASSUME DiffInv, DropDiff
  PROVE  DiffInv'
BY DropDiffCore, TypedByMetas DEF DiffInv, DropDiff

LEMMA DiffInvApplied == DiffInv => DiffReproducesSource
BY DiffCoreApplied DEF DiffInv

LEMMA ListFacts ==
  ASSUME DiffInv, diffPhase = "ready"
  PROVE  /\ added \cup modified \subseteq Paths
         /\ deleted \subseteq PathOnlyInTarget
         /\ \A p \in added \cup modified : sourceMeta[p] # None /\ moved[p] = None
         /\ \A p \in Paths : moved[p] # None =>
              /\ moved[p] \in PathOnlyInTarget
              /\ sourceMeta[p] # None
              /\ targetMeta[moved[p]] = sourceMeta[p]
         /\ \A p \in Paths : copied[p] # None =>
              copied[p] \in Paths /\ sourceMeta[p] # None
BY CoreListFacts DEF DiffInv

(* The invariant holds throughout the function. *)
THEOREM DiffInvariance == DiffSpec => []DiffInv
<1>1. ASSUME DiffInv, [DiffNext]_diffVars
      PROVE  DiffInv'
  BY <1>1, BeginDiffInv, ScanPathInv, FinishDiffInv, DiffStutterInv DEF DiffNext
<1> QED
  BY <1>1, DiffInitInv, PTL DEF DiffSpec

(* The lists of a diff hold paths of the right side. *)
THEOREM DiffTypeCorrect == DiffSpec => []DiffTypeOK
BY DiffInvariance, PTL DEF DiffInv

(* A finished diff applied to the target it was computed for yields the    *)
(* source.                                                                 *)
THEOREM DiffReproduces == DiffSpec => []DiffReproducesSource
BY DiffInvariance, DiffCoreApplied, PTL DEF DiffInv

(* No two moves take the same file, and none takes one the source keeps or *)
(* the diff deletes.                                                       *)
THEOREM MovesAreDisjoint == DiffSpec => []MovesDisjoint
BY DiffInvariance, DiffCoreMoves, PTL DEF DiffInv

(* Nothing is sent that the target holds, nothing copied that could have   *)
(* been moved.                                                             *)
THEOREM TransferIsMinimal == DiffSpec => []TransferMinimal
BY DiffInvariance, DiffCoreMinimal, PTL DEF DiffInv

=============================================================================
