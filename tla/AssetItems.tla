------------------------------ MODULE AssetItems ------------------------------
(***************************************************************************)
(* What the meta of a directory promises to its users                      *)
(* (assets-management/types/meta-handler.ts, as service/file-meta-handler  *)
(* gives it): an item for each file, put, dropped, found and listed by its *)
(* path, whatever the tree it is kept in.                                  *)
(***************************************************************************)
CONSTANTS
  Files,   \* the paths of files
  Infos,   \* what an item says of its file
  NoInfo   \* no item

VARIABLE items

ItemMaps == [Files -> Infos \cup {NoInfo}]

InitItems == items \in ItemMaps

(* createItem, updateItem and their lists, item by item. *)
Put(p, i) == items' = [items EXCEPT ![p] = i]

(* removeItem, also of a path that has no item. *)
Drop(p) == items' = [items EXCEPT ![p] = NoInfo]

NextItems == \E p \in Files : Drop(p) \/ \E i \in Infos : Put(p, i)

ItemsSpec == InitItems /\ [][NextItems]_items
=============================================================================
