---------------------------- MODULE MCClientServer ----------------------------
(* What has to come about between a client and a server: instances of         *)
(* memcached, and of push sessions over two paths, pushed again and again.  A *)
(* behaviour is one of the parts of memcached or one of pushes, `part' says   *)
(* whose; the others stay as they are before their first step.                *)
EXTENDS MCMemcached, MCAssetsPush

(* No pushes: two empty directories, any one order of the list.               *)
NoPushes ==
  /\ clientDisk = [p \in Paths |-> None] /\ disk = clientDisk
  /\ rank = CHOOSE r \in Ranks : TRUE
  /\ Init

ClientServerInit ==
  \/ MCInit /\ NoPushes
  \/ part = "push" /\ StoreInit /\ ServerInit /\ ClientInit /\ script = <<>> /\ Init

ClientServerNext ==
  \/ MCNext /\ UNCHANGED vars
  \/ part = "push" /\ Next /\ UNCHANGED mcVars

(* The fairness of each, that of AssetsPush as long as it is the one.         *)
Pushing == part = "push"
PushFairness ==
  /\ WF_vars(Pushing /\ Session)
  /\ SF_vars(Pushing /\ Connect(TRUE, TRUE)) /\ SF_vars(Pushing /\ ReadDiff)

ClientServerSpec ==
  /\ ClientServerInit /\ [][ClientServerNext]_<<mcVars, vars>>
  /\ ServerFairness /\ ClientFairness /\ PushFairness
=============================================================================
