---------------------------- MODULE MemcachedStore ----------------------------
(* The store of the memcached server (lib/memcached/server/store.ts) and the  *)
(* commands that change it, as the server executes them: one at a time, each  *)
(* for one of several clients.  A value is a sequence of blocks, one block    *)
(* per byte.  Time is an action: an item that is not yet outdated may become  *)
(* so at any moment, and an item saved with a negative or past expiry is      *)
(* outdated when it is stored.                                                *)
(*                                                                            *)
(* Store.store schedules purge after every command.  purge walks              *)
(* Object.entries(this.record), and the entries of a Map object are none, so  *)
(* it changes nothing, whatever maxCount and maxSizeMb are: it has no action. *)
EXTENDS Integers, FiniteSetsExt, Sequences

CONSTANTS Clients,        \* whoever sends commands
          Keys,
          Blocks,         \* the bytes values are made of
          DataBlocks,     \* the values a command may carry
          CasIds,         \* what a client may give as <cas unique>
          Nothing,           \* no item, no reply, no <cas unique>
          MaxTotalSize    \* bound: commands are sent while totalSize is below it

\* extended is history: has append or prepend changed the value since it was stored?
Items == [value : Seq(Blocks), bytes : Nat, casId : CasIds \cup {Nothing}, live : BOOLEAN,
          extended : BOOLEAN]

ASSUME NothingAssumption == Nothing \notin Items
ASSUME StoreAssumption ==
  /\ DataBlocks \subseteq Seq(Blocks)
  /\ MaxTotalSize \in Nat

VARIABLES record,         \* the Map: an item or Nothing for every key
          totalSize,
          fetched,        \* what each client last got for a key by gets
          reply           \* the last command and how it was answered

storeVars == <<record, totalSize, fetched, reply>>

(* An item as the server makes it from a command whose data block is value.   *)
NewItem(value, casId, live) ==
  [value |-> value, bytes |-> Len(value), casId |-> casId, live |-> live, extended |-> FALSE]

CommandItems ==
  {NewItem(value, casId, live) :
     value \in DataBlocks, casId \in CasIds \cup {Nothing}, live \in BOOLEAN}

(* get(key): the item, unless there is none or it is outdated.                *)
Readable(k) == record[k] # Nothing /\ record[k].live
(* The bytes get(key, true) accounts for: outdated items count.               *)
StoredBytes(k) == IF record[k] = Nothing THEN 0 ELSE record[k].bytes

Answer(c, command, k, status) ==
  reply' = [client |-> c, command |-> command, key |-> k, status |-> status]
Refuse(c, command, k, status) ==
  /\ Answer(c, command, k, status)
  /\ UNCHANGED <<record, totalSize, fetched>>

-----------------------------------------------------------------------------
(* The commands.  Mutants of a definition stand before it.                    *)

(* Overwrites the item of a key and moves its size with it: set and cas.      *)
Put(k, item) ==
  /\ record' = [record EXCEPT ![k] = item]
  /\ totalSize' = totalSize - StoredBytes(k) + item.bytes

Set(c, k, item) ==
  /\ Put(k, item)
  /\ Answer(c, "set", k, "STORED")
  /\ UNCHANGED fetched

Add(c, k, item) ==
  /\ ~Readable(k)
  /\ record' = [record EXCEPT ![k] = item]
  /\ totalSize' = totalSize + item.bytes
  /\ Answer(c, "add", k, "STORED")
  /\ UNCHANGED fetched
AddRefused(c, k) == Readable(k) /\ Refuse(c, "add", k, "NOT_STORED")

(* replace checks that there is an item, stores nothing, and says STORED.     *)
Replace(c, k, item) ==
  /\ Readable(k)
  /\ Answer(c, "replace", k, "STORED")
  /\ UNCHANGED <<record, totalSize, fetched>>
ReplaceRefused(c, k) == ~Readable(k) /\ Refuse(c, "replace", k, "NOT_STORED")

\* Mutant: the new piece replaces the value, and only the sizes grow.
ExtendValueLost(k, value, piece) ==
  /\ record' = [record EXCEPT ![k].value = piece, ![k].bytes = @ + Len(piece),
                               ![k].extended = TRUE]
  /\ totalSize' = totalSize + Len(piece)

(* append and prepend change the value in place: its bytes, its <cas unique>  *)
(* and its expiry stay those of the command that stored it.                   *)
ExtendValue(k, value, piece) ==
  /\ record' = [record EXCEPT ![k].value = value, ![k].extended = TRUE]
  /\ totalSize' = totalSize + Len(piece)

(* append puts the new piece in front of the value, prepend behind it.        *)
AppendTo(c, k, piece) ==
  /\ Readable(k)
  /\ ExtendValue(k, piece \o record[k].value, piece)
  /\ Answer(c, "append", k, "STORED")
  /\ UNCHANGED fetched
PrependTo(c, k, piece) ==
  /\ Readable(k)
  /\ ExtendValue(k, record[k].value \o piece, piece)
  /\ Answer(c, "prepend", k, "STORED")
  /\ UNCHANGED fetched
ExtendRefused(c, k) ==
  /\ ~Readable(k)
  /\ \E command \in {"append", "prepend"} : Refuse(c, command, k, "NOT_STORED")

\* Mutant: cas finds an outdated item too.
CasMatchesOutdated(k, item) == record[k] # Nothing /\ record[k].casId = item.casId

(* cas compares its <cas unique> with the one of the readable item.  That is  *)
(* the one the last set, add or cas of the key carried: the server makes none.*)
CasMatches(k, item) == Readable(k) /\ record[k].casId = item.casId

(* A cas that stores answers EXISTS.                                          *)
Cas(c, k, item) ==
  /\ item.casId # Nothing
  /\ CasMatches(k, item)
  /\ Put(k, item)
  /\ Answer(c, "cas", k, "EXISTS")
  /\ UNCHANGED fetched
CasRefused(c, k, item) ==
  /\ item.casId # Nothing
  /\ ~CasMatches(k, item)
  /\ Refuse(c, "cas", k, "NOT_FOUND")
CasWithoutId(c, k, item) == item.casId = Nothing /\ Refuse(c, "cas", k, "CLIENT_ERROR")

Gets(c, k) ==
  /\ fetched' = [fetched EXCEPT ![c][k] = IF Readable(k) THEN record[k] ELSE Nothing]
  /\ Answer(c, "gets", k, "END")
  /\ UNCHANGED <<record, totalSize>>

(* delete finds outdated items as well.                                       *)
Delete(c, k) ==
  /\ record[k] # Nothing
  /\ record' = [record EXCEPT ![k] = Nothing]
  /\ totalSize' = totalSize - StoredBytes(k)
  /\ Answer(c, "delete", k, "DELETED")
  /\ UNCHANGED fetched
DeleteRefused(c, k) == record[k] = Nothing /\ Refuse(c, "delete", k, "NOT_FOUND")

(* The expiry of an item passes.                                              *)
Expire(k) ==
  /\ Readable(k)
  /\ record' = [record EXCEPT ![k].live = FALSE]
  /\ UNCHANGED <<totalSize, fetched, reply>>

-----------------------------------------------------------------------------
NoReply == [client |-> Nothing, command |-> Nothing, key |-> Nothing, status |-> Nothing]

StoreInit ==
  /\ record = [k \in Keys |-> Nothing]
  /\ totalSize = 0
  /\ fetched = [c \in Clients |-> [k \in Keys |-> Nothing]]
  /\ reply = NoReply

SaveCommand(c, k, item) ==
  \/ Set(c, k, item)
  \/ Add(c, k, item)
  \/ Replace(c, k, item)
  \/ AppendTo(c, k, item.value)
  \/ PrependTo(c, k, item.value)
  \/ Cas(c, k, item)
  \/ CasRefused(c, k, item)
  \/ CasWithoutId(c, k, item)

OtherCommand(c, k) ==
  \/ AddRefused(c, k)
  \/ ReplaceRefused(c, k)
  \/ ExtendRefused(c, k)
  \/ Gets(c, k)
  \/ Delete(c, k)
  \/ DeleteRefused(c, k)

StoreNext ==
  \/ /\ totalSize < MaxTotalSize
     /\ \E c \in Clients, k \in Keys, item \in CommandItems : SaveCommand(c, k, item)
  \/ \E c \in Clients, k \in Keys : OtherCommand(c, k)
  \/ \E k \in Keys : Expire(k)

StoreSpec == StoreInit /\ [][StoreNext]_storeVars

-----------------------------------------------------------------------------
(* Every value of every variable has its type.                                *)
StoreTypeOK ==
  /\ record \in [Keys -> Items \cup {Nothing}]
  /\ totalSize \in Int
  /\ fetched \in [Clients -> [Keys -> Items \cup {Nothing}]]
  /\ reply \in [client : Clients \cup {Nothing}, key : Keys \cup {Nothing},
                command : {"set", "add", "replace", "append", "prepend", "cas",
                           "gets", "delete", Nothing},
                status : {"STORED", "NOT_STORED", "EXISTS", "NOT_FOUND",
                          "CLIENT_ERROR", "END", "DELETED", Nothing}]

(* The bytes a gets reply announces for an item are those of the data block   *)
(* that follows, unless the item was appended or prepended to since it was    *)
(* stored; then they are fewer, but never more, for which a reader would wait.*)
AnnouncedBytesPresent ==
  \A k \in Keys : record[k] # Nothing =>
    /\ ~record[k].extended => record[k].bytes = Len(record[k].value)
    /\ record[k].bytes <= Len(record[k].value)

(* What was once outdated is not read again unless a set or an add stored it  *)
(* anew: append, prepend and cas do not bring it back (README.md:54-57).      *)
OnlySetOrAddRevives ==
  [][\A k \in Keys : ~Readable(k) /\ Readable(k)' =>
       reply'.key = k /\ reply'.command \in {"set", "add"}]_storeVars

(* cas stores only if no one has updated the item since its sender fetched it *)
(* with the <cas unique> it gives (README.md:39-40).                          *)
CasOnlyIfUnchanged ==
  [][\A c \in Clients, k \in Keys, item \in CommandItems :
       /\ Cas(c, k, item)
       /\ fetched[c][k] # Nothing
       /\ fetched[c][k].casId = item.casId
       => record[k].value = fetched[c][k].value]_storeVars
=============================================================================
